------------------------------- MODULE Query -------------------------------
(***************************************************************************)
(* lm::ngram::detail::GenericModel over HashedSearch or TrieSearch: what a *)
(* word costs after a state, after words, and what is owed when words turn *)
(* up to the left of an n-gram that was scored without them.  A state has  *)
(* words from the last to the first and the backoffs to charge, one for    *)
(* each length.                                                            *)
(*                                                                         *)
(* A model is loaded and fragments of sentences are scored with it: rules  *)
(* of words and of finished fragments (lm/left.hh, search/rule.cc), and    *)
(* edges of the search whose fragments are shown a little at a time        *)
(* (FastScore of search/edge_generator.cc).                                *)
(***************************************************************************)
EXTENDS TrieSearch

CONSTANTS MaxWords,    \* the words of all fragments
          MaxDepth,    \* how deep fragments are nested
          MaxHeld      \* the fragments of an edge

ASSUME BoundAssumption == MaxWords \in Nat /\ MaxDepth \in Nat \ {0} /\ MaxHeld \in Nat

VARIABLES stack,       \* the rules that are being scored, the innermost last
          edge         \* the edge whose fragments are being shown, if any

modelVars == <<loadVars, trieVars>>
vars == <<modelVars, stack, edge>>

(***************************************************************************)
(* lm/model.cc.                                                            *)
(***************************************************************************)
\* From the place from on.
SumFrom(numbers, from) == SumFunctionOnSet(numbers, from..Len(numbers))

NullContext == [words |-> << >>, backoff |-> << >>]
BOS == 1
BeginSentence == [words |-> <<BOS>>, backoff |-> <<table[<<BOS>>].backoff>>]

\* FullScoreReturn and the state being written: backoffs found, and how many
\* of the words the next n-gram may use.
Start(key) ==
  [prob |-> table[key].prob, rest |-> table[key].rest, length |-> Len(key),
   independent |-> ~table[key].left, pointer |-> key, backoffs |-> << >>, use |-> Len(key)]

\* A zero backoff nothing extends need not be in the state.
Use(old, key) == IF table[key].extends THEN Len(key) ELSE old

\* ResumeScore: longer n-grams, as far as there are words and n-grams.
RECURSIVE Resume(_, _, _)
Resume(history, node, ret) ==
  IF history = << >> \/ ret.independent THEN ret
  ELSE LET key == Append(node, history[1])
           found == key \in DOMAIN table
       IN  IF Len(key) = Order \/ ~found
             THEN [ret EXCEPT !.independent = TRUE,
                              !.prob = IF found THEN table[key].prob ELSE @,
                              !.rest = IF found THEN table[key].prob ELSE @,
                              !.length = IF found THEN Order ELSE @]
           ELSE Resume(Tail(history), key,
                       [prob |-> table[key].prob, rest |-> table[key].rest, length |-> Len(key),
                        independent |-> ~table[key].left, pointer |-> key,
                        backoffs |-> Append(ret.backoffs, table[key].backoff),
                        use |-> Use(ret.use, key)])

ScoreExceptBackoff(history, word) ==
  LET ret == Resume(history, <<word>>,
               [Start(<<word>>) EXCEPT !.backoffs = <<table[<<word>>].backoff>>, !.use = Use(0, <<word>>)])
  IN  [ret |-> ret,
       state |-> [words |-> SubSeq(<<word>> \o history, 1, ret.use),
                  backoff |-> SubSeq(ret.backoffs, 1, ret.use)]]

\* The n-gram found pays for its own length, the backoffs for the rest.
FullScore(in, word) ==
  LET got == ScoreExceptBackoff(in.words, word)
  IN  [got EXCEPT !.ret.prob = @ + SumFrom(in.backoff, got.ret.length)]

\* No n-gram has more context than this.
Usable(words) == SubSeq(words, 1, Min({Order - 1, Len(words)}))

\* The lengths of context that are charged: those found without a gap.
Charged(history, start) ==
  {k \in start..Len(history) : \A j \in start..k : SubSeq(history, 1, j) \in DOMAIN table}

FullScoreForgotState(words, word) ==
  LET history == Usable(words)
      got == ScoreExceptBackoff(history, word)
      charge == Charged(history, got.ret.length)
  IN  [got EXCEPT !.ret.prob =
         @ + SumFunction([k \in charge |-> table[SubSeq(history, 1, k)].backoff])]

GetState(words) ==
  LET history == Usable(words)
      found == Charged(history, 1)
      length == Max({0} \cup {k \in found : table[SubSeq(history, 1, k)].extends})
  IN  [words |-> SubSeq(history, 1, length),
       backoff |-> [k \in 1..length |-> table[SubSeq(history, 1, k)].backoff]]

\* The difference to the rest cost that was charged for pointer, when the
\* words add with the backoffs in turn up to the left of it.
ExtendLeft(add, in, pointer) ==
  LET ret == Resume(add, pointer, [Start(pointer) EXCEPT !.independent = Len(pointer) = 1 /\ @])
      owed == SumFrom(SubSeq(in, 1, Len(add)), ret.length - Len(pointer) + 1)
      rest == table[pointer].rest
  IN  [prob |-> ret.prob + owed - rest, rest |-> ret.rest - rest,
       independent |-> ret.independent, pointer |-> ret.pointer,
       backoffs |-> ret.backoffs, use |-> ret.use - Len(pointer)]

\* From rest costs to probabilities.
UnRest(pointers) == SumFunction([i \in DOMAIN pointers |-> table[pointers[i]].prob - table[pointers[i]].rest])

(***************************************************************************)
(* lm/left.hh and lm/partial.hh: scores of fragments of a sentence, put    *)
(* together in any order.  The left side of a fragment has a pointer for   *)
(* every first word that more words to the left may change, and is full    *)
(* when no more pointers can follow; the right side is a state.            *)
(***************************************************************************)

\* A RuleScore: what it writes, whether the left side is done, the score.
Fresh == [pointers |-> << >>, right |-> NullContext, done |-> FALSE, prob |-> 0]

Begin(rule) == [rule EXCEPT !.right = BeginSentence, !.done = TRUE]

\* ProcessRet: the score of a word counts, or its rest cost and a pointer.
ProcessRet(rule, ret) ==
  IF rule.done \/ ret.independent THEN [rule EXCEPT !.prob = @ + ret.prob, !.done = TRUE]
  ELSE [rule EXCEPT !.pointers = Append(@, ret.pointer), !.prob = @ + ret.rest]

\* Mutant: the left side goes on although the state forgot a word.
TerminalKeepsLeft(rule, word) ==
  LET got == FullScore(rule.right, word)
  IN  [ProcessRet(rule, got.ret) EXCEPT !.right = got.state]

Terminal(rule, word) ==
  LET got == FullScore(rule.right, word)
      scored == ProcessRet(rule, got.ret)
  IN  [scored EXCEPT !.right = got.state,
                     !.done = @ \/ Len(got.state.words) # Len(rule.right.words) + 1]

BeginNonTerminal(in, prob) ==
  [pointers |-> in.pointers, right |-> in.right, done |-> in.full, prob |-> prob]

\* Mutant: all words of the second are kept, whether n-grams can use them or not.
ShiftedKeepsAll(first, second, back, use) ==
  [words |-> first.words \o second.words,
   backoff |-> first.backoff \o SubSeq(second.backoff, 1, Len(second.words))]

\* Right after right: the words of the first, then use words of the second.
Shifted(first, second, back, use) ==
  [words |-> first.words \o SubSeq(second.words, 1, use),
   backoff |-> first.backoff \o SubSeq(back, 1, use)]

\* ExtendLeft for the pointers of in from the i-th on, with use words of the
\* rule's right side and their backoffs in back.
RECURSIVE Extend(_, _, _, _, _)
Extend(rule, in, i, use, back) ==
  IF i > Len(in.pointers) THEN
    IF in.full THEN [rule EXCEPT !.prob = @ + SumFrom(SubSeq(back, 1, use), 1), !.done = TRUE, !.right = in.right]
    ELSE IF Len(in.right.words) < Len(in.pointers) THEN [rule EXCEPT !.right = in.right]
    ELSE [rule EXCEPT !.right = Shifted(in.right, @, back, use)]
  ELSE LET ret == ExtendLeft(SubSeq(rule.right.words, 1, use), back, in.pointers[i])
           scored == ProcessRet(rule, ret)
           next == [scored EXCEPT !.done = @ \/ ret.use # Len(rule.right.words)]
       IN  IF ret.use = 0 /\ Len(rule.right.words) > 0
             THEN [next EXCEPT !.right = in.right,
                               !.prob = @ + UnRest(SubSeq(in.pointers, i + 1, Len(in.pointers)))]
             ELSE Extend(next, in, i + 1, ret.use, ret.backoffs)

NonTerminal(scorer, in, prob) ==
  LET rule == [scorer EXCEPT !.prob = @ + prob]
  IN  IF in.pointers = << >> THEN
        IF in.full THEN [rule EXCEPT !.prob = @ + SumFrom(rule.right.backoff, 1), !.done = TRUE, !.right = in.right]
        ELSE rule
      ELSE IF rule.right.words = << >> THEN
        IF rule.done THEN [rule EXCEPT !.right = in.right, !.prob = @ + UnRest(in.pointers)]
        ELSE IF rule.pointers # << >> THEN [rule EXCEPT !.right = in.right, !.done = TRUE]
        ELSE [rule EXCEPT !.right = in.right, !.pointers = in.pointers, !.done = in.full]
      ELSE Extend(rule, in, 1, Len(rule.right.words), rule.right.backoff)

\* A (N-1)-gram may extend left and right, but its left side is full.
Finish(rule) ==
  [pointers |-> rule.pointers, right |-> rule.right,
   full |-> rule.done \/ Len(rule.pointers) = Order - 1]

(***************************************************************************)
(* partial.hh: words of a neighbour become known a few at a time.          *)
(***************************************************************************)

\* ExtendLoop: the pointers learn of the words add.  While writing, what still
\* depends on the left is pointed to by the new left side.
RECURSIVE ExtendLoop(_, _, _, _)
ExtendLoop(add, pointers, writing, value) ==
  IF pointers = << >> THEN value
  ELSE IF ~writing /\ value.use = 0 THEN [value EXCEPT !.adjust = @ + UnRest(pointers)]
  ELSE LET ret == ExtendLeft(SubSeq(add, 1, value.use), value.back, pointers[1])
           keeps == writing /\ ~ret.independent
           goOn == keeps /\ ret.use = Len(add)
       IN  ExtendLoop(add, Tail(pointers), goOn,
             [adjust |-> value.adjust + (IF keeps THEN ret.rest ELSE ret.prob),
              full |-> value.full \/ (writing /\ ~goOn), use |-> ret.use, back |-> ret.backoffs,
              written |-> IF keeps THEN Append(value.written, ret.pointer) ELSE value.written])

Loop(right, pointers, writing) ==
  ExtendLoop(right.words, pointers, writing,
    [adjust |-> 0, full |-> FALSE, use |-> Len(right.words), back |-> right.backoff, written |-> << >>])

From(sequence, seen) == SubSeq(sequence, seen + 1, Len(sequence))
FromRight(right, seen) == [words |-> From(right.words, seen), backoff |-> From(right.backoff, seen)]

\* What is left of the backoffs is charged when nothing to the right can use them.
Charge(value, full) == value.adjust + (IF full THEN SumFrom(SubSeq(value.back, 1, value.use), 1) ELSE 0)

\* The words of reveal from seen on turn up to the left of state.
Preceded(state, more, revealFull, value) ==
  LET right == IF state.full THEN state.right ELSE Shifted(state.right, more, value.back, value.use)
  IN  [adjust |-> Charge(value, state.full),
       state |-> [pointers |-> value.written, right |-> right,
                  full |-> \/ state.full \/ value.full \/ revealFull
                           \/ Len(value.written) = Order - 1 \/ Len(right.words) = Order - 1]]
RevealBefore(reveal, seen, revealFull, state) ==
  LET more == FromRight(reveal, seen)
  IN  Preceded(state, more, revealFull, Loop(more, state.pointers, ~revealFull))

\* The pointers of reveal from seen on turn up to the right of state.
Followed(state, reveal, value) ==
  LET use == IF reveal.full THEN 0 ELSE value.use
      pointers == state.pointers \o value.written
  IN  [adjust |-> Charge(value, reveal.full),
       state |-> [pointers |-> pointers,
                  right |-> [words |-> SubSeq(state.right.words, 1, use), backoff |-> SubSeq(value.back, 1, use)],
                  full |-> \/ state.full \/ value.full \/ reveal.full
                           \/ use = Order - 1 \/ Len(pointers) = Order - 1]]
RevealAfter(state, reveal, seen) ==
  Followed(state, reveal, Loop(state.right, From(reveal.pointers, seen), ~state.full))

\* All of a short fragment is known, and what is before it meets what is after.
Merged(first, second, value) ==
  LET right == IF second.full THEN second.right ELSE Shifted(second.right, first.right, value.back, value.use)
      pointers == first.pointers \o value.written
  IN  [adjust |-> Charge(value, second.full),
       state |-> [pointers |-> pointers, right |-> right,
                  full |-> \/ first.full \/ value.full \/ second.full
                           \/ ~second.full /\ Len(right.words) = Order - 1
                           \/ Len(pointers) = Order - 1]]
Subsume(first, second) == Merged(first, second, Loop(first.right, second.pointers, ~first.full))

(***************************************************************************)
(* A program that loads a model and scores fragments.                      *)
(***************************************************************************)
EOS == 2
NoEdge == [between |-> << >>, nts |-> << >>, prob |-> 0, words |-> << >>]
\* held are the fragments a rule leaves to FastScore, with the words before.
NewRule == [words |-> << >>, rule |-> Fresh, held |-> << >>]

Init == LoadInit /\ NoFiles /\ stack = << >> /\ edge = NoEdge

Load == ((LoadNext /\ UNCHANGED trieVars) \/ TrieNext) /\ UNCHANGED <<stack, edge>>

Scoring == loading = "loaded" /\ edge = NoEdge
Top == stack[Len(stack)]
SetTop(item) == stack' = [stack EXCEPT ![Len(stack)] = item]
Said == FoldSeq(LAMBDA item, n : n + Len(item.words), 0, stack)

OpenRule ==
  /\ Scoring /\ Len(stack) < MaxDepth
  /\ stack' = Append(stack, NewRule)
  /\ UNCHANGED <<modelVars, edge>>

\* <s> is only the first word of a sentence, </s> the last.
SayBegin ==
  /\ Scoring /\ stack # << >> /\ Said = 0 /\ Top.held = << >>
  /\ SetTop([Top EXCEPT !.words = <<BOS>>, !.rule = Begin(@)])
  /\ UNCHANGED <<modelVars, edge>>

Words == {k[1] : k \in {j \in DOMAIN table : Len(j) = 1}}
SayWord ==
  /\ Scoring /\ stack # << >> /\ Said < MaxWords
  /\ \A i \in DOMAIN stack : EOS \notin Range(stack[i].words)
  /\ \E w \in Words \ {BOS} :
       SetTop([Top EXCEPT !.words = Append(@, w), !.rule = Terminal(@, w)])
  /\ UNCHANGED <<modelVars, edge>>

\* The fragment goes into the rule around it.
CloseRule ==
  /\ Scoring /\ Len(stack) > 1
  /\ LET outer == stack[Len(stack) - 1]
         in == Finish(Top.rule)
         said == [outer EXCEPT !.words = @ \o Top.words]
         rest == SubSeq(stack, 1, Len(stack) - 2)
     IN  \/ stack' = Append(rest, [said EXCEPT !.rule = NonTerminal(@, in, Top.rule.prob)])
         \/ /\ outer = NewRule
            /\ stack' = Append(rest, [said EXCEPT !.rule = BeginNonTerminal(in, Top.rule.prob)])
  /\ UNCHANGED <<modelVars, edge>>

\* ScoreRule leaves a non-terminal out and starts another state after it.
HoldRule ==
  /\ Scoring /\ Len(stack) = 2 /\ Len(stack[1].held) < MaxHeld
  /\ LET outer == stack[1]
     IN  stack' = <<[words |-> outer.words \o Top.words,
                     rule |-> [Fresh EXCEPT !.prob = outer.rule.prob + Top.rule.prob],
                     held |-> Append(outer.held, [before |-> Finish(outer.rule), nt |-> Finish(Top.rule)])]>>
  /\ UNCHANGED <<modelVars, edge>>

\* What a vertex shows of a fragment: lengths, and whether the sides end there.
Hidden == [left |-> 0, leftFull |-> FALSE, right |-> 0, rightFull |-> FALSE]
ShownOf(nt) == [left |-> Len(nt.pointers), leftFull |-> nt.full,
                right |-> Len(nt.right.words), rightFull |-> nt.full]

StartEdge ==
  /\ Scoring /\ Len(stack) = 1 /\ Top.held # << >>
  /\ edge' = [between |-> Append([i \in DOMAIN Top.held |-> Top.held[i].before], Finish(Top.rule)),
              nts |-> [i \in DOMAIN Top.held |-> [state |-> Top.held[i].nt, shown |-> Hidden]],
              prob |-> Top.rule.prob, words |-> Top.words]
  /\ stack' = << >>
  /\ UNCHANGED modelVars

\* All that may be shown next, the left and the right side a little or more.
More(nt) ==
  LET all == ShownOf(nt.state)
  IN  {s \in [left : nt.shown.left..all.left, leftFull : BOOLEAN,
              right : nt.shown.right..all.right, rightFull : BOOLEAN] :
         /\ s.leftFull => all.leftFull /\ s.left = all.left
         /\ s.rightFull => all.rightFull /\ s.right = all.right
         /\ nt.shown.leftFull => s.leftFull
         /\ nt.shown.rightFull => s.rightFull}

\* FastScore: what is newly shown of the i-th fragment meets its neighbours.
Same(state) == [adjust |-> 0, state |-> state]
RevealLeft(old, shown, state, side) ==
  IF shown.left = old.left /\ shown.leftFull = old.leftFull THEN Same(side)
  ELSE RevealAfter(side, [pointers |-> SubSeq(state.pointers, 1, shown.left), full |-> shown.leftFull], old.left)
RevealRight(old, shown, state, side) ==
  IF shown.right = old.right /\ shown.rightFull = old.rightFull THEN Same(side)
  ELSE RevealBefore([words |-> SubSeq(state.right.words, 1, shown.right),
                     backoff |-> SubSeq(state.right.backoff, 1, shown.right)],
                    old.right, shown.rightFull, side)

\* When all of the fragment is shown its neighbours become one.
JoinAround(shown, after, before) ==
  IF shown.leftFull THEN Same([after EXCEPT !.full = TRUE, !.right = before.right])
  ELSE Subsume(after, before)

Keep(i, shown, after, before) ==
  [edge EXCEPT !.prob = @ + after.adjust + before.adjust,
               !.between[i] = after.state, !.between[i + 1] = before.state,
               !.nts[i].shown = shown]
Close(i, adjust, joined) ==
  [edge EXCEPT !.prob = @ + adjust + joined.adjust,
               !.between = [RemoveAt(@, i + 1) EXCEPT ![i] = joined.state],
               !.nts = RemoveAt(@, i)]
FastScore(shown, complete, i, after, before) ==
  IF complete THEN Close(i, after.adjust + before.adjust, JoinAround(shown, after.state, before.state))
  ELSE Keep(i, shown, after, before)

\* The alternative of one hypothesis that is left shows all of it.
Steps(nt) ==
  {<<shown, FALSE>> : shown \in More(nt) \ {nt.shown}} \cup {<<ShownOf(nt.state), TRUE>>}
ShowMore ==
  /\ \E i \in DOMAIN edge.nts : \E step \in Steps(edge.nts[i]) :
       LET nt == edge.nts[i]
       IN  edge' = FastScore(step[1], step[2], i,
                             RevealLeft(nt.shown, step[1], nt.state, edge.between[i]),
                             RevealRight(nt.shown, step[1], nt.state, edge.between[i + 1]))
  /\ UNCHANGED <<modelVars, stack>>

Next == Load \/ OpenRule \/ SayBegin \/ SayWord \/ CloseRule \/ HoldRule \/ StartEdge \/ ShowMore

Spec == Init /\ [][Next]_vars

(***************************************************************************)
(* What the file says.                                                     *)
(***************************************************************************)
InFile(key) == \E i \in DOMAIN file.grams : file.grams[i].key = key
Gram(key) == file.grams[CHOOSE i \in DOMAIN file.grams : file.grams[i].key = key]

\* A word after a history: the longest n-gram, and a backoff for each that is not there.
RECURSIVE Probability(_, _)
Probability(word, history) ==
  LET key == <<word>> \o history
  IN  IF InFile(key) THEN Gram(key).prob
      ELSE IF history = << >> THEN UnknownProb
      ELSE Probability(word, Front(history)) + (IF InFile(history) THEN Gram(history).backoff ELSE 0)

Before(words, i) == Reverse(SubSeq(words, Max({1, i - Order + 1}), i - 1))
Scored(words) == {i \in DOMAIN words : words[i] # BOS}
Reference(words) == SumFunction([i \in Scored(words) |-> Probability(words[i], Before(words, i))])

\* A score counts the probability of each word after all the words before it
\* in the fragment, with rest costs for the pointers of the left side.
Agrees(prob, pointers, words) ==
  /\ prob + UnRest(pointers) = Reference(words)
  /\ \A i \in DOMAIN pointers : pointers[i] = Reverse(SubSeq(words, 1, i))

Done == edge # NoEdge /\ edge.nts = << >>

\* However a fragment was put together, it costs what the file says.
ScoresAgree ==
  /\ \A i \in DOMAIN stack : stack[i].held = << >> => Agrees(stack[i].rule.prob, stack[i].rule.pointers, stack[i].words)
  /\ Done => Agrees(edge.prob, edge.between[1].pointers, edge.words)

\* The state of a fragment as left_test.cc has it: word by word.
Flat(words) ==
  FoldLeft(LAMBDA rule, w : IF w = BOS THEN Begin(rule) ELSE Terminal(rule, w), Fresh, words)

\* And what may come on both sides depends on the words alone.
StatesAgree ==
  /\ \A i \in DOMAIN stack : stack[i].held = << >> => Finish(stack[i].rule) = Finish(Flat(stack[i].words))
  /\ Done => edge.between[1] = Finish(Flat(edge.words))

\* Every history a query may come with: contexts of the file, longer and others.
Histories == UNION {{Tail(g), Append(Tail(g), 0), Append(Tail(g), EOS)} : g \in {file.grams[i].key : i \in DOMAIN file.grams}}

\* A state holds all that matters of the words before: the score is the one of
\* the file, with a state or without (FullScoreForgotState), and the next state
\* is what GetState finds for the words (model_test.cc, Stateless).
StateSuffices ==
  loading = "loaded" /\ stack = << >> /\ edge = NoEdge =>
    \A h \in Histories : \A w \in Words :
      LET got == FullScore(GetState(h), w)
          forgot == FullScoreForgotState(h, w)
      IN  /\ got.ret.prob = Probability(w, SubSeq(h, 1, Min({Len(h), Order - 1})))
          /\ forgot.ret.prob = got.ret.prob
          /\ forgot.state = got.state
          /\ got.state = GetState(<<w>> \o h)

Extensions(key) == {k \in DOMAIN table : Len(k) >= Len(key) /\ SubSeq(k, 1, Len(key)) = key}

\* "Maximum of any score to the left" (config.hh, REST_MAX).  In a file without <unk>,
\* <unk> has no probability yet when the rest costs of the words are set, and the last
\* word is left out; theirs stay 0.
LeftAtZero ==
  IF file.known THEN {}
  ELSE {<<0>>, Last(SelectSeq(file.grams, LAMBDA g : Len(g.key) = 1)).key}
RestIsMax ==
  loading = "loaded" /\ file.rest = "max" =>
    \A key \in DOMAIN table :
      table[key].rest = IF key \in LeftAtZero THEN 0
                        ELSE Max({table[k].prob : k \in Extensions(key)})
=============================================================================
