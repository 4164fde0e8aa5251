------------------------------ MODULE PairSearch ------------------------------
(***************************************************************************)
(* What the search over pairs promises the stacks: it delivers pairs of an *)
(* antecedent and a target phrase, none twice, until the pop limit is      *)
(* reached or there is none left.                                          *)
(***************************************************************************)
EXTENDS Integers

CONSTANTS PopLimit

VARIABLES
  pairs,    \* the pairs of the edges that were added
  popped,   \* the pairs delivered
  toPop     \* how many more may be

vars == <<pairs, popped, toPop>>

Init == popped = {} /\ toPop = PopLimit

Deliver ==
  /\ toPop > 0
  /\ \E p \in pairs \ popped : popped' = popped \cup {p}
  /\ toPop' = toPop - 1
  /\ UNCHANGED pairs

Spec == Init /\ [][Deliver]_vars
==============================================================================
