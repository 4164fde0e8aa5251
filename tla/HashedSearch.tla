---------------------------- MODULE HashedSearch ---------------------------
(***************************************************************************)
(* lm::ngram::detail::HashedSearch: an ARPA file becomes hash tables, one  *)
(* entry for an n-gram.  A key holds the words of the n-gram from the last *)
(* to the first, as the hash is computed; keys do not collide here.  The   *)
(* sign of a probability says whether an n-gram extends another to the     *)
(* left, the sign of a zero backoff whether one has it as context.         *)
(***************************************************************************)
EXTENDS Integers, SequencesExt, FiniteSetsExt

CONSTANTS UnknownProb, \* Config::unknown_missing_logprob
          Models       \* the files and how to load them: order, known (has <unk>), grams,
                       \* search ("probing" or "trie"), rest ("none" or "max"), batch

\* Logarithms are integers; grams are in the order of the file, by length.
ModelAssumption ==
  \A m \in Models :
    /\ m.order \in Nat \ {0, 1}
    /\ m.search \in {"probing", "trie"}
    /\ m.rest \in {"none", "max"} /\ (m.search = "trie" => m.rest = "none")
    /\ m.batch \in Nat \ {0}  \* the n-grams a trie sorts at once
    /\ m.known = (\E i \in DOMAIN m.grams : m.grams[i].key = <<0>>)
    /\ \A i \in DOMAIN m.grams : LET g == m.grams[i] IN
         /\ Len(g.key) \in 1..m.order /\ g.prob \in Int /\ g.prob <= 0 /\ g.backoff \in Int
         /\ i > 1 => Len(m.grams[i - 1].key) <= Len(g.key)
         /\ \A j \in DOMAIN m.grams : m.grams[j].key = g.key => j = i
         /\ \A w \in Range(g.key) : \E j \in DOMAIN m.grams : m.grams[j].key = <<w>>
ASSUME ModelAssumption

VARIABLES file,        \* the model that is loaded
          unread,      \* its n-grams that are still to be read
          table,       \* the entries by their keys
          loading      \* "reading", "loaded" or "threw"; a trie is "finding", "writing", "built"

loadVars == <<file, unread, table, loading>>

Order == file.order

\* ReadBackoff makes every zero negative; a unigram keeps the sign of its
\* probability, and a zero has none.
Entry(prob, backoff, left) ==
  [prob |-> prob, backoff |-> backoff, extends |-> backoff # 0, left |-> left, rest |-> prob]

\* SetExtension, on every entry of keys.
SetExtension(t, keys) ==
  [k \in DOMAIN t |-> IF k \in keys THEN [t[k] EXCEPT !.extends = TRUE] ELSE t[k]]

Suffix(key, length) == SubSeq(key, 1, length)
\* The context that pays for the length-th word of a blank.
ContextOf(key, length) == SubSeq(key, 2, length)

\* Where FindLower stops.
Basis(t, key) == Max({k \in 1..(Len(key) - 1) : Suffix(key, k) \in DOMAIN t})

\* The contexts' backoffs, as far as they are there, on top of the basis.
BlankProb(t, key, basis, length) ==
  t[Suffix(key, basis)].prob +
    SumFunction([k \in {j \in (basis + 1)..length : ContextOf(key, j) \in DOMAIN t} |-> t[ContextOf(key, k)].backoff])

\* A loop in AdjustLower goes up: a blank may be context of a longer one.
Blanks(t, key) ==
  LET basis == Basis(t, key)
      new == {Suffix(key, k) : k \in (basis + 1)..(Len(key) - 1)}
      both == [k \in DOMAIN t \cup new |->
                 IF k \in DOMAIN t THEN t[k] ELSE Entry(BlankProb(t, key, basis, Len(k)), 0, FALSE)]
  IN  SetExtension(both, {ContextOf(key, Len(k)) : k \in new} \cap DOMAIN both)

\* Mutant: a larger probability is not handed on below the basis.
RECURSIVE MarkExtendsToBasis(_, _, _, _)
MarkExtendsToBasis(t, key, basis, length) ==
  LET lower == Suffix(key, length)
      larger == file.rest = "max" /\ t[lower].rest < t[Suffix(key, length + 1)].rest
      marked == [t EXCEPT ![lower] = [@ EXCEPT !.left = TRUE,
                   !.rest = IF larger THEN t[Suffix(key, length + 1)].rest ELSE @]]
  IN  IF length > basis THEN MarkExtendsToBasis(marked, key, basis, length - 1) ELSE marked

\* Every n-gram that ends the new one, down to the basis, extends left; with
\* REST_MAX the largest probability goes on down as long as it is larger.
RECURSIVE MarkExtends(_, _, _, _)
MarkExtends(t, key, basis, length) ==
  LET lower == Suffix(key, length)
      larger == file.rest = "max" /\ t[lower].rest < t[Suffix(key, length + 1)].rest
      marked == [t EXCEPT ![lower] = [@ EXCEPT !.left = TRUE,
                   !.rest = IF larger THEN t[Suffix(key, length + 1)].rest ELSE @]]
      goOn == length > basis \/ (file.rest = "max" /\ (length = basis \/ larger))
  IN  IF length > 1 /\ goOn THEN MarkExtends(marked, key, basis, length - 1) ELSE marked

LoadInit ==
  /\ file \in Models
  /\ unread = file.grams
  /\ table = IF file.known THEN << >> ELSE <<0>> :> [Entry(0, 0, TRUE) EXCEPT !.extends = TRUE]
  /\ loading = "reading"

\* ApplyBuild sets the rest costs of the words 0 to counts[0] - 1.  Without
\* <unk> in the file the last has number counts[0], and its rest cost stays 0.
RestIsUnset == file.rest = "max" /\ ~file.known /\ (Len(unread) = 1 \/ Len(unread[2].key) = 2)

Read1Gram ==
  /\ loading = "reading" /\ file.search = "probing" /\ unread # << >>
  /\ LET g == unread[1]
     IN  /\ Len(g.key) = 1
         /\ table' = g.key :> [Entry(g.prob, g.backoff, g.prob = 0)
                                 EXCEPT !.rest = IF RestIsUnset THEN 0 ELSE @] @@ table
  /\ unread' = Tail(unread)
  /\ UNCHANGED <<file, loading>>

\* Mutant: the context of an n-gram is not marked as extending.
ReadNGramWithoutActivate(g) ==
  LET n == Len(g.key)
      inserted == g.key :> Entry(g.prob, g.backoff, FALSE) @@ table
      basis == Basis(table, g.key)
      marked == MarkExtends(Blanks(inserted, g.key), g.key, basis, n - 1)
  IN  /\ table' = marked
      /\ UNCHANGED loading

\* Insert, FindLower, AdjustLower, MarkLower, activate.
ReadNGram(g) ==
  LET n == Len(g.key)
      inserted == g.key :> Entry(g.prob, g.backoff, FALSE) @@ table
      basis == Basis(table, g.key)
      marked == MarkExtends(Blanks(inserted, g.key), g.key, basis, n - 1)
  IN  IF ContextOf(g.key, n) \in DOMAIN marked
        THEN table' = SetExtension(marked, {ContextOf(g.key, n)}) /\ UNCHANGED loading
        ELSE loading' = "threw" /\ UNCHANGED table

ReadNext ==
  /\ loading = "reading" /\ file.search = "probing" /\ unread # << >> /\ Len(unread[1].key) > 1
  /\ ReadNGram(unread[1])
  /\ unread' = Tail(unread)
  /\ UNCHANGED file

\* A file without <unk> gets one, with a backoff that is a positive zero.
EndLoad ==
  /\ \/ loading = "reading" /\ unread = << >>
     \/ loading = "built"
  /\ table' = IF file.known THEN table
              ELSE [table EXCEPT ![<<0>>] = [@ EXCEPT !.prob = UnknownProb, !.left = FALSE,
                                               !.rest = IF file.rest = "max" THEN @ ELSE UnknownProb]]
  /\ loading' = "loaded"
  /\ UNCHANGED <<file, unread>>

LoadNext == Read1Gram \/ ReadNext \/ EndLoad

=============================================================================
