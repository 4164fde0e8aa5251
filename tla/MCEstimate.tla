----------------------------- MODULE MCEstimate ----------------------------
(***************************************************************************)
(* Small corpora for Estimate.                                             *)
(***************************************************************************)
EXTENDS Estimate

Base == [order |-> 2, text |-> <<<<"a">>>>, prune |-> <<0, 0>>, only |-> {}, block |-> 2,
         buffer |-> 5, memory |-> 20, lazy |-> 0, interpolate |-> TRUE,
         fallback |-> <<Over(1, 2), Whole(1), Over(3, 2)>>]

Texts == {<<<<"a", "b", "a", "b", "b">>, <<"b", "a">>>>,
          <<<<"a", "a", "<s>", "b">>, << >>, <<"a", "b", "c", "a", "b">>>>,
          <<<<"a", "b", "c">>, <<"a", "b", "c">>>>,
          <<<<"a", "b", "c">>, <<"c", "b", "a">>, <<"a", "b", "b", "a">>>>}
\* All texts of a line of up to three words and one of up to one.
Letters == {"a", "b"}
Lines(n) == UNION {[1..i -> Letters] : i \in 0..n}
AllTexts == {<<l, m>> : l \in Lines(3), m \in Lines(1)}
Prunes(n) == IF n = 1 THEN {<<0>>, <<1>>} ELSE IF n = 2 THEN {<<0, 0>>, <<0, 1>>, <<1, 1>>}
             ELSE {<<0, 0, 0>>, <<0, 0, 1>>, <<0, 1, 2>>, <<1, 1, 1>>}
Memory == {<<1, 5, 20, 0>>, <<2, 6, 27, 11>>, <<3, 7, 31, 1>>, <<2, 7, 40, 24>>}

MCConfigs ==
  UNION {UNION {UNION {{[Base EXCEPT !.order = n, !.text = t, !.prune = p, !.only = o, !.block = m[1],
            !.buffer = m[2], !.memory = m[3], !.lazy = m[4], !.interpolate = (m[1] # 2)] :
              o \in {{}, {"a", "b"}}} : t \in Texts \cup AllTexts, m \in Memory} : p \in Prunes(n)} : n \in 1..3}
=============================================================================
