------------------------------ MODULE MCChain -------------------------------
(* The instances of Chain TLC checks. *)
EXTENDS Chain

\* Two runs over the same memory: the first file ends with a partial block,
\* the second is shorter and ends with a full one.
MCEntries == <<7, 4>>
MCKept(e) == e \notin {2, 3, 4}   \* the second block of a run loses all of its entries
=============================================================================
