----------------------------- MODULE TrieSearch ----------------------------
(***************************************************************************)
(* lm::ngram::trie::TrieSearch: the n-grams of an ARPA file are sorted on  *)
(* disk, read once to find the blanks, which learn their backoffs by       *)
(* messages, and once more to write arrays, one for each length, whose     *)
(* entries point to where their extensions begin in the next.              *)
(***************************************************************************)
EXTENDS HashedSearch

VARIABLES sorted,      \* sorted[k]: the file of the n-grams of length k, sorted
          contexts,    \* contexts[k]: their contexts of length k - 1, sorted
          reader,      \* reader[k]: the place in sorted[k]; reader[1] is a word
          contextAt,   \* contextAt[k]: the place in contexts[k]
          been,        \* BlankManager: the n-gram visited last,
          basis,       \* and basis[k], the probability of its k last words
          values,      \* values[k]: the probabilities of the blanks of length k
          messages,    \* messages[k]: [to, array, index] for contexts of length k
          arrays       \* arrays[k]: [word, prob, backoff, extends, next]

fileVars == <<sorted, contexts, reader, contextAt>>
blankVars == <<been, basis, values, messages>>
trieVars == <<fileVars, blankVars, arrays>>

Middles == 2..(Order - 1)

(* SortedFiles: batches that fit into memory are sorted and merged.        *)
\* EntryCompare, and Gram::operator< for keys of different lengths.
KeyLess(a, b) ==
  \/ IsStrictPrefix(a, b)
  \/ \E i \in DOMAIN a \cap DOMAIN b : a[i] < b[i] /\ SubSeq(a, 1, i - 1) = SubSeq(b, 1, i - 1)
Sorted(records) == SortSeq(records, LAMBDA a, b : KeyLess(a.key, b.key))

\* MergeSortedFiles; contexts that are in both are written once.
RECURSIVE MergeSortedFiles(_, _)
MergeSortedFiles(first, second) ==
  IF first = << >> \/ second = << >> THEN first \o second
  ELSE IF KeyLess(first[1].key, second[1].key) THEN <<first[1]>> \o MergeSortedFiles(Tail(first), second)
  ELSE IF KeyLess(second[1].key, first[1].key) THEN <<second[1]>> \o MergeSortedFiles(first, Tail(second))
  ELSE <<first[1]>> \o MergeSortedFiles(Tail(first), Tail(second))

\* Two files from the front of the queue become one at its end.
RECURSIVE MergeAll(_)
MergeAll(files) ==
  IF Len(files) <= 1 THEN FlattenSeq(files)
  ELSE MergeAll(Append(SubSeq(files, 3, Len(files)), MergeSortedFiles(files[1], files[2])))

Batches(records) ==
  [b \in 1..((Len(records) + file.batch - 1) \div file.batch) |->
     SubSeq(records, (b - 1) * file.batch + 1, Min({b * file.batch, Len(records)}))]

WriteContextFile(batch) ==
  LET all == Sorted([i \in DOMAIN batch |-> [key |-> Tail(batch[i].key)]])
  IN  FoldLeft(LAMBDA out, c : IF out # << >> /\ Last(out) = c THEN out ELSE Append(out, c), << >>, all)

NoFiles ==
  /\ sorted = << >> /\ contexts = << >> /\ reader = << >> /\ contextAt = << >>
  /\ been = << >> /\ basis = << >> /\ values = << >> /\ messages = << >> /\ arrays = << >>

OfLength(n) ==
  LET grams == SelectSeq(file.grams, LAMBDA g : Len(g.key) = n)
  IN  [i \in DOMAIN grams |-> [key |-> grams[i].key] @@ Entry(grams[i].prob, grams[i].backoff, FALSE)]

\* Unigrams are stored by their number; <unk> may be missing, and is zero then.
Unigrams ==
  LET grams == OfLength(1)
      number == Max({g.key[1] : g \in Range(grams)})
  IN  [i \in 1..(number + 1) |->
         LET found == SelectSeq(grams, LAMBDA g : g.key = <<i - 1>>)
         IN  IF found = << >> THEN [key |-> <<i - 1>>] @@ [Entry(0, 0, FALSE) EXCEPT !.extends = TRUE] ELSE found[1]]

\* Infinity, as no logarithm of a probability is.
BadProb == 1
BeginVisits ==
  /\ reader' = [k \in 1..Order |-> 1]
  /\ been' = << >>
  /\ basis' = [k \in 1..Order |-> BadProb]

SortFiles ==
  /\ loading = "reading" /\ file.search = "trie"
  /\ sorted' = [k \in 1..Order |->
                IF k = 1 THEN Unigrams
                ELSE LET batches == Batches(OfLength(k)) IN MergeAll([b \in DOMAIN batches |-> Sorted(batches[b])])]
  /\ contexts' = [k \in 1..Order |->
                IF k = 1 THEN << >>
                ELSE LET batches == Batches(OfLength(k))
                     IN  MergeAll([b \in DOMAIN batches |-> WriteContextFile(batches[b])])]
  /\ contextAt' = [k \in 1..Order |-> 1]
  /\ values' = [k \in 1..Order |-> << >>]
  /\ messages' = [k \in 1..Order |-> {}]
  /\ BeginVisits
  /\ loading' = "finding"
  /\ unread' = << >>
  /\ UNCHANGED <<file, table, arrays>>

(* RecursiveInsert: the files and the words are read in order together.    *)
Left == {k \in 1..Order : reader[k] <= Len(sorted[k])}
TopLength == CHOOSE k \in Left : \A j \in Left \ {k} : KeyLess(sorted[k][reader[k]].key, sorted[j][reader[j]].key)
Top1 == sorted[TopLength][reader[TopLength]]

\* BlankManager::Visit: the last words of the n-gram that have been visited.
Overlap(key) ==
  Max({n \in 0..Min({Len(key) - 1, Len(been)}) : SubSeq(been, 1, n) = SubSeq(key, 1, n)})
BlankLengths(key) == (Overlap(key) + 1)..(Len(key) - 1)
BasedOn(key) == Max({n \in 1..Overlap(key) : basis[n] # BadProb})

Visit(key, prob) ==
  /\ been' = key
  /\ basis' = [k \in DOMAIN basis |-> IF k = Len(key) THEN prob ELSE IF k \in BlankLengths(key) THEN BadProb ELSE basis[k]]
  /\ reader' = [reader EXCEPT ![Len(key)] = @ + 1]

\* FindBlanks: a blank waits for the backoffs of its contexts from lower on.
Send(key, k) ==
  {[to |-> ContextOf(key, i + 1), length |-> i, array |-> k, index |-> Len(values[k]) + 1] : i \in BasedOn(key)..(k - 1)}

FindBlanks ==
  /\ loading = "finding" /\ Left # {}
  /\ LET key == Top1.key
     IN  /\ Visit(key, Top1.prob)
         /\ values' = [k \in DOMAIN values |->
                         IF k \in BlankLengths(key) THEN Append(values[k], basis[BasedOn(key)]) ELSE values[k]]
         /\ messages' = [i \in DOMAIN messages |->
                           messages[i] \cup {m \in UNION {Send(key, k) : k \in BlankLengths(key)} : m.length = i}]
  /\ UNCHANGED <<file, unread, table, loading, sorted, contexts, contextAt, arrays>>

(* SRISucks::ObtainBackoffs: the messages meet the files.                  *)
Records(k) == {sorted[k][i].key : i \in DOMAIN sorted[k]}

\* A message without a record is kept for the blank that extends, as long as
\* the file has not been read to its end.
Extending(k) ==
  {m.to : m \in {n \in messages[k] : n.to \notin Records(k) /\ \E r \in Records(k) : KeyLess(n.to, r)}}

ObtainBackoffs ==
  /\ loading = "finding" /\ Left = {}
  /\ LET received(k, i) ==
           {m \in UNION {messages[j] : j \in 1..(Order - 1)} : m.array = k /\ m.index = i /\ m.to \in Records(m.length)}
         backoff(m) == (CHOOSE r \in Range(sorted[m.length]) : r.key = m.to).backoff
     IN  values' = [k \in DOMAIN values |-> [i \in DOMAIN values[k] |->
                      values[k][i] + SumFunction([m \in received(k, i) |-> backoff(m)])]]
  /\ sorted' = [k \in DOMAIN sorted |-> [i \in DOMAIN sorted[k] |->
                IF \E m \in messages[k] : m.to = sorted[k][i].key THEN [sorted[k][i] EXCEPT !.extends = TRUE] ELSE sorted[k][i]]]
  /\ messages' = [k \in DOMAIN messages |-> IF k = 1 THEN {} ELSE Extending(k)]
  \* PopulateUnigramWeights comes after this, and reads contexts in step.
  /\ arrays' = [k \in DOMAIN sorted |-> << >>]
  /\ BeginVisits
  /\ loading' = "writing"
  /\ UNCHANGED <<file, unread, table, contexts, contextAt>>

(* WriteEntries.                                                           *)
\* Is the n-gram the context that is read next?
IsContext(key) ==
  LET k == Len(key) + 1
  IN  k <= Order /\ contextAt[k] <= Len(contexts[k]) /\ contexts[k][contextAt[k]].key = key

\* GetBlank takes the values of a length in the order they were sent.
GetBlank(key) ==
  LET k == Len(key)
  IN  [Entry(values[k][1], 0, FALSE) EXCEPT !.extends = k # Order - 1 /\ key \in messages[k]]

RECURSIVE Inserted(_, _, _)
Inserted(to, key, lengths) ==
  IF lengths = {} THEN to
  ELSE LET k == Min(lengths)
       IN  Inserted([to EXCEPT ![k] = Append(@,
                       [word |-> key[k], next |-> Len(to[k + 1]), entry |-> GetBlank(Suffix(key, k))])],
                    key, lengths \ {k})

WriteEntry ==
  /\ loading = "writing" /\ Left # {}
  /\ LET gram == Top1
         key == gram.key
         n == Len(key)
         blanks == BlankLengths(key)
         withBlanks == Inserted(arrays, key, blanks)
         entry == [prob |-> gram.prob, backoff |-> gram.backoff,
                   extends |-> n < Order /\ (gram.extends \/ IsContext(key)), left |-> FALSE, rest |-> gram.prob]
     IN  /\ Visit(key, gram.prob)
         /\ arrays' = [withBlanks EXCEPT ![n] = Append(@,
                         [word |-> key[n], next |-> IF n < Order THEN Len(withBlanks[n + 1]) ELSE 0, entry |-> entry])]
         /\ values' = [k \in DOMAIN values |-> IF k \in blanks THEN Tail(values[k]) ELSE values[k]]
         /\ contextAt' = [k \in DOMAIN contextAt |-> IF k = n + 1 /\ IsContext(key) THEN contextAt[k] + 1 ELSE contextAt[k]]
  /\ UNCHANGED <<file, unread, table, loading, sorted, contexts, messages>>

(* Reading the trie: a node is a range of the next array.                  *)
NextOf(k, i) == IF i < Len(arrays[k]) THEN arrays[k][i + 1].next ELSE Len(arrays[k + 1])
Node(k, i) == IF k = Order THEN {} ELSE (arrays[k][i].next + 1)..NextOf(k, i)

\* All the keys that can be found, with their place in their array.
RECURSIVE Found(_)
Found(k) ==
  IF k = 1 THEN {[key |-> <<arrays[1][i].word>>, at |-> i] : i \in DOMAIN arrays[1]}
  ELSE UNION {{[key |-> Append(f.key, arrays[k][i].word), at |-> i] : i \in Node(k - 1, f.at)} : f \in Found(k - 1)}

TrieTable ==
  LET found == UNION {Found(k) : k \in 1..Order}
      at(key) == (CHOOSE f \in found : f.key = key).at
  IN  [key \in {f.key : f \in found} |->
         [arrays[Len(key)][at(key)].entry EXCEPT !.left = Node(Len(key), at(key)) # {}]]

\* "this context must appear in the model ... but it does not"
FinishTrie ==
  /\ loading = "writing" /\ Left = {}
  /\ IF \E k \in 2..Order : contextAt[k] <= Len(contexts[k])
       THEN loading' = "threw" /\ UNCHANGED table
       ELSE loading' = "built" /\ table' = TrieTable
  \* The files are gone; what the arrays hold is in the table.
  /\ sorted' = << >> /\ contexts' = << >> /\ reader' = << >> /\ contextAt' = << >>
  /\ been' = << >> /\ basis' = << >> /\ values' = << >> /\ messages' = << >> /\ arrays' = << >>
  /\ UNCHANGED <<file, unread>>

TrieNext == SortFiles \/ FindBlanks \/ ObtainBackoffs \/ WriteEntry \/ FinishTrie
=============================================================================
