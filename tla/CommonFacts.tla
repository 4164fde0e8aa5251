---------------------------- MODULE CommonFacts ----------------------------
(***************************************************************************)
(* Facts about numbers, sequences and sums that several proofs rest on.    *)
(***************************************************************************)
EXTENDS Integers, Sequences, FiniteSets, Functions,
        FiniteSetTheorems, SequenceTheorems, WellFoundedInduction, TLAPS

---------------------------------------------------------------------------
\* Numbers.

\* A set of numbers that is not empty has a least one.
LEMMA SetMinimum ==
  ASSUME NEW S \in SUBSET Nat, S # {}
  PROVE  \E m \in S : \A n \in S : m <= n
<1>1. IsWellFoundedOn(OpToRel(<, Nat), Nat)
  BY NatLessThanWellFounded
<1>2. \E m \in S : \A n \in S : <<n, m>> \notin OpToRel(<, Nat)
  BY <1>1, WFMin
<1>3. ASSUME NEW m \in Nat, NEW n \in Nat, n < m PROVE <<n, m>> \in OpToRel(<, Nat)
  BY <1>3 DEF OpToRel
<1>4. PICK m \in S : \A n \in S : <<n, m>> \notin OpToRel(<, Nat)
  BY <1>2
<1>5. ASSUME NEW n \in S PROVE ~(n < m)
  BY <1>3, <1>4
<1> QED BY ONLY <1>5, S \in SUBSET Nat

LEMMA Times ==
  ASSUME NEW a \in Int, NEW b \in Int, NEW c \in Nat
  PROVE  /\ a * c \in Int /\ (a + 1) * c = a * c + c /\ (a - 1) * c = a * c - c
         /\ (a + b) * c = a * c + b * c
         /\ a <= b => a * c <= b * c
         /\ 0 <= a => 0 <= a * c
         /\ a < b => a * c + c <= b * c
<1>1. /\ a * c \in Int /\ (a + 1) * c = a * c + c /\ (a - 1) * c = a * c - c
      /\ (a + b) * c = a * c + b * c
  OBVIOUS
<1>2. \A d \in Nat : d * c >= 0
  OBVIOUS
<1>3. a <= b => a * c <= b * c
  <2>1. b * c = a * c + (b - a) * c
    OBVIOUS
  <2> QED  BY <2>1, <1>2
<1>4. a < b => a * c + c <= b * c
  <2>1. b * c = a * c + c + (b - a - 1) * c
    OBVIOUS
  <2> QED  BY <2>1, <1>2
<1> QED  BY <1>1, <1>2, <1>3, <1>4

LEMMA Modulo ==
  ASSUME NEW a \in Nat, NEW n \in Nat \ {0}
  PROVE  /\ a \div n \in Int /\ a % n \in 0 .. n - 1
         /\ a = n * (a \div n) + (a % n)
         /\ (a + n) % n = a % n
<1> DEFINE q == a \div n  r == a % n
<1>1. a \div n \in Int /\ a % n \in 0 .. n - 1 /\ a = n * (a \div n) + (a % n)
  OBVIOUS
<1>2. \A b \in Nat, c \in Int : \A d \in 0 .. n - 1 : b = n * c + d => b % n = d
  OBVIOUS
<1>3. a + n = n * (q + 1) + r /\ q + 1 \in Int /\ r \in 0 .. n - 1 /\ a + n \in Nat
  BY <1>1
<1>4. (a + n) % n = r
  <2> HIDE DEF q, r
  <2> QED  BY <1>2, <1>3
<1> QED  BY <1>1, <1>4

\* The turn of the k-th of those that n take over and over again.
Turn(k, n) == ((k - 1) % n) + 1

LEMMA TurnFacts ==
  ASSUME NEW n \in Nat \ {0}, NEW k \in Nat \ {0}
  PROVE  Turn(k, n) \in 1 .. n /\ Turn(k + n, n) = Turn(k, n)
<1>1. k - 1 \in Nat /\ k + n - 1 = k - 1 + n
  OBVIOUS
<1>2. (k - 1) % n \in 0 .. n - 1 /\ (k - 1 + n) % n = (k - 1) % n
  BY <1>1, Modulo
<1> QED  BY <1>1, <1>2 DEF Turn

LEMMA TurnsApart ==
  ASSUME NEW n \in Nat \ {0}, NEW k \in Nat \ {0}, NEW l \in Nat \ {0}, k < l, l < k + n
  PROVE  Turn(k, n) # Turn(l, n)
<1>1. k - 1 \in Nat /\ l - 1 \in Nat
  OBVIOUS
<1> DEFINE p == (k - 1) \div n  q == (l - 1) \div n
<1>2. /\ p \in Int /\ q \in Int /\ (k - 1) % n \in Int /\ (l - 1) % n \in Int
      /\ k - 1 = n * p + ((k - 1) % n) /\ l - 1 = n * q + ((l - 1) % n)
  BY <1>1, Modulo
<1>3. SUFFICES ASSUME (k - 1) % n = (l - 1) % n  PROVE FALSE
  BY <1>2 DEF Turn
<1>4. PICK r : r = (k - 1) % n /\ r = (l - 1) % n
  BY <1>3
<1> HIDE DEF p, q
<1>5. r \in Int /\ k - 1 = n * p + r /\ l - 1 = n * q + r
  BY <1>2, <1>4
<1>6. l - k = (q - p) * n
  BY <1>2, <1>5
<1>7. q - p <= 0 \/ 1 <= q - p
  BY <1>2
<1>8. (q - p <= 0 => (q - p) * n <= 0 * n) /\ (1 <= q - p => 1 * n <= (q - p) * n)
  BY <1>2, Times
<1> QED  BY <1>6, <1>7, <1>8

\* The next turn is the next one, but after the last.
LEMMA NextTurn ==
  ASSUME NEW n \in Nat \ {0}, NEW k \in Nat \ {0}, Turn(k, n) < n
  PROVE  Turn(k + 1, n) = Turn(k, n) + 1
<1>1. k - 1 \in Nat /\ (k + 1) - 1 = k /\ k \in Nat
  OBVIOUS
<1> DEFINE p == (k - 1) \div n  r == (k - 1) % n
<1>2. p \in Int /\ r \in 0 .. n - 1 /\ k - 1 = n * p + r
  BY <1>1, Modulo
<1>3. \A a \in Nat, c \in Int : \A d \in 0 .. n - 1 : a = n * c + d => a % n = d
  OBVIOUS
<1>4. r + 1 < n /\ Turn(k, n) = r + 1
  BY DEF Turn
<1> HIDE DEF p, r
<1>5. r + 1 \in 0 .. n - 1 /\ k = n * p + (r + 1)
  BY <1>2, <1>4
<1>6. k % n = r + 1
  BY <1>1, <1>2, <1>3, <1>5
<1>7. Turn(k + 1, n) = (k % n) + 1
  BY <1>1 DEF Turn
<1> QED  BY <1>4, <1>6, <1>7

---------------------------------------------------------------------------
\* Sequences.

LEMMA Parts ==
  ASSUME NEW S, NEW h \in Seq(S), NEW n \in 0 .. Len(h)
  PROVE  /\ SubSeq(h, 1, n) \in Seq(S) /\ Len(SubSeq(h, 1, n)) = n
         /\ \A p \in 1 .. n : SubSeq(h, 1, n)[p] = h[p]
         /\ SubSeq(h, n + 1, Len(h)) \in Seq(S) /\ Len(SubSeq(h, n + 1, Len(h))) = Len(h) - n
         /\ \A p \in 1 .. Len(h) - n : SubSeq(h, n + 1, Len(h))[p] = h[n + p]
<1>1. Len(h) \in Nat /\ \A i \in 1 .. Len(h) : h[i] \in S
  OBVIOUS
<1>2. /\ SubSeq(h, 1, n) \in Seq(S)
      /\ Len(SubSeq(h, 1, n)) = IF 1 <= n THEN n - 1 + 1 ELSE 0
      /\ \A i \in 1 .. n - 1 + 1 : SubSeq(h, 1, n)[i] = h[1 + i - 1]
  BY <1>1, SubSeqProperties
<1>3. /\ SubSeq(h, n + 1, Len(h)) \in Seq(S)
      /\ Len(SubSeq(h, n + 1, Len(h))) = IF n + 1 <= Len(h) THEN Len(h) - (n + 1) + 1 ELSE 0
      /\ \A i \in 1 .. Len(h) - (n + 1) + 1 : SubSeq(h, n + 1, Len(h))[i] = h[n + 1 + i - 1]
  BY <1>1, SubSeqProperties
<1>4. \A p \in 1 .. n : SubSeq(h, 1, n)[p] = h[p]
  BY <1>2
<1>5. \A p \in 1 .. Len(h) - n : SubSeq(h, n + 1, Len(h))[p] = h[n + p]
  <2> SUFFICES ASSUME NEW p \in 1 .. Len(h) - n  PROVE SubSeq(h, n + 1, Len(h))[p] = h[n + p]
    OBVIOUS
  <2>1. p \in 1 .. Len(h) - (n + 1) + 1 /\ n + 1 + p - 1 = n + p
    BY <1>1
  <2> QED  BY <2>1, <1>3
<1>6. Len(SubSeq(h, 1, n)) = n /\ Len(SubSeq(h, n + 1, Len(h))) = Len(h) - n
  BY <1>1, <1>2, <1>3
<1> QED  BY <1>2, <1>3, <1>4, <1>5, <1>6

LEMMA Joins ==
  ASSUME NEW S, NEW h \in Seq(S), NEW g \in Seq(S)
  PROVE  /\ h \o g \in Seq(S) /\ Len(h \o g) = Len(h) + Len(g)
         /\ \A p \in 1 .. Len(h) : (h \o g)[p] = h[p]
         /\ \A p \in 1 .. Len(g) : (h \o g)[Len(h) + p] = g[p]
OBVIOUS

LEMMA Ends ==
  ASSUME NEW S, NEW h \in Seq(S), NEW e \in S
  PROVE  /\ Append(h, e) \in Seq(S) /\ Len(Append(h, e)) = Len(h) + 1
         /\ \A p \in 1 .. Len(h) : Append(h, e)[p] = h[p]
         /\ Append(h, e)[Len(h) + 1] = e
         /\ h # << >> => /\ Head(h) \in S /\ Head(h) = h[1]
                         /\ Tail(h) \in Seq(S) /\ Len(Tail(h)) = Len(h) - 1 /\ Len(h) >= 1
                         /\ \A p \in 1 .. Len(h) - 1 : Tail(h)[p] = h[p + 1]
OBVIOUS

---------------------------------------------------------------------------
\* Sums: the fold of the community module over a finite set.

\* A is the sum of f over every subset of S.
Additive(A, f, S) ==
  /\ A \in [SUBSET S -> Int]
  /\ A[{}] = 0
  /\ \A T \in SUBSET S : \A x \in S \ T : A[T \cup {x}] = A[T] + f[x]

\* Removing an element of a finite set leaves one fewer.
LEMMA OneFewer ==
  ASSUME NEW S, IsFiniteSet(S), NEW x \in S
  PROVE  /\ IsFiniteSet(S \ {x}) /\ Cardinality(S \ {x}) \in Nat /\ Cardinality(S) \in Nat
         /\ Cardinality(S \ {x}) < Cardinality(S)
<1>1. IsFiniteSet(S \ {x}) /\ Cardinality(S \ {x}) = Cardinality(S) - 1
  BY FS_RemoveElement
<1>2. Cardinality(S) \in Nat /\ Cardinality(S \ {x}) \in Nat
  BY <1>1, FS_CardinalityType
<1> QED BY <1>1, <1>2

\* A set of finite sets that is not empty has one of least cardinality.
LEMMA SmallestSet ==
  ASSUME NEW F, F # {}, \A S \in F : IsFiniteSet(S)
  PROVE  \E S \in F : \A R \in F : Cardinality(S) <= Cardinality(R)
<1> DEFINE sizes == {Cardinality(S) : S \in F}
<1>1. sizes \in SUBSET Nat /\ sizes # {}
  BY FS_CardinalityType
<1>2. PICK m \in sizes : \A n \in sizes : m <= n
  BY <1>1, SetMinimum
<1>3. PICK S \in F : m = Cardinality(S)
  BY <1>2
<1>4. ASSUME NEW R \in F PROVE Cardinality(S) <= Cardinality(R)
  BY <1>2, <1>3
<1> QED BY <1>3, <1>4

LEMMA AdditiveExists ==
  ASSUME NEW f, NEW S, IsFiniteSet(S), \A x \in S : f[x] \in Int
  PROVE  \E A : Additive(A, f, S)
<1> DEFINE without == {R \in SUBSET S : ~ \E A : Additive(A, f, R)}
<1>1. SUFFICES without = {}
  OBVIOUS
<1>2. SUFFICES ASSUME without # {} PROVE FALSE
  OBVIOUS
<1>3. \A R \in without : IsFiniteSet(R)
  BY FS_Subset
<1>4. PICK R \in without : \A Q \in without : Cardinality(R) <= Cardinality(Q)
  <2> HIDE DEF without
  <2> QED BY <1>2, <1>3, SmallestSet
<1>5. R # {}
  <2>1. Additive([T \in SUBSET {} |-> 0], f, {})
    BY DEF Additive
  <2> QED BY <2>1
<1>6. PICK x : x \in R
  BY <1>5
<1>7. R \ {x} \notin without
  <2>1. /\ Cardinality(R \ {x}) \in Nat /\ Cardinality(R) \in Nat
        /\ Cardinality(R \ {x}) < Cardinality(R)
    BY <1>3, <1>6, OneFewer
  <2> HIDE DEF without
  <2> QED BY <1>4, <2>1
<1>8. PICK A : Additive(A, f, R \ {x})
  BY <1>7
<1>9. PICK B : B = [T \in SUBSET R |-> IF x \in T THEN A[T \ {x}] + f[x] ELSE A[T]]
  OBVIOUS
<1>10. B \in [SUBSET R -> Int]
  <2>1. ASSUME NEW T \in SUBSET R PROVE B[T] \in Int
    <3>1. CASE x \in T
      <4>1. T \ {x} \in SUBSET (R \ {x}) /\ f[x] \in Int
        BY <1>6
      <4>2. A[T \ {x}] \in Int
        BY <1>8, <4>1 DEF Additive
      <4>3. B[T] = A[T \ {x}] + f[x]
        BY <1>9, <3>1
      <4> QED BY <4>1, <4>2, <4>3
    <3>2. CASE x \notin T
      <4>1. T \in SUBSET (R \ {x})
        BY <3>2
      <4>2. A[T] \in Int
        BY <1>8, <4>1 DEF Additive
      <4> QED BY <1>9, <3>2, <4>2
    <3> QED BY <3>1, <3>2
  <2> QED BY <1>9, <2>1
<1>11. B[{}] = 0
  BY <1>8, <1>9 DEF Additive
<1>12. ASSUME NEW T \in SUBSET R, NEW y \in R \ T PROVE B[T \cup {y}] = B[T] + f[y]
  <2>1. T \cup {y} \in SUBSET R
    OBVIOUS
  <2>2. CASE y = x
    <3>1. B[T \cup {y}] = A[(T \cup {y}) \ {x}] + f[x]
      BY <1>9, <2>1, <2>2
    <3>2. (T \cup {y}) \ {x} = T
      BY <2>2
    <3>3. B[T] = A[T]
      BY <1>9, <2>2
    <3> QED BY <2>2, <3>1, <3>2, <3>3
  <2>3. CASE y # x /\ x \in T
    <3>1. B[T \cup {y}] = A[(T \cup {y}) \ {x}] + f[x] /\ B[T] = A[T \ {x}] + f[x]
      BY <1>9, <2>1, <2>3
    <3>2. (T \cup {y}) \ {x} = (T \ {x}) \cup {y}
      BY <2>3
    <3>3. T \ {x} \in SUBSET (R \ {x}) /\ y \in (R \ {x}) \ (T \ {x})
      BY <2>3
    <3>4. A[(T \ {x}) \cup {y}] = A[T \ {x}] + f[y] /\ A[T \ {x}] \in Int
      BY <1>8, <3>3 DEF Additive
    <3>5. f[x] \in Int /\ f[y] \in Int
      BY <1>6
    <3>6. PICK a, fx, fy : a = A[T \ {x}] /\ fx = f[x] /\ fy = f[y]
      OBVIOUS
    <3>7. B[T \cup {y}] = (a + fy) + fx /\ B[T] = a + fx
      BY <3>1, <3>2, <3>4, <3>6
    <3>8. a \in Int /\ fx \in Int /\ fy \in Int
      BY <3>4, <3>5, <3>6
    <3>9. (a + fy) + fx = (a + fx) + fy
      BY <3>8
    <3> QED BY <3>6, <3>7, <3>9
  <2>4. CASE y # x /\ x \notin T
    <3>1. B[T \cup {y}] = A[T \cup {y}] /\ B[T] = A[T]
      BY <1>9, <2>1, <2>4
    <3>2. T \in SUBSET (R \ {x}) /\ y \in (R \ {x}) \ T
      BY <2>4
    <3> QED BY <1>8, <3>1, <3>2 DEF Additive
  <2> QED BY <2>2, <2>3, <2>4
<1>13. Additive(B, f, R)
  BY <1>10, <1>11, <1>12 DEF Additive
<1> QED BY <1>13

\* The element a sum takes out first.
Taken(s) == CHOOSE x \in s : TRUE

\* The fold of the community module adds up a function over a set.
LEMMA SumIsAdditive ==
  ASSUME NEW f, NEW S, IsFiniteSet(S), \A x \in S : f[x] \in Int, NEW A, Additive(A, f, S)
  PROVE  SumFunctionOnSet(f, S) = A[S]
<1> DEFINE Solves(g) == g = [s \in SUBSET S |-> IF s = {} THEN 0 ELSE f[Taken(s)] + g[s \ {Taken(s)}]]
<1>1. SumFunctionOnSet(f, S) = (CHOOSE g : Solves(g))[S]
  BY DEF SumFunctionOnSet, FoldFunctionOnSet, MapThenFoldSet, Taken
<1>2. ASSUME NEW s \in SUBSET S, s # {} PROVE Taken(s) \in s
  BY <1>2 DEF Taken
<1>3. Solves(A)
  <2>1. ASSUME NEW s \in SUBSET S, s # {} PROVE A[s] = f[Taken(s)] + A[s \ {Taken(s)}]
    <3>1. PICK x : x = Taken(s)
      OBVIOUS
    <3>2. x \in s
      BY <1>2, <2>1, <3>1
    <3>3. s \ {x} \in SUBSET S /\ x \in S \ (s \ {x}) /\ (s \ {x}) \cup {x} = s
      BY <3>2
    <3>4. A[(s \ {x}) \cup {x}] = A[s \ {x}] + f[x]
      BY <3>3 DEF Additive
    <3>5. A[s] = A[s \ {x}] + f[x] /\ A[s] \in Int /\ A[s \ {x}] \in Int
      BY <3>3, <3>4 DEF Additive
    <3>6. f[x] \in Int
      BY <3>2
    <3> QED BY <3>1, <3>5, <3>6
  <2>2. A = [s \in SUBSET S |-> A[s]]
    BY DEF Additive
  <2>3. A[{}] = 0
    BY DEF Additive
  <2>4. [s \in SUBSET S |-> A[s]]
          = [s \in SUBSET S |-> IF s = {} THEN 0 ELSE f[Taken(s)] + A[s \ {Taken(s)}]]
    <3>1. \A s \in SUBSET S : A[s] = IF s = {} THEN 0 ELSE f[Taken(s)] + A[s \ {Taken(s)}]
      BY <2>1, <2>3
    <3> QED BY <3>1
  <2> QED BY ONLY <2>2, <2>4
<1>4. PICK g : Solves(g) /\ g = CHOOSE h : Solves(h)
  BY <1>3
<1>5. ASSUME NEW s \in SUBSET S
      PROVE  g[s] = IF s = {} THEN 0 ELSE f[Taken(s)] + g[s \ {Taken(s)}]
  <2>1. g = [r \in SUBSET S |-> IF r = {} THEN 0 ELSE f[Taken(r)] + g[r \ {Taken(r)}]]
    BY <1>4
  <2> QED BY <2>1
<1>6. ASSUME NEW s \in SUBSET S
      PROVE  A[s] = IF s = {} THEN 0 ELSE f[Taken(s)] + A[s \ {Taken(s)}]
  <2>1. A = [r \in SUBSET S |-> IF r = {} THEN 0 ELSE f[Taken(r)] + A[r \ {Taken(r)}]]
    BY <1>3
  <2> QED BY <2>1
<1> HIDE DEF Solves
<1> DEFINE wrong == {s \in SUBSET S : g[s] # A[s]}
<1>7. wrong = {}
  <2> SUFFICES ASSUME wrong # {} PROVE FALSE
    OBVIOUS
  <2>1. \A s \in wrong : IsFiniteSet(s)
    BY FS_Subset
  <2>2. PICK s \in wrong : \A r \in wrong : Cardinality(s) <= Cardinality(r)
    <3> HIDE DEF wrong
    <3> QED BY <2>1, SmallestSet
  <2>3. s \in SUBSET S /\ g[s] # A[s]
    OBVIOUS
  <2>4. s # {}
    BY <1>5, <1>6, <2>3
  <2>5. PICK x : x = Taken(s) /\ x \in s
    BY <1>2, <2>3, <2>4
  <2>6. s \ {x} \in SUBSET S
    BY <2>3
  <2>7. s \ {x} \notin wrong
    <3>1. /\ Cardinality(s \ {x}) \in Nat /\ Cardinality(s) \in Nat
          /\ Cardinality(s \ {x}) < Cardinality(s)
      BY <2>1, <2>5, OneFewer
    <3> HIDE DEF wrong
    <3> QED BY <2>2, <3>1
  <2>8. g[s \ {x}] = A[s \ {x}]
    BY <2>6, <2>7
  <2>9. g[s] = f[x] + g[s \ {x}]
    BY <1>5, <2>3, <2>4, <2>5
  <2>10. A[s] = f[x] + A[s \ {x}]
    BY <1>6, <2>3, <2>4, <2>5
  <2> QED BY <2>3, <2>8, <2>9, <2>10
<1>8. g[S] = A[S]
  <2>1. S \in SUBSET S
    OBVIOUS
  <2> QED BY <1>7, <2>1
<1> QED BY <1>1, <1>4, <1>8

LEMMA SumOfNothing ==
  ASSUME NEW f
  PROVE  SumFunctionOnSet(f, {}) = 0
<1>1. IsFiniteSet({})
  BY FS_EmptySet
<1>2. PICK A : Additive(A, f, {})
  BY <1>1, AdditiveExists
<1> QED BY <1>1, <1>2, SumIsAdditive DEF Additive

LEMMA SumOfOneMore ==
  ASSUME NEW f, NEW S, IsFiniteSet(S), NEW x, x \notin S,
         \A y \in S \cup {x} : f[y] \in Int
  PROVE  /\ SumFunctionOnSet(f, S) \in Int
         /\ SumFunctionOnSet(f, S \cup {x}) = SumFunctionOnSet(f, S) + f[x]
<1>1. IsFiniteSet(S \cup {x})
  BY FS_AddElement
<1>2. PICK A : Additive(A, f, S \cup {x})
  BY <1>1, AdditiveExists
<1>3. SumFunctionOnSet(f, S \cup {x}) = A[S \cup {x}]
  BY <1>1, <1>2, SumIsAdditive
<1>4. PICK B : B = [T \in SUBSET S |-> A[T]]
  OBVIOUS
<1>5. Additive(B, f, S)
  BY <1>2, <1>4 DEF Additive
<1>6. SumFunctionOnSet(f, S) = A[S]
  <2>1. SumFunctionOnSet(f, S) = B[S]
    BY <1>5, SumIsAdditive
  <2> QED BY <1>4, <2>1
<1>7. S \in SUBSET (S \cup {x}) /\ x \in (S \cup {x}) \ S
  OBVIOUS
<1>8. A[S \cup {x}] = A[S] + f[x] /\ A[S] \in Int
  BY <1>2, <1>7 DEF Additive
<1> QED BY <1>3, <1>6, <1>8

LEMMA SumsAgree ==
  ASSUME NEW f, NEW g, NEW S, IsFiniteSet(S), \A x \in S : f[x] \in Int /\ g[x] = f[x]
  PROVE  SumFunctionOnSet(g, S) = SumFunctionOnSet(f, S)
<1>1. PICK A : Additive(A, f, S)
  BY AdditiveExists
<1>2. Additive(A, g, S)
  BY <1>1 DEF Additive
<1> QED BY <1>1, <1>2, SumIsAdditive

=============================================================================
