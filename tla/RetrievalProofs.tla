-------------------------- MODULE RetrievalProofs --------------------------
(***************************************************************************)
(* Theorems about what is searched and how, for any texts, limits, corpus  *)
(* and requests.  First the lemmas on least numbers, intervals and         *)
(* concatenations that the text proofs use too.  Then the embedder: every  *)
(* text is sent once and within the budgets, and a vector lands on its own  *)
(* chunk.  Then search: hits are where they were asked for, and a page is  *)
(* full.                                                                    *)
(***************************************************************************)
EXTENDS EmbedBatches, Search,
        SequenceTheorems, FiniteSetTheorems, WellFoundedInduction, TLAPS
-----------------------------------------------------------------------------
\* Every nonempty set of naturals has a least number.
LEMMA LeastNumber ==
  ASSUME NEW N \in SUBSET Nat, N # {}
  PROVE  \E n \in N : \A m \in N : n <= m
  <1> DEFINE R == {p \in Nat \X Nat : p[1] < p[2]}
  <1>1. IsWellFoundedOn(R, Nat)
    BY NatLessThanWellFounded DEF OpToRel
  <1>2. PICK n \in N : \A m \in N : <<m, n>> \notin R
    <2> HIDE DEF R
    <2> QED BY <1>1, WFMin
  <1>3. ASSUME NEW m \in N PROVE n <= m
    <2>1. ~(m < n)
      BY <1>2
    <2> QED BY <2>1
  <1> QED BY <1>3

\* Induction, on the set of the numbers a statement holds for.
LEMMA Induction ==
  ASSUME NEW P, 0 \in P, \A k \in Nat : k \in P => k + 1 \in P
  PROVE  \A k \in Nat : k \in P
  <1> DEFINE Bad == {k \in Nat : k \notin P}
  <1> SUFFICES ASSUME Bad # {} PROVE FALSE
    OBVIOUS
  <1>1. PICK k \in Bad : \A l \in Bad : k <= l
    <2>1. Bad \in SUBSET Nat
      OBVIOUS
    <2> HIDE DEF Bad
    <2> QED BY <2>1, LeastNumber
  <1>2. k \in Nat /\ k # 0 /\ k - 1 \in Nat /\ k - 1 \notin Bad
    BY <1>1
  <1>3. k - 1 \in P /\ (k - 1) + 1 = k
    BY <1>2
  <1> QED BY <1>1, <1>2, <1>3

\* Induction over an interval
LEMMA IntervalInduction ==
  ASSUME NEW b \in Int, NEW n \in Int, NEW P, b \in P,
         \A c \in b..(n-1) : c \in P => c + 1 \in P
  PROVE  \A c \in b..n : c \in P
  <1> DEFINE Q == {d \in Nat : b + d <= n => b + d \in P}
  <1>1. 0 \in Q
    OBVIOUS
  <1>2. ASSUME NEW d \in Nat, d \in Q PROVE d + 1 \in Q
    <2> SUFFICES ASSUME b + (d + 1) <= n PROVE b + (d + 1) \in P
      OBVIOUS
    <2>1. b + d \in b..(n-1) /\ b + d \in P /\ (b + d) + 1 = b + (d + 1)
      BY <1>2
    <2> QED BY <2>1
  <1>3. \A d \in Nat : d \in Q
    <2> HIDE DEF Q
    <2> QED BY <1>1, <1>2, Induction
  <1>4. ASSUME NEW c \in b..n PROVE c \in P
    <2>1. c - b \in Nat /\ b + (c - b) = c
      OBVIOUS
    <2> QED BY <1>3, <2>1
  <1> QED BY <1>4

\* Recursion over 1..n: G gives the step for each number.
Recurses(f, a, G, n) == f[0] = a /\ \A k \in 1..n : f[k] = G[k][f[k-1]]

\* There is such a function.
LEMMA RecursionExists ==
  ASSUME NEW S, NEW a \in S, NEW n \in Nat, NEW G \in [1..n -> [S -> S]]
  PROVE  \E f \in [0..n -> S] : Recurses(f, a, G, n)
  <1> DEFINE Ok(m) == \E f \in [0..m -> S] : f[0] = a /\ \A k \in 1..m : f[k] = G[k][f[k-1]]
             P == {m \in Nat : m <= n => Ok(m)}
  <1>1. 0 \in P
    <2> DEFINE g == [k \in 0..0 |-> a]
    <2>1. g \in [0..0 -> S] /\ g[0] = a /\ 1..0 = {}
      OBVIOUS
    <2> HIDE DEF g
    <2>2. Ok(0)
      BY <2>1
    <2> QED BY <2>2
  <1>2. ASSUME NEW m \in Nat, m \in P PROVE m + 1 \in P
    <2> SUFFICES ASSUME m + 1 <= n PROVE Ok(m + 1)
      OBVIOUS
    <2>1. PICK f \in [0..m -> S] : f[0] = a /\ \A k \in 1..m : f[k] = G[k][f[k-1]]
      BY <1>2
    <2> DEFINE g == [k \in 0..(m+1) |-> IF k = m + 1 THEN G[m+1][f[m]] ELSE f[k]]
    <2>2. m + 1 \in 1..n /\ G[m+1] \in [S -> S] /\ f[m] \in S
      BY <2>1
    <2>3. g \in [0..(m+1) -> S] /\ g[0] = a
      BY <2>1, <2>2
    <2>4. ASSUME NEW k \in 1..(m+1) PROVE g[k] = G[k][g[k-1]]
      <3>1. k - 1 \in 0..m /\ g[k-1] = f[k-1]
        OBVIOUS
      <3>2. CASE k = m + 1
        BY <3>1, <3>2
      <3>3. CASE k # m + 1
        <4>1. k \in 1..m /\ g[k] = f[k]
          BY <3>3
        <4> QED BY <2>1, <3>1, <4>1
      <3> QED BY <3>2, <3>3
    <2> HIDE DEF g
    <2> QED BY <2>3, <2>4
  <1>3. n \in P
    <2> HIDE DEF P
    <2> QED BY <1>1, <1>2, Induction
  <1> QED BY <1>3 DEF Recurses

Agree(f, g, m) == \A k \in 0..m : f[k] = g[k]

\* Two recursions with one start and one step agree where both are defined.
LEMMA RecursionUnique ==
  ASSUME NEW f, NEW g, NEW m \in Nat, f[0] = g[0],
         \A k \in 1..m : f[k-1] = g[k-1] => f[k] = g[k]
  PROVE  Agree(f, g, m)
  <1> DEFINE P == {k \in Nat : k <= m => f[k] = g[k]}
  <1>1. 0 \in P
    OBVIOUS
  <1>2. ASSUME NEW k \in Nat, k \in P PROVE k + 1 \in P
    <2> SUFFICES ASSUME k + 1 <= m PROVE f[k+1] = g[k+1]
      OBVIOUS
    <2>1. k + 1 \in 1..m /\ (k + 1) - 1 = k /\ f[k] = g[k]
      BY <1>2
    <2> QED BY <2>1
  <1>3. \A k \in Nat : k \in P
    <2> HIDE DEF P
    <2> QED BY <1>1, <1>2, Induction
  <1> QED BY <1>3 DEF Agree
-----------------------------------------------------------------------------
\* FlattenSeq without its recursion: the concatenations of the first k.
Flattens(f, seqs, n) == f[0] = <<>> /\ \A k \in 1..n : f[k] = f[k-1] \o seqs[k]

\* They exist.
LEMMA FlattensExist ==
  ASSUME NEW T, NEW n \in Nat, NEW seqs, \A k \in 1..n : seqs[k] \in Seq(T)
  PROVE  \E f \in [0..n -> Seq(T)] : Flattens(f, seqs, n)
  <1> DEFINE G == [k \in 1..n |-> [s \in Seq(T) |-> s \o seqs[k]]]
  <1>1. ASSUME NEW k \in 1..n PROVE G[k] \in [Seq(T) -> Seq(T)]
    <2>1. seqs[k] \in Seq(T)
      OBVIOUS
    <2>2. \A s \in Seq(T) : s \o seqs[k] \in Seq(T)
      BY <2>1
    <2> QED BY <2>2
  <1>2. G \in [1..n -> [Seq(T) -> Seq(T)]]
    BY <1>1
  <1>3. \A k \in 1..n : \A s \in Seq(T) : G[k][s] = s \o seqs[k]
    OBVIOUS
  <1>4. <<>> \in Seq(T)
    OBVIOUS
  <1> HIDE DEF G
  <1>5. \E f \in [0..n -> Seq(T)] : f[0] = <<>> /\ \A k \in 1..n : f[k] = G[k][f[k-1]]
    <2> DEFINE S == Seq(T) a == <<>>
    <2>1. a \in S /\ G \in [1..n -> [S -> S]]
      BY <1>2, <1>4
    <2> HIDE DEF S, a
    <2>2. \E f \in [0..n -> S] : Recurses(f, a, G, n)
      BY <2>1, RecursionExists
    <2> QED BY <2>2 DEF S, a, Recurses
  <1>6. PICK f \in [0..n -> Seq(T)] : f[0] = <<>> /\ \A k \in 1..n : f[k] = G[k][f[k-1]]
    BY <1>5
  <1>7. ASSUME NEW k \in 1..n PROVE f[k] = f[k-1] \o seqs[k]
    <2>1. k - 1 \in 0..n
      OBVIOUS
    <2>2. f[k-1] \in Seq(T)
      BY <2>1
    <2> QED BY <1>3, <1>6, <2>2
  <1> QED BY <1>6, <1>7 DEF Flattens

\* FlattenSeq is the last of them.
LEMMA FlattenIsLast ==
  ASSUME NEW T, NEW seqs \in Seq(Seq(T)), NEW f, Flattens(f, seqs, Len(seqs))
  PROVE  FlattenSeq(seqs) = f[Len(seqs)]
  <1>1. PICK n \in Nat : n = Len(seqs)
    OBVIOUS
  <1>2. \A k \in 1..n : seqs[k] \in Seq(T)
    BY <1>1
  <1>3. f[0] = <<>> /\ \A k \in 1..n : f[k] = f[k-1] \o seqs[k]
    BY <1>1 DEF Flattens
  <1>4. CASE n = 0
    <2>1. seqs = <<>>
      BY <1>1, <1>4, EmptySeq
    <2>2. FlattenSeq(seqs) = seqs
      BY <1>1, <1>4 DEF FlattenSeq
    <2>3. f[Len(seqs)] = <<>>
      BY <1>1, <1>3, <1>4
    <2> QED BY <2>1, <2>2, <2>3
  <1>5. CASE n # 0
    <2> DEFINE Val(h, i) == IF i = 1 THEN seqs[i] ELSE h[i-1] \o seqs[i]
               Is(h) == h = [i \in 1..n |-> Val(h, i)]
               F == [i \in 1..n |-> f[i]]
               H == CHOOSE h : Is(h)
    <2>1. FlattenSeq(seqs) = H[n]
      BY <1>1, <1>5 DEF FlattenSeq
    <2>2. \A i \in 1..n : F[i] = f[i]
      OBVIOUS
    <2>3. F = [i \in 1..n |-> F[i]]
      OBVIOUS
    <2> HIDE DEF F
    <2>4. \A i \in 1..n : F[i] = Val(F, i)
      <3> SUFFICES ASSUME NEW i \in 1..n PROVE F[i] = Val(F, i)
        OBVIOUS
      <3>1. F[i] = f[i-1] \o seqs[i]
        BY <1>3, <2>2
      <3>2. CASE i = 1
        <4>1. i - 1 = 0 /\ f[0] = <<>>
          BY <1>3, <3>2
        <4>2. F[i] = <<>> \o seqs[i]
          BY <3>1, <4>1
        <4>3. <<>> \o seqs[i] = seqs[i]
          BY <1>2, ConcatEmptySeq
        <4> QED BY <3>2, <4>2, <4>3
      <3>3. CASE i # 1
        <4>1. i - 1 \in 1..n
          BY <3>3
        <4> QED BY <2>2, <3>1, <3>3, <4>1
      <3> QED BY <3>2, <3>3
    <2>5. Is(F)
      <3> HIDE DEF Val
      <3> QED BY <2>3, <2>4
    <2>6. Is(H)
      <3> HIDE DEF Is
      <3> QED BY <2>5
    <2>7. \A i \in 1..n : H[i] = Val(H, i)
      <3> HIDE DEF Val, H
      <3> QED BY <2>6
    <2> HIDE DEF H, Is
    <2> DEFINE H0 == [k \in 0..n |-> IF k = 0 THEN <<>> ELSE H[k]]
    <2>8. H0[0] = <<>> /\ \A k \in 1..n : H0[k] = H[k]
      OBVIOUS
    <2> HIDE DEF H0
    <2>9. ASSUME NEW k \in 1..n, H0[k-1] = f[k-1] PROVE H0[k] = f[k]
      <3>1. f[k] = f[k-1] \o seqs[k]
        BY <1>3
      <3>2. CASE k = 1
        <4>1. k - 1 = 0 /\ f[0] = <<>>
          BY <1>3, <3>2
        <4>2. f[k] = <<>> \o seqs[k]
          BY <3>1, <4>1
        <4>3. <<>> \o seqs[k] = seqs[k]
          BY <1>2, ConcatEmptySeq
        <4>4. H[k] = seqs[k]
          BY <2>7, <3>2
        <4> QED BY <2>8, <4>2, <4>3, <4>4
      <3>3. CASE k # 1
        <4>1. k - 1 \in 1..n
          BY <3>3
        <4>2. H[k] = H[k-1] \o seqs[k]
          BY <2>7, <3>3
        <4>3. H[k-1] = f[k-1]
          BY <2>8, <2>9, <4>1
        <4> QED BY <2>8, <3>1, <4>2, <4>3
      <3> QED BY <3>2, <3>3
    <2>10. \A k \in 0..n : H0[k] = f[k]
      <3>1. H0[0] = f[0]
        BY <1>3, <2>8
      <3> HIDE DEF Val
      <3> QED BY <2>9, <3>1, RecursionUnique, ZenonT(60) DEF Agree
    <2>11. n \in 0..n /\ n \in 1..n
      BY <1>5
    <2>12. f[n] = H[n]
      BY <2>8, <2>10, <2>11
    <2> QED BY <1>1, <2>1, <2>12
  <1> QED BY <1>4, <1>5

\* The concatenations of the first b, for every b.
LEMMA FlattenPrefixes ==
  ASSUME NEW T, NEW seqs \in Seq(Seq(T))
  PROVE  \E f \in [0..Len(seqs) -> Seq(T)] :
           /\ Flattens(f, seqs, Len(seqs))
           /\ FlattenSeq(seqs) = f[Len(seqs)]
           /\ \A b \in 0..Len(seqs) : FlattenSeq(SubSeq(seqs, 1, b)) = f[b]
  <1>1. PICK n \in Nat : n = Len(seqs)
    BY LenProperties
  <1>2. \A k \in 1..n : seqs[k] \in Seq(T)
    BY <1>1, ElementOfSeq
  <1>3. PICK f \in [0..n -> Seq(T)] : Flattens(f, seqs, n)
    BY <1>2, FlattensExist
  <1>4. ASSUME NEW b \in 0..n PROVE FlattenSeq(SubSeq(seqs, 1, b)) = f[b]
    <2> DEFINE t == SubSeq(seqs, 1, b)
    <2>1. t \in Seq(Seq(T)) /\ Len(t) = b /\ \A k \in 1..b : t[k] = seqs[k]
      <3>1. \A k \in 1..b : seqs[k] \in Seq(T)
        BY <1>2
      <3> QED BY <3>1, SubSeqProperties
    <2> HIDE DEF t
    <2>2. ASSUME NEW k \in 1..b PROVE f[k] = f[k-1] \o t[k]
      <3>1. k \in 1..n /\ t[k] = seqs[k]
        BY <2>1
      <3> QED BY <1>3, <3>1 DEF Flattens
    <2>3. Flattens(f, t, b)
      BY <1>3, <2>2 DEF Flattens
    <2> QED BY <2>1, <2>3, FlattenIsLast DEF t
  <1>5. FlattenSeq(seqs) = f[n]
    BY <1>1, <1>3, FlattenIsLast
  <1> QED BY <1>1, <1>3, <1>4, <1>5

\* The same, with the types of all
Concats(T, seqs, n, f) ==
  /\ \A k \in 1..n : seqs[k] \in Seq(T)
  /\ f \in [0..n -> Seq(T)] /\ Flattens(f, seqs, n)

\* f[b] is the beginning of what follows it up to n.
Begins(f, b, n) == \A c \in b..n : /\ Len(f[b]) <= Len(f[c])
                                   /\ \A i \in 1..Len(f[b]) : f[c][i] = f[b][i]

\* A concatenation begins with every earlier one.
LEMMA FlattenGrows ==
  ASSUME NEW T, NEW n \in Nat, NEW seqs, NEW f, Concats(T, seqs, n, f), NEW b \in 0..n
  PROVE  Begins(f, b, n)
  <1> DEFINE Ok(c) == Len(f[b]) <= Len(f[c]) /\ \A i \in 1..Len(f[b]) : f[c][i] = f[b][i]
             P == {c \in b..n : Ok(c)}
  <1> USE DEF Concats
  <1>0. f[b] \in Seq(T) /\ Len(f[b]) \in Nat /\ b \in Int /\ n \in Int
    BY LenProperties
  <1>1. b \in P
    BY <1>0
  <1>2. ASSUME NEW c \in b..(n-1), c \in P PROVE c + 1 \in P
    <2>1. c \in 0..n /\ c + 1 \in 1..n /\ c + 1 \in b..n /\ (c + 1) - 1 = c /\ Ok(c)
      BY <1>2
    <2>2. PICK x \in Seq(T), y \in Seq(T) : x = f[c] /\ y = seqs[c+1] /\ f[c+1] = x \o y
      BY <2>1 DEF Flattens
    <2>3. /\ Len(x) \in Nat /\ Len(y) \in Nat /\ Len(x \o y) = Len(x) + Len(y)
          /\ \A i \in 1..Len(x) : (x \o y)[i] = x[i]
      BY LenProperties, ConcatProperties
    <2>4. Ok(c + 1)
      <3>1. Len(f[b]) <= Len(x) /\ \A i \in 1..Len(f[b]) : x[i] = f[b][i]
        BY <2>1, <2>2
      <3>2. Len(f[b]) <= Len(x \o y) /\ \A i \in 1..Len(f[b]) : (x \o y)[i] = f[b][i]
        BY <1>0, <2>3, <3>1
      <3> QED BY <2>2, <3>2
    <2> QED BY <2>1, <2>4
  <1>3. \A c \in b..n : c \in P
    <2> HIDE DEF P
    <2> QED BY <1>0, <1>1, <1>2, IntervalInduction
  <1> QED BY <1>3 DEF Begins

\* How many elements come before the sequence b.
Skip(seqs, b) == Len(FlattenSeq(SubSeq(seqs, 1, b - 1)))

\* Each place of the concatenations is one in seqs.
Places(f, seqs, n) ==
  \A c \in 0..n : \A i \in 1..Len(f[c]) :
    \E b \in 1..c : \E j \in 1..Len(seqs[b]) : i = Len(f[b-1]) + j /\ f[c][i] = seqs[b][j]

\* A place in a concatenation is a place in one of the sequences.
LEMMA FlattenPlace ==
  ASSUME NEW T, NEW n \in Nat, NEW seqs, NEW f, Concats(T, seqs, n, f)
  PROVE  Places(f, seqs, n)
  <1> DEFINE At(c, i) == \E b \in 1..c : \E j \in 1..Len(seqs[b]) :
                           i = Len(f[b-1]) + j /\ f[c][i] = seqs[b][j]
             Ok(c) == \A i \in 1..Len(f[c]) : At(c, i)
             P == {c \in 0..n : Ok(c)}
  <1> USE DEF Concats
  <1>1. 0 \in P
    <2>1. Len(f[0]) = 0
      BY DEF Flattens
    <2> HIDE DEF At
    <2> QED BY <2>1
  <1>2. ASSUME NEW c \in 0..(n-1), c \in P PROVE c + 1 \in P
    <2>1. c \in 0..n /\ c + 1 \in 1..n /\ c + 1 \in 0..n /\ (c + 1) - 1 = c /\ Ok(c)
      BY <1>2
    <2>2. PICK x \in Seq(T), y \in Seq(T) : x = f[c] /\ y = seqs[c+1] /\ f[c+1] = x \o y
      BY <2>1 DEF Flattens
    <2>3. /\ Len(x) \in Nat /\ Len(y) \in Nat /\ Len(x \o y) = Len(x) + Len(y)
          /\ \A i \in 1..Len(x)+Len(y) : (x \o y)[i] = IF i <= Len(x) THEN x[i] ELSE y[i - Len(x)]
      BY LenProperties, ConcatProperties
    <2>4. ASSUME NEW i \in 1..Len(f[c+1]) PROVE At(c + 1, i)
      <3>0. i \in 1..Len(x)+Len(y)
        BY <2>2, <2>3
      <3>1. CASE i <= Len(x)
        <4>1. i \in 1..Len(f[c]) /\ f[c+1][i] = f[c][i]
          BY <2>2, <2>3, <3>0, <3>1
        <4>2. PICK b \in 1..c : \E j \in 1..Len(seqs[b]) : i = Len(f[b-1]) + j /\ f[c][i] = seqs[b][j]
          BY <2>1, <4>1
        <4>3. b \in 1..(c+1)
          OBVIOUS
        <4> QED BY <4>1, <4>2, <4>3
      <3>2. CASE ~(i <= Len(x))
        <4>1. i - Len(x) \in 1..Len(y) /\ (x \o y)[i] = y[i - Len(x)] /\ i = Len(x) + (i - Len(x))
          BY <2>3, <3>0, <3>2
        <4> DEFINE j == i - Len(x)
        <4>2. j \in 1..Len(seqs[c+1]) /\ f[c+1][i] = seqs[c+1][j] /\ i = Len(f[(c+1)-1]) + j
          BY <2>1, <2>2, <4>1
        <4>3. c + 1 \in 1..(c+1)
          OBVIOUS
        <4> HIDE DEF j
        <4> QED BY <4>2, <4>3
      <3> QED BY <3>1, <3>2
    <2> HIDE DEF At
    <2> QED BY <2>1, <2>4
  <1>3. \A c \in 0..n : c \in P
    <2>1. 0 \in Int /\ n \in Int
      OBVIOUS
    <2> HIDE DEF P
    <2> QED BY <1>1, <1>2, <2>1, IntervalInduction
  <1> QED BY <1>3 DEF Places

\* The elements of FlattenSeq and their places
LEMMA FlattenElements ==
  ASSUME NEW T, NEW seqs \in Seq(Seq(T))
  PROVE  /\ FlattenSeq(seqs) \in Seq(T)
         /\ \A b \in 1..Len(seqs) :
              /\ Skip(seqs, b) \in Nat
              /\ \A j \in 1..Len(seqs[b]) :
                   /\ Skip(seqs, b) + j \in 1..Len(FlattenSeq(seqs))
                   /\ FlattenSeq(seqs)[Skip(seqs, b) + j] = seqs[b][j]
         /\ \A i \in 1..Len(FlattenSeq(seqs)) : \E b \in 1..Len(seqs) : \E j \in 1..Len(seqs[b]) :
              i = Skip(seqs, b) + j /\ FlattenSeq(seqs)[i] = seqs[b][j]
  <1>1. PICK n \in Nat : n = Len(seqs)
    BY LenProperties
  <1>2. \A k \in 1..n : seqs[k] \in Seq(T)
    BY <1>1, ElementOfSeq
  <1>3. PICK f \in [0..n -> Seq(T)] :
          /\ Flattens(f, seqs, n) /\ FlattenSeq(seqs) = f[n]
          /\ \A b \in 0..n : FlattenSeq(SubSeq(seqs, 1, b)) = f[b]
    BY <1>1, FlattenPrefixes
  <1>4. ASSUME NEW b \in 1..n PROVE Skip(seqs, b) = Len(f[b-1])
    <2>1. b - 1 \in 0..n
      OBVIOUS
    <2> QED BY <1>3, <2>1 DEF Skip
  <1>5. \A c \in 0..n : f[c] \in Seq(T) /\ Len(f[c]) \in Nat
    BY LenProperties
  <1>6. ASSUME NEW b \in 1..n, NEW y \in Seq(T), y = seqs[b], NEW j \in Nat, 1 <= j, j <= Len(y)
        PROVE  /\ Len(f[b-1]) + j \in 1..Len(f[n])
               /\ f[n][Len(f[b-1]) + j] = y[j]
    <2>1. b \in 0..n /\ b - 1 \in 0..n /\ n \in b..n /\ n \in 0..n
      OBVIOUS
    <2>2. PICK x \in Seq(T) : x = f[b-1] /\ f[b] = x \o y
      BY <1>3, <1>6, <2>1 DEF Flattens
    <2>3. /\ Len(x) \in Nat /\ Len(y) \in Nat /\ Len(x \o y) = Len(x) + Len(y)
          /\ \A i \in 1..Len(x)+Len(y) : (x \o y)[i] = IF i <= Len(x) THEN x[i] ELSE y[i - Len(x)]
      BY LenProperties, ConcatProperties
    <2>4. Len(x) + j \in 1..Len(x)+Len(y) /\ (Len(x) + j) - Len(x) = j
          /\ ~(Len(x) + j <= Len(x))
      BY <1>6, <2>3
    <2>5. (x \o y)[Len(x) + j] = y[j] /\ Len(x) + j \in 1..Len(x \o y)
      BY <2>3, <2>4
    <2>6. Len(f[b]) <= Len(f[n]) /\ \A i \in 1..Len(f[b]) : f[n][i] = f[b][i]
      <3>1. Concats(T, seqs, n, f)
        BY <1>2, <1>3 DEF Concats
      <3>2. Begins(f, b, n)
        BY <2>1, <3>1, FlattenGrows
      <3> QED BY <2>1, <3>2 DEF Begins
    <2>7. Len(x) + j \in 1..Len(f[b]) /\ f[b][Len(x) + j] = y[j]
      BY <2>2, <2>5
    <2>8. Len(x) + j \in 1..Len(f[n])
      BY <1>5, <2>1, <2>6, <2>7
    <2> QED BY <2>2, <2>6, <2>7, <2>8
  <1>7. \A i \in 1..Len(f[n]) :
          \E b \in 1..n : \E j \in 1..Len(seqs[b]) : i = Len(f[b-1]) + j /\ f[n][i] = seqs[b][j]
    <2>1. n \in 0..n
      OBVIOUS
    <2>2. Concats(T, seqs, n, f)
      BY <1>2, <1>3 DEF Concats
    <2>3. Places(f, seqs, n)
      BY <2>2, FlattenPlace
    <2> QED BY <2>1, <2>3 DEF Places
  <1>8. f[n] \in Seq(T) /\ \A b \in 1..n : Len(f[b-1]) \in Nat
    BY <1>5
  <1>9. f[n] = FlattenSeq(seqs) /\ \A b \in 1..n : Skip(seqs, b) = Len(f[b-1])
    BY <1>3, <1>4
  <1>10. ASSUME NEW b \in 1..n
         PROVE  /\ Skip(seqs, b) \in Nat
                /\ \A j \in 1..Len(seqs[b]) :
                     /\ Skip(seqs, b) + j \in 1..Len(FlattenSeq(seqs))
                     /\ FlattenSeq(seqs)[Skip(seqs, b) + j] = seqs[b][j]
    <2>1. PICK y \in Seq(T) : y = seqs[b]
      BY <1>2
    <2>2. Len(y) \in Nat
      BY LenProperties
    <2>3. \A j \in 1..Len(y) : j \in Nat /\ 1 <= j /\ j <= Len(y)
      BY <2>2
    <2>4. \A j \in 1..Len(y) : /\ Skip(seqs, b) + j \in 1..Len(FlattenSeq(seqs))
                               /\ FlattenSeq(seqs)[Skip(seqs, b) + j] = y[j]
      BY <1>6, <1>9, <2>1, <2>3
    <2> QED BY <1>8, <1>9, <2>1, <2>4
  <1>11. ASSUME NEW i \in 1..Len(FlattenSeq(seqs))
         PROVE  \E b \in 1..n : \E j \in 1..Len(seqs[b]) :
                  i = Skip(seqs, b) + j /\ FlattenSeq(seqs)[i] = seqs[b][j]
    <2>1. i \in 1..Len(f[n])
      BY <1>9
    <2>2. PICK b \in 1..n : \E j \in 1..Len(seqs[b]) : i = Len(f[b-1]) + j /\ f[n][i] = seqs[b][j]
      BY <1>7, <2>1
    <2>3. PICK j \in 1..Len(seqs[b]) : i = Len(f[b-1]) + j /\ f[n][i] = seqs[b][j]
      BY <2>2
    <2> QED BY <1>9, <2>3
  <1>12. FlattenSeq(seqs) \in Seq(T)
    BY <1>8, <1>9
  <1> QED BY <1>1, <1>10, <1>11, <1>12

\* One sequence more adds its elements at the end.
LEMMA FlattenAppend ==
  ASSUME NEW T, NEW seqs \in Seq(Seq(T)), NEW t \in Seq(T)
  PROVE  FlattenSeq(Append(seqs, t)) = FlattenSeq(seqs) \o t
  <1> DEFINE u == Append(seqs, t)
  <1>1. PICK n \in Nat : n = Len(seqs)
    BY LenProperties
  <1>2. /\ u \in Seq(Seq(T)) /\ Len(u) = n + 1 /\ u[n+1] = t
        /\ \A k \in 1..n : u[k] = seqs[k]
    <2> DEFINE S == Seq(T)
    <2>1. seqs \in Seq(S) /\ t \in S
      OBVIOUS
    <2> HIDE DEF S
    <2>2. /\ u \in Seq(S) /\ Len(u) = n + 1 /\ u[n+1] = t
          /\ \A k \in 1..n : u[k] = seqs[k]
      BY <1>1, <2>1, AppendProperties
    <2> QED BY <2>2 DEF S
  <1> HIDE DEF u
  <1>3. PICK f \in [0..(n+1) -> Seq(T)] :
          /\ Flattens(f, u, n + 1) /\ FlattenSeq(u) = f[n+1]
    <2>1. PICK f \in [0..Len(u) -> Seq(T)] :
            /\ Flattens(f, u, Len(u)) /\ FlattenSeq(u) = f[Len(u)]
      BY <1>2, FlattenPrefixes
    <2>2. f \in [0..(n+1) -> Seq(T)] /\ Flattens(f, u, n + 1) /\ FlattenSeq(u) = f[n+1]
      BY <1>2, <2>1
    <2> QED BY <2>2
  <1>4. f[n+1] = f[n] \o t
    <2>1. n + 1 \in 1..(n+1) /\ (n + 1) - 1 = n
      OBVIOUS
    <2> QED BY <1>2, <1>3, <2>1 DEF Flattens
  <1>5. Flattens(f, seqs, n)
    <2>1. ASSUME NEW k \in 1..n PROVE f[k] = f[k-1] \o seqs[k]
      <3>1. k \in 1..(n+1) /\ u[k] = seqs[k]
        BY <1>2
      <3> QED BY <1>3, <3>1 DEF Flattens
    <2> QED BY <1>3, <2>1 DEF Flattens
  <1>6. FlattenSeq(seqs) = f[n]
    BY <1>1, <1>5, FlattenIsLast
  <1> QED BY <1>3, <1>4, <1>6 DEF u
-----------------------------------------------------------------------------
(***************************************************************************)
(* The embedder's batches                                                   *)
(***************************************************************************)

\* The texts, by their place
Texts(counts) == 1..Len(counts)

\* A text has its tokens.
LEMMA TextTokens ==
  ASSUME NEW counts \in Seq(Nat), NEW k \in Texts(counts)
  PROVE  k \in Nat /\ k # 0 /\ counts[k] \in Nat
  BY ElementOfSeq, LenProperties DEF Texts

\* Tokens without its recursion: the sums over the first i texts.
Sums(f, counts, batch, n) == f[0] = 0 /\ \A i \in 1..n : f[i] = f[i-1] + Cost(counts[batch[i]])

\* A text has no more tokens than the budget.
LEMMA CostBounded ==
  ASSUME NEW t \in Nat
  PROVE  Cost(t) \in Nat /\ Cost(t) <= CtxBudget
  BY EmbedAssumption DEF Cost

\* The sums exist.
LEMMA SumsExist ==
  ASSUME NEW counts \in Seq(Nat), NEW batch \in Seq(Texts(counts)), NEW n \in Nat, n = Len(batch)
  PROVE  \E f \in [0..n -> Nat] : Sums(f, counts, batch, n)
  <1> DEFINE G == [i \in 1..n |-> [x \in Nat |-> x + Cost(counts[batch[i]])]]
  <1>1. ASSUME NEW i \in 1..n PROVE G[i] \in [Nat -> Nat]
    <2>1. batch[i] \in Texts(counts)
      BY ElementOfSeq
    <2>2. counts[batch[i]] \in Nat
      BY <2>1, TextTokens
    <2>3. Cost(counts[batch[i]]) \in Nat
      BY <2>2, CostBounded
    <2>4. \A x \in Nat : x + Cost(counts[batch[i]]) \in Nat
      BY <2>3
    <2> QED BY <2>4
  <1>2. G \in [1..n -> [Nat -> Nat]]
    BY <1>1
  <1>3. \A i \in 1..n : \A x \in Nat : G[i][x] = x + Cost(counts[batch[i]])
    OBVIOUS
  <1> HIDE DEF G
  <1>4. PICK f \in [0..n -> Nat] : f[0] = 0 /\ \A i \in 1..n : f[i] = G[i][f[i-1]]
    <2> DEFINE S == Nat a == 0
    <2>1. a \in S /\ G \in [1..n -> [S -> S]]
      BY <1>2
    <2> HIDE DEF S, a
    <2>2. \E f \in [0..n -> S] : Recurses(f, a, G, n)
      BY <2>1, RecursionExists
    <2> QED BY <2>2 DEF S, a, Recurses
  <1>5. ASSUME NEW i \in 1..n PROVE f[i] = f[i-1] + Cost(counts[batch[i]])
    <2>1. i - 1 \in 0..n
      OBVIOUS
    <2>2. f[i-1] \in Nat
      BY <2>1
    <2> QED BY <1>3, <1>4, <2>2
  <1> QED BY <1>4, <1>5 DEF Sums

\* Tokens is the last of them.
LEMMA TokensIsLast ==
  ASSUME NEW counts, NEW batch, NEW n \in Nat, n = Len(batch), NEW f, Sums(f, counts, batch, n)
  PROVE  Tokens(counts, batch) = f[n]
  <1> DEFINE Val(h, i) == IF i = 0 THEN 0 ELSE h[i-1] + Cost(counts[batch[i]])
             Is(h) == h = [i \in 0..n |-> Val(h, i)]
             F == [i \in 0..n |-> f[i]]
             H == CHOOSE h : Is(h)
  <1>1. Tokens(counts, batch) = H[n]
    BY DEF Tokens
  <1>2. f[0] = 0 /\ \A i \in 1..n : f[i] = f[i-1] + Cost(counts[batch[i]])
    BY DEF Sums
  <1>3. F = [i \in 0..n |-> F[i]] /\ \A i \in 0..n : F[i] = f[i]
    OBVIOUS
  <1> HIDE DEF F
  <1>4. ASSUME NEW i \in 0..n PROVE F[i] = Val(F, i)
    <2>1. CASE i = 0
      BY <1>2, <1>3, <2>1
    <2>2. CASE i # 0
      <3>1. i \in 1..n /\ i - 1 \in 0..n
        BY <2>2
      <3>2. F[i] = f[i] /\ F[i-1] = f[i-1] /\ f[i] = f[i-1] + Cost(counts[batch[i]])
        BY <1>2, <1>3, <3>1
      <3> QED BY <2>2, <3>2
    <2> QED BY <2>1, <2>2
  <1>5. Is(F)
    <2> HIDE DEF Val
    <2> QED BY <1>3, <1>4
  <1>6. Is(H)
    <2> HIDE DEF Is
    <2> QED BY <1>5
  <1>7. \A i \in 0..n : H[i] = Val(H, i)
    <2> HIDE DEF Val, H
    <2> QED BY <1>6
  <1> HIDE DEF H, Is
  <1>8. f[0] = H[0]
    BY <1>2, <1>7
  <1>9. ASSUME NEW i \in 1..n, f[i-1] = H[i-1] PROVE f[i] = H[i]
    <2>1. i \in 0..n /\ i # 0
      OBVIOUS
    <2>2. H[i] = H[i-1] + Cost(counts[batch[i]])
      BY <1>7, <2>1
    <2> QED BY <1>2, <1>9, <2>2
  <1>10. \A i \in 0..n : f[i] = H[i]
    <2> HIDE DEF Val
    <2> QED BY <1>8, <1>9, RecursionUnique, ZenonT(60) DEF Agree
  <1>11. n \in 0..n
    OBVIOUS
  <1> QED BY <1>1, <1>10, <1>11

\* A batch costs what its texts cost.
LEMMA TokensAdd ==
  ASSUME NEW counts \in Seq(Nat)
  PROVE  /\ Tokens(counts, <<>>) = 0
         /\ \A batch \in Seq(Texts(counts)) :
              /\ Tokens(counts, batch) \in Nat
              /\ \A k \in Texts(counts) :
                   Tokens(counts, Append(batch, k)) = Tokens(counts, batch) + Cost(counts[k])
  <1>1. Tokens(counts, <<>>) = 0
    <2> DEFINE f == [i \in 0..0 |-> 0]
    <2>1. Sums(f, counts, <<>>, 0) /\ f[0] = 0 /\ Len(<<>>) = 0
      BY DEF Sums
    <2> HIDE DEF f
    <2> QED BY <2>1, TokensIsLast
  <1>2. ASSUME NEW batch \in Seq(Texts(counts)) PROVE Tokens(counts, batch) \in Nat
    <2>1. PICK n \in Nat : n = Len(batch)
      BY LenProperties
    <2>2. PICK f \in [0..n -> Nat] : Sums(f, counts, batch, n)
      BY <2>1, SumsExist
    <2>3. Tokens(counts, batch) = f[n] /\ n \in 0..n
      BY <2>1, <2>2, TokensIsLast
    <2> QED BY <2>3
  <1>3. ASSUME NEW batch \in Seq(Texts(counts)), NEW k \in Texts(counts)
        PROVE  Tokens(counts, Append(batch, k)) = Tokens(counts, batch) + Cost(counts[k])
    <2> DEFINE more == Append(batch, k)
    <2>1. PICK n \in Nat : n = Len(batch)
      BY LenProperties
    <2>2. more \in Seq(Texts(counts)) /\ Len(more) = n + 1 /\ more[n+1] = k
          /\ \A i \in 1..n : more[i] = batch[i]
      BY <2>1, AppendProperties
    <2> HIDE DEF more
    <2>3. PICK f \in [0..(n+1) -> Nat] : Sums(f, counts, more, n + 1)
      <3> DEFINE m == n + 1
      <3>1. m \in Nat /\ m = Len(more)
        BY <2>2
      <3> HIDE DEF m
      <3>2. \E f \in [0..m -> Nat] : Sums(f, counts, more, m)
        BY <2>2, <3>1, SumsExist
      <3> QED BY <3>2 DEF m
    <2>4. ASSUME NEW i \in 1..n PROVE f[i] = f[i-1] + Cost(counts[batch[i]])
      <3>1. i \in 1..(n+1)
        OBVIOUS
      <3>2. more[i] = batch[i]
        BY <2>2, Zenon
      <3> QED BY <2>3, <3>1, <3>2 DEF Sums
    <2>5. Sums(f, counts, batch, n)
      BY <2>3, <2>4 DEF Sums
    <2>6. Tokens(counts, batch) = f[n]
      BY <2>1, <2>5, TokensIsLast
    <2>7. Tokens(counts, more) = f[n+1]
      <3>1. n + 1 \in Nat
        OBVIOUS
      <3> QED BY <2>2, <2>3, <3>1, TokensIsLast
    <2>8. f[n+1] = f[n] + Cost(counts[k])
      <3>1. n + 1 \in 1..(n+1) /\ (n + 1) - 1 = n
        OBVIOUS
      <3> QED BY <2>2, <2>3, <3>1 DEF Sums
    <2> QED BY <2>6, <2>7, <2>8 DEF more
  <1> QED BY <1>1, <1>2, <1>3

\* The first k texts, in order
FirstTexts(k) == [i \in 1..k |-> i]

\* The batches that fit
Fitting(counts) == {batch \in Seq(Texts(counts)) : /\ Len(batch) \in 1..BatchSize
                                                   /\ Tokens(counts, batch) <= CtxBudget}

\* The states of PlanBatches' loop
PlanStates(counts) ==
  {p \in [out : Seq(Fitting(counts)), cur : Seq(Texts(counts)), used : Nat] :
     /\ Len(p.cur) <= BatchSize
     /\ p.used = Tokens(counts, p.cur) /\ p.used <= CtxBudget}

\* After k texts
Planned(p, k) == /\ FlattenSeq(p.out) \o p.cur = FirstTexts(k)
                 /\ k # 0 => p.cur # <<>>

\* One more text in order
LEMMA OneMoreText ==
  ASSUME NEW k \in Nat
  PROVE  FirstTexts(k + 1) = Append(FirstTexts(k), k + 1) /\ FirstTexts(k) \in Seq(Nat)
  BY DEF FirstTexts

\* The concatenation of fitting batches is a sequence of texts.
LEMMA FittingFlat ==
  ASSUME NEW counts \in Seq(Nat), NEW out \in Seq(Fitting(counts))
  PROVE  out \in Seq(Seq(Texts(counts))) /\ FlattenSeq(out) \in Seq(Texts(counts))
  <1>1. Fitting(counts) \subseteq Seq(Texts(counts))
    BY DEF Fitting
  <1>2. out \in Seq(Seq(Texts(counts)))
    BY <1>1, SeqMonotonic
  <1> QED BY <1>2, FlattenElements

\* One text more in the open batch, that has room for it
LEMMA PutKeeps ==
  ASSUME tokens \in Seq(Nat), NEW k \in Texts(tokens), NEW out \in Seq(Fitting(tokens)),
         NEW cur \in Seq(Texts(tokens)), NEW used, used = Tokens(tokens, cur),
         Len(cur) < BatchSize, used + Cost(tokens[k]) <= CtxBudget
  PROVE  /\ Put([out |-> out, cur |-> cur, used |-> used], k) \in PlanStates(tokens)
         /\ Append(cur, k) # <<>>
         /\ FlattenSeq(out) \o cur = FirstTexts(k - 1) => FlattenSeq(out) \o Append(cur, k) = FirstTexts(k)
  <1> DEFINE more == Append(cur, k) sum == used + Cost(tokens[k])
  <1>1. Put([out |-> out, cur |-> cur, used |-> used], k) = [out |-> out, cur |-> more, used |-> sum]
    BY DEF Put
  <1>2. more \in Seq(Texts(tokens)) /\ Len(more) = Len(cur) + 1 /\ Len(cur) \in Nat /\ more # <<>>
    BY LenProperties, AppendProperties
  <1>3. tokens[k] \in Nat /\ Cost(tokens[k]) \in Nat /\ k \in Nat /\ k # 0
    BY TextTokens, CostBounded
  <1>4. sum = Tokens(tokens, more) /\ sum \in Nat
    BY <1>3, TokensAdd
  <1>5. BatchSize \in Nat
    BY EmbedAssumption
  <1>6. Len(more) <= BatchSize
    BY <1>2, <1>5
  <1>7. ASSUME FlattenSeq(out) \o cur = FirstTexts(k - 1)
        PROVE  FlattenSeq(out) \o more = FirstTexts(k)
    <2> DEFINE x == FlattenSeq(out)
    <2>1. x \in Seq(Texts(tokens))
      BY FittingFlat
    <2>2. x \o cur = FirstTexts(k - 1)
      BY <1>7
    <2> HIDE DEF x
    <2>3. x \o more = Append(x \o cur, k)
      BY <2>1
    <2>4. k - 1 \in Nat /\ (k - 1) + 1 = k
      BY <1>3
    <2>5. FirstTexts(k) = Append(FirstTexts(k - 1), k)
      BY <2>4, OneMoreText
    <2> QED BY <2>2, <2>3, <2>5 DEF x
  <1> HIDE DEF more, sum
  <1>8. [out |-> out, cur |-> more, used |-> sum] \in PlanStates(tokens)
    BY <1>2, <1>4, <1>6 DEF PlanStates, sum
  <1> QED BY <1>1, <1>2, <1>7, <1>8 DEF more

\* A turn of the loop of PlanBatches
PlanTurn(p, k) == Put(IF Full(p, k) THEN Closed(p) ELSE p, k)

\* Closing the batch that is open keeps the texts in order.
LEMMA CloseKeeps ==
  ASSUME tokens \in Seq(Nat), NEW p \in PlanStates(tokens), p.cur # <<>>
  PROVE  /\ Append(p.out, p.cur) \in Seq(Fitting(tokens))
         /\ FlattenSeq(Append(p.out, p.cur)) = FlattenSeq(p.out) \o p.cur
  <1>1. /\ p.out \in Seq(Fitting(tokens)) /\ p.cur \in Seq(Texts(tokens))
        /\ p.used = Tokens(tokens, p.cur) /\ p.used <= CtxBudget /\ Len(p.cur) <= BatchSize
    BY DEF PlanStates
  <1>2. Len(p.cur) \in Nat \ {0}
    BY <1>1, EmptySeq
  <1>3. Len(p.cur) \in 1..BatchSize
    BY <1>1, <1>2, EmbedAssumption
  <1>4. p.cur \in Fitting(tokens)
    BY <1>1, <1>3 DEF Fitting
  <1>5. Append(p.out, p.cur) \in Seq(Fitting(tokens))
    BY <1>1, <1>4, AppendProperties
  <1>6. p.out \in Seq(Seq(Texts(tokens)))
    BY <1>1, FittingFlat
  <1> QED BY <1>1, <1>5, <1>6, FlattenAppend

\* A turn of the loop keeps its states, and the texts in order.
LEMMA TurnKeeps ==
  ASSUME tokens \in Seq(Nat), NEW k \in Texts(tokens), NEW p \in PlanStates(tokens)
  PROVE  PlanTurn(p, k) \in PlanStates(tokens) /\ (Planned(p, k - 1) => Planned(PlanTurn(p, k), k))
  <1>1. /\ p \in [out : Seq(Fitting(tokens)), cur : Seq(Texts(tokens)), used : Nat]
        /\ p.used = Tokens(tokens, p.cur) /\ p.used <= CtxBudget /\ Len(p.cur) <= BatchSize
    BY DEF PlanStates
  <1>2. PICK out \in Seq(Fitting(tokens)), cur \in Seq(Texts(tokens)), used \in Nat :
          p = [out |-> out, cur |-> cur, used |-> used]
    BY <1>1
  <1>3. p.out = out /\ p.cur = cur /\ p.used = used
    BY <1>2
  <1>4. Len(cur) \in Nat /\ (Len(cur) = 0 <=> cur = <<>>)
    BY LenProperties, EmptySeq
  <1>5. BatchSize \in Nat /\ BatchSize # 0 /\ CtxBudget \in Nat
    BY EmbedAssumption
  <1>6. tokens[k] \in Nat /\ Cost(tokens[k]) \in Nat /\ Cost(tokens[k]) <= CtxBudget
    BY TextTokens, CostBounded
  <1>7. Tokens(tokens, <<>>) = 0
    BY TokensAdd
  <1>8. CASE Full(p, k)
    <2>1. cur # <<>>
      BY <1>3, <1>4, <1>5, <1>8 DEF Full
    <2>2. /\ Append(out, cur) \in Seq(Fitting(tokens))
          /\ FlattenSeq(Append(out, cur)) = FlattenSeq(out) \o cur
      BY <1>3, <2>1, CloseKeeps
    <2>3. PlanTurn(p, k) = Put([out |-> Append(out, cur), cur |-> <<>>, used |-> 0], k)
      BY <1>3, <1>8 DEF PlanTurn, Closed
    <2> DEFINE all == Append(out, cur)
    <2> HIDE DEF all
    <2>4. <<>> \in Seq(Texts(tokens)) /\ Len(<<>>) < BatchSize /\ 0 + Cost(tokens[k]) <= CtxBudget
      BY <1>5, <1>6, EmptySeq
    <2>5. all \in Seq(Fitting(tokens)) /\ 0 = Tokens(tokens, <<>>)
      BY <1>7, <2>2 DEF all
    <2>6. /\ Put([out |-> all, cur |-> <<>>, used |-> 0], k) \in PlanStates(tokens)
          /\ Append(<<>>, k) # <<>>
          /\ FlattenSeq(all) \o <<>> = FirstTexts(k - 1) => FlattenSeq(all) \o Append(<<>>, k) = FirstTexts(k)
      BY <2>4, <2>5, PutKeeps
    <2>7. FlattenSeq(all) \o <<>> = FlattenSeq(out) \o cur
      <3>1. FlattenSeq(all) \in Seq(Texts(tokens))
        BY <2>5, FittingFlat
      <3>2. FlattenSeq(all) \o <<>> = FlattenSeq(all)
        BY <3>1, ConcatEmptySeq
      <3> QED BY <2>2, <3>2 DEF all
    <2>8. Put([out |-> all, cur |-> <<>>, used |-> 0], k) = [out |-> all, cur |-> Append(<<>>, k),
                                                             used |-> 0 + Cost(tokens[k])]
      BY DEF Put
    <2>9. /\ PlanTurn(p, k).out = all /\ PlanTurn(p, k).cur = Append(<<>>, k)
          /\ PlanTurn(p, k) \in PlanStates(tokens)
      <3>1. PlanTurn(p, k) = Put([out |-> all, cur |-> <<>>, used |-> 0], k)
        BY <2>3 DEF all
      <3> QED BY <2>6, <2>8, <3>1
    <2>10. ASSUME Planned(p, k - 1) PROVE Planned(PlanTurn(p, k), k)
      <3>1. FlattenSeq(all) \o <<>> = FirstTexts(k - 1)
        BY <1>3, <2>7, <2>10 DEF Planned
      <3> QED BY <2>6, <2>9, <3>1 DEF Planned
    <2> QED BY <2>9, <2>10
  <1>9. CASE ~Full(p, k)
    <2>1. PlanTurn(p, k) = Put([out |-> out, cur |-> cur, used |-> used], k)
      BY <1>2, <1>9 DEF PlanTurn
    <2>2. Len(cur) < BatchSize
      BY <1>3, <1>4, <1>5, <1>9 DEF Full
    <2>3. used + Cost(tokens[k]) <= CtxBudget
      <3>1. CASE cur = <<>>
        <4>1. used = 0
          BY <1>1, <1>3, <1>7, <3>1
        <4> QED BY <1>5, <1>6, <4>1
      <3>2. CASE cur # <<>>
        <4>1. ~(used + Cost(tokens[k]) > CtxBudget)
          BY <1>3, <1>9, <3>2 DEF Full
        <4> QED BY <1>5, <1>6, <4>1
      <3> QED BY <3>1, <3>2
    <2>4. used = Tokens(tokens, cur)
      BY <1>1, <1>3
    <2>5. /\ Put([out |-> out, cur |-> cur, used |-> used], k) \in PlanStates(tokens)
          /\ Append(cur, k) # <<>>
          /\ FlattenSeq(out) \o cur = FirstTexts(k - 1) => FlattenSeq(out) \o Append(cur, k) = FirstTexts(k)
      BY <2>2, <2>3, <2>4, PutKeeps
    <2>6. Put([out |-> out, cur |-> cur, used |-> used], k) = [out |-> out, cur |-> Append(cur, k),
                                                               used |-> used + Cost(tokens[k])]
      BY DEF Put
    <2>7. /\ PlanTurn(p, k).out = out /\ PlanTurn(p, k).cur = Append(cur, k)
          /\ PlanTurn(p, k) \in PlanStates(tokens)
      BY <2>1, <2>5, <2>6
    <2>8. ASSUME Planned(p, k - 1) PROVE Planned(PlanTurn(p, k), k)
      <3>1. FlattenSeq(out) \o cur = FirstTexts(k - 1)
        BY <1>3, <2>8 DEF Planned
      <3> QED BY <2>5, <2>7, <3>1 DEF Planned
    <2> QED BY <2>7, <2>8
  <1> QED BY <1>8, <1>9

\* PlanBatches sends every text once and in order, in batches that fit.
LEMMA PlanFits ==
  ASSUME tokens \in Seq(Nat)
  PROVE  PlanBatches \in Seq(Fitting(tokens)) /\ FlattenSeq(PlanBatches) = FirstTexts(Len(tokens))
  <1> DEFINE first == [out |-> <<>>, cur |-> <<>>, used |-> 0]
             S == PlanStates(tokens)
             G == [k \in 1..Len(tokens) |-> [p \in S |-> PlanTurn(p, k)]]
  <1>1. PICK n \in Nat : n = Len(tokens)
    BY LenProperties
  <1>2. \A k \in 1..n : k \in Texts(tokens)
    BY <1>1 DEF Texts
  <1>3. first \in S
    <2>1. <<>> \in Seq(Fitting(tokens)) /\ <<>> \in Seq(Texts(tokens)) /\ Len(<<>>) = 0
      BY EmptySeq
    <2>2. Tokens(tokens, <<>>) = 0 /\ BatchSize \in Nat /\ CtxBudget \in Nat
      BY TokensAdd, EmbedAssumption
    <2>3. Len(<<>>) <= BatchSize /\ 0 <= CtxBudget
      BY <2>1, <2>2
    <2> QED BY <2>1, <2>2, <2>3 DEF PlanStates
  <1>4. G \in [1..n -> [S -> S]]
    <2>1. ASSUME NEW k \in 1..n, NEW p \in S PROVE PlanTurn(p, k) \in S
      BY <1>2, TurnKeeps
    <2> HIDE DEF S
    <2> QED BY <1>1, <2>1
  <1>5. \A k \in 1..n : \A p \in S : G[k][p] = PlanTurn(p, k)
    BY <1>1
  <1>6. PICK f \in [0..n -> S] : f[0] = first /\ \A k \in 1..n : f[k] = PlanTurn(f[k-1], k)
    <2> HIDE DEF G, S, first
    <2>1. PICK f \in [0..n -> S] : Recurses(f, first, G, n)
      BY <1>3, <1>4, RecursionExists
    <2>2. ASSUME NEW k \in 1..n PROVE f[k] = PlanTurn(f[k-1], k)
      <3>1. k - 1 \in 0..n
        OBVIOUS
      <3>2. f[k-1] \in S /\ f[k] = G[k][f[k-1]]
        BY <2>1, <3>1 DEF Recurses
      <3> QED BY <1>5, <3>2
    <2>3. f[0] = first
      BY <2>1 DEF Recurses
    <2> QED BY <2>2, <2>3
  <1> HIDE DEF G, first
  <1>7. \A k \in 0..n : f[k] \in S
    OBVIOUS
  <1>8. \A k \in 0..n : Planned(f[k], k)
    <2> DEFINE P == {k \in 0..n : Planned(f[k], k)}
    <2>1. 0 \in P
      <3>1. FlattenSeq(<<>>) \o <<>> = FirstTexts(0)
        BY DEF FlattenSeq, FirstTexts
      <3>2. f[0].out = <<>> /\ f[0].cur = <<>>
        BY <1>6 DEF first
      <3>3. Planned(f[0], 0)
        BY <3>1, <3>2 DEF Planned
      <3> QED BY <3>3
    <2>2. ASSUME NEW k \in 0..(n-1), k \in P PROVE k + 1 \in P
      <3>1. k \in 0..n /\ k + 1 \in 1..n /\ k + 1 \in 0..n /\ (k + 1) - 1 = k /\ Planned(f[k], k)
        BY <2>2
      <3>2. f[k+1] = PlanTurn(f[k], k + 1) /\ f[k] \in S /\ k + 1 \in Texts(tokens)
        BY <1>2, <1>6, <1>7, <3>1
      <3>3. Planned(f[k+1], k + 1)
        BY <3>1, <3>2, TurnKeeps
      <3> QED BY <3>1, <3>3
    <2>3. 0 \in Int /\ n \in Int
      OBVIOUS
    <2>4. \A k \in 0..n : k \in P
      <3> HIDE DEF P
      <3> QED BY <2>1, <2>2, <2>3, IntervalInduction
    <2> QED BY <2>4
  <1>9. PlanBatches = IF f[n].cur = <<>> THEN f[n].out ELSE Append(f[n].out, f[n].cur)
    <2> DEFINE Val(h, k) == IF k = 0 THEN first ELSE PlanTurn(h[k-1], k)
               Is(h) == h = [k \in 0..n |-> Val(h, k)]
               H == CHOOSE h : Is(h)
    <2>1. PlanBatches = IF H[n].cur = <<>> THEN H[n].out ELSE Append(H[n].out, H[n].cur)
      BY <1>1 DEF PlanBatches, PlanTurn, first
    <2>2. ASSUME NEW k \in 0..n PROVE f[k] = Val(f, k)
      BY <1>6
    <2>3. f = [k \in 0..n |-> f[k]]
      OBVIOUS
    <2>4. Is(f)
      <3> HIDE DEF Val
      <3> QED BY <2>2, <2>3
    <2>5. Is(H)
      <3> HIDE DEF Is
      <3> QED BY <2>4
    <2>6. \A k \in 0..n : H[k] = Val(H, k)
      <3> HIDE DEF Val, H
      <3> QED BY <2>5
    <2> HIDE DEF H, Is
    <2>7. f[0] = H[0]
      BY <1>6, <2>6
    <2>8. ASSUME NEW k \in 1..n, f[k-1] = H[k-1] PROVE f[k] = H[k]
      <3>1. k \in 0..n /\ k # 0
        OBVIOUS
      <3>2. H[k] = PlanTurn(H[k-1], k)
        BY <2>6, <3>1
      <3> QED BY <1>6, <2>8, <3>2
    <2>9. \A k \in 0..n : f[k] = H[k]
      <3> HIDE DEF Val, S
      <3>1. Agree(f, H, n)
        BY <2>7, <2>8, RecursionUnique
      <3> QED BY <3>1 DEF Agree
    <2>10. n \in 0..n
      OBVIOUS
    <2> QED BY <2>1, <2>9, <2>10
  <1>10. n \in 0..n /\ f[n] \in S /\ Planned(f[n], n)
    BY <1>7, <1>8
  <1>11. f[n].out \in Seq(Fitting(tokens)) /\ f[n].cur \in Seq(Texts(tokens))
    BY <1>10 DEF PlanStates
  <1>12. CASE f[n].cur = <<>>
    <2>1. FlattenSeq(f[n].out) \in Seq(Texts(tokens))
      BY <1>11, FittingFlat
    <2>2. FlattenSeq(f[n].out) \o <<>> = FlattenSeq(f[n].out)
      BY <2>1, ConcatEmptySeq
    <2> QED BY <1>1, <1>9, <1>10, <1>11, <1>12, <2>2 DEF Planned
  <1>13. CASE f[n].cur # <<>>
    <2>1. /\ Append(f[n].out, f[n].cur) \in Seq(Fitting(tokens))
          /\ FlattenSeq(Append(f[n].out, f[n].cur)) = FlattenSeq(f[n].out) \o f[n].cur
      BY <1>10, <1>13, CloseKeeps
    <2> QED BY <1>1, <1>9, <1>10, <1>13, <2>1 DEF Planned
  <1> QED BY <1>12, <1>13

\* The vectors of a batch were computed from its first texts.
FirstOfBatch(v, batch) == /\ v \in Seq(Nat) /\ Len(v) <= Len(batch)
                          /\ \A j \in 1..Len(v) : v[j] = batch[j]

\* The batches that were answered
Answered == /\ vectors \in Seq(Seq(Nat)) /\ Len(vectors) <= Len(batches)
            /\ \A b \in 1..Len(vectors) : FirstOfBatch(vectors[b], batches[b])

\* The inductive invariant: a vector lands on its chunk because the offsets are those
\* of the texts that were sent, in order, and each vector is of the text at its place.
EmInv ==
  /\ tokens \in Seq(Nat)
  /\ emPc = "plan" => vectors = <<>>
  /\ emPc # "plan" => /\ batches \in Seq(Fitting(tokens))
                      /\ FlattenSeq(batches) = FirstTexts(Len(tokens))
                      /\ Answered
  /\ RowsAligned

\* A text stands in the concatenation of the batches at its own place.
LEMMA OwnPlace ==
  ASSUME NEW counts \in Seq(Nat), NEW bs \in Seq(Fitting(counts)),
         FlattenSeq(bs) = FirstTexts(Len(counts))
  PROVE  \A b \in 1..Len(bs) : /\ Skip(bs, b) \in Nat
                               /\ \A j \in 1..Len(bs[b]) : /\ bs[b][j] = Skip(bs, b) + j
                                                           /\ Skip(bs, b) + j <= Len(counts)
  <1>1. bs \in Seq(Seq(Texts(counts)))
    BY FittingFlat
  <1>2. PICK n \in Nat : n = Len(counts)
    BY LenProperties
  <1>3. Len(FirstTexts(n)) = n /\ \A i \in 1..n : FirstTexts(n)[i] = i
    BY DEF FirstTexts
  <1>4. ASSUME NEW b \in 1..Len(bs)
        PROVE  /\ Skip(bs, b) \in Nat
               /\ \A j \in 1..Len(bs[b]) : /\ Skip(bs, b) + j \in 1..n
                                           /\ FirstTexts(n)[Skip(bs, b) + j] = bs[b][j]
    BY <1>1, <1>2, <1>3, FlattenElements
  <1>5. ASSUME NEW b \in 1..Len(bs), NEW j \in 1..Len(bs[b])
        PROVE  bs[b][j] = Skip(bs, b) + j /\ Skip(bs, b) + j <= n
    BY <1>3, <1>4
  <1> QED BY <1>2, <1>4, <1>5

\* A function on an interval with values in S is a sequence over S.
LEMMA Listed ==
  ASSUME NEW S, NEW m \in Nat, NEW e, e = [j \in 1..m |-> e[j]], \A j \in 1..m : e[j] \in S
  PROVE  e \in Seq(S)
  OBVIOUS

\* Every row Assemble writes has the vector of its chunk.
LEMMA AssembleAligns ==
  ASSUME EmInv, Assemble
  PROVE  RowsAligned'
  <1> DEFINE fits(b)   == {j \in DOMAIN vectors[b] : Offset(b) + j <= Len(tokens)}
             rowsOf(b) == [j \in fits(b) |-> [chunk |-> Offset(b) + j, vector |-> vectors[b][j]]]
             Aligned1 == {r \in [chunk : Nat, vector : Nat] : r.vector = r.chunk}
             all == [b \in DOMAIN batches |-> rowsOf(b)]
  <1>1. /\ tokens \in Seq(Nat) /\ batches \in Seq(Fitting(tokens))
        /\ FlattenSeq(batches) = FirstTexts(Len(tokens)) /\ Answered /\ Len(vectors) = Len(batches)
        /\ embedRows' = FlattenSeq(all)
    BY DEF EmInv, Assemble
  <1>2. PICK n \in Nat : n = Len(batches) /\ DOMAIN batches = 1..n
    BY <1>1, LenProperties
  <1>3. ASSUME NEW b \in 1..n PROVE rowsOf(b) \in Seq(Aligned1)
    <2>1. PICK v \in Seq(Nat) : v = vectors[b]
      BY <1>1, <1>2 DEF Answered, FirstOfBatch
    <2>2. PICK m \in Nat : m = Len(v) /\ DOMAIN v = 1..m
      BY LenProperties
    <2>3. m <= Len(batches[b]) /\ \A j \in 1..m : v[j] = batches[b][j]
      BY <1>1, <1>2, <2>1, <2>2 DEF Answered, FirstOfBatch
    <2>4. Len(batches[b]) \in Nat /\ \A j \in 1..m : j \in 1..Len(batches[b])
      <3>1. batches[b] \in Seq(Texts(tokens))
        BY <1>1, <1>2, ElementOfSeq DEF Fitting
      <3>2. Len(batches[b]) \in Nat
        BY <3>1, LenProperties
      <3> QED BY <2>3, <3>2
    <2>5. PICK o \in Nat : o = Offset(b)
      BY <1>1, <1>2, OwnPlace DEF Offset, Skip
    <2>6. \A j \in 1..m : v[j] = o + j /\ o + j <= Len(tokens)
      <3>1. \A j \in 1..Len(batches[b]) : batches[b][j] = o + j /\ o + j <= Len(tokens)
        BY <1>1, <1>2, <2>5, OwnPlace DEF Offset, Skip
      <3> QED BY <2>3, <2>4, <3>1
    <2>7. rowsOf(b) = [j \in 1..m |-> [chunk |-> o + j, vector |-> o + j]]
      <3>1. fits(b) = 1..m
        BY <2>1, <2>2, <2>5, <2>6
      <3> HIDE DEF fits
      <3>2. rowsOf(b) = [j \in 1..m |-> [chunk |-> o + j, vector |-> v[j]]]
        BY <2>1, <2>5, <3>1
      <3> QED BY <2>6, <3>2
    <2> DEFINE e == [j \in 1..m |-> [chunk |-> o + j, vector |-> o + j]]
    <2>8. e = [j \in 1..m |-> e[j]] /\ \A j \in 1..m : e[j] \in Aligned1
      OBVIOUS
    <2> HIDE DEF Aligned1, e
    <2>9. e \in Seq(Aligned1)
      BY <2>8, Listed
    <2> QED BY <2>7, <2>9 DEF e
  <1>4. all \in Seq(Seq(Aligned1))
    <2> HIDE DEF rowsOf, Aligned1
    <2>1. all = [b \in 1..n |-> rowsOf(b)]
      BY <1>2
    <2> DEFINE S == Seq(Aligned1)
    <2>2. \A b \in 1..n : rowsOf(b) \in S
      BY <1>3
    <2> HIDE DEF S
    <2> DEFINE e == [b \in 1..n |-> rowsOf(b)]
    <2>3. e = [b \in 1..n |-> e[b]] /\ \A b \in 1..n : e[b] \in S
      BY <2>2
    <2> HIDE DEF e
    <2>4. e \in Seq(S)
      BY <2>3, Listed
    <2> QED BY <2>1, <2>4 DEF S, e
  <1> HIDE DEF all
  <1>5. embedRows' \in Seq(Aligned1)
    <2> HIDE DEF Aligned1
    <2> QED BY <1>1, <1>4, FlattenElements
  <1>6. \A i \in DOMAIN embedRows' : embedRows'[i] \in Aligned1
    <2> HIDE DEF Aligned1
    <2> QED BY <1>5, LenProperties, ElementOfSeq
  <1> QED BY <1>6 DEF RowsAligned

\* The next answer is of the batch that was asked for.
LEMMA EmbeddedKeeps ==
  ASSUME EmInv, NEW n \in 0..BatchSize, Embedded(n)
  PROVE  Answered'
  <1>1. /\ batches \in Seq(Fitting(tokens)) /\ Answered /\ Len(vectors) < Len(batches) /\ n <= Len(Current)
        /\ vectors' = Append(vectors, SubSeq(Current, 1, n)) /\ batches' = batches
    BY DEF EmInv, Embedded
  <1>2. PICK m \in Nat : m = Len(vectors)
    BY <1>1, LenProperties DEF Answered
  <1>3. Len(batches) \in Nat /\ m + 1 \in 1..Len(batches)
    BY <1>1, <1>2, LenProperties
  <1>4. PICK c \in Seq(Texts(tokens)) : c = batches[m + 1] /\ c = Current
    BY <1>1, <1>2, <1>3, ElementOfSeq DEF Fitting, Current
  <1>5. Len(c) \in Nat /\ n \in Nat /\ n <= Len(c) /\ \A i \in 1..Len(c) : c[i] \in Nat
    BY <1>1, <1>4, LenProperties, ElementOfSeq, EmbedAssumption DEF Texts
  <1> DEFINE v == SubSeq(c, 1, n)
  <1>6. v \in Seq(Nat) /\ Len(v) = n /\ \A j \in 1..n : v[j] = c[j]
    BY <1>5, SubSeqProperties
  <1>7. FirstOfBatch(v, c)
    BY <1>5, <1>6 DEF FirstOfBatch
  <1> HIDE DEF v
  <1> DEFINE S == Seq(Nat)
             w == Append(vectors, v)
  <1>8. vectors \in Seq(S) /\ v \in S
    BY <1>1, <1>6 DEF Answered
  <1>9. /\ w \in Seq(S) /\ Len(w) = m + 1
        /\ w[m+1] = v /\ \A b \in 1..m : w[b] = vectors[b]
    <2> HIDE DEF S
    <2> QED BY <1>2, <1>8, AppendProperties
  <1>10. vectors' = w
    BY <1>1, <1>4 DEF v
  <1> HIDE DEF w
  <1>11. ASSUME NEW b \in 1..(m+1) PROVE FirstOfBatch(w[b], batches[b])
    <2>1. CASE b = m + 1
      BY <1>4, <1>7, <1>9, <2>1
    <2>2. CASE b # m + 1
      <3>1. b \in 1..m
        BY <2>2
      <3> QED BY <1>1, <1>2, <1>9, <3>1 DEF Answered
    <2> QED BY <2>1, <2>2
  <1>12. w \in Seq(Seq(Nat)) /\ Len(w) <= Len(batches)
    BY <1>3, <1>9
  <1>13. \A b \in 1..Len(w) : FirstOfBatch(w[b], batches[b])
    BY <1>9, <1>11
  <1> QED BY <1>1, <1>10, <1>12, <1>13 DEF Answered


\* The invariant holds before the first batch is planned.
LEMMA EmInitial == EmInit => EmInv
  BY EmbedAssumption DEF EmInit, Given, EmInv, RowsAligned

\* Every step of the job keeps it.
LEMMA EmStep == EmInv /\ [EmNext]_emvars => EmInv'
  <1> SUFFICES ASSUME EmInv, [EmNext]_emvars PROVE EmInv'
    OBVIOUS
  <1>1. CASE Plan
    <2>1. tokens \in Seq(Nat) /\ vectors = <<>>
      BY <1>1 DEF EmInv, Plan
    <2>2. PlanBatches \in Seq(Fitting(tokens)) /\ FlattenSeq(PlanBatches) = FirstTexts(Len(tokens))
      BY <2>1, PlanFits
    <2>3. batches' = PlanBatches /\ vectors' = <<>> /\ tokens' = tokens /\ embedRows' = embedRows
      BY <1>1, <2>1 DEF Plan
    <2>4. batches' \in Seq(Fitting(tokens')) /\ Len(batches') \in Nat
      BY <2>2, <2>3, LenProperties
    <2>5. Answered'
      BY <2>3, <2>4 DEF Answered
    <2>6. RowsAligned'
      BY <2>3 DEF EmInv, RowsAligned
    <2>7. emPc' = "request"
      BY <1>1 DEF Plan
    <2> QED BY <2>1, <2>2, <2>3, <2>4, <2>5, <2>6, <2>7 DEF EmInv
  <1>2. ASSUME NEW n \in 0..BatchSize, Embedded(n) PROVE EmInv'
    <2>1. Answered'
      BY <1>2, EmbeddedKeeps
    <2>2. /\ emPc = "request" /\ emPc' = "request"
          /\ tokens' = tokens /\ batches' = batches /\ embedRows' = embedRows
      BY <1>2 DEF Embedded
    <2>3. RowsAligned'
      BY <2>2 DEF EmInv, RowsAligned
    <2> QED BY <2>1, <2>2, <2>3 DEF EmInv
  <1>3. ASSUME Busy \/ Rejected \/ UNCHANGED emvars PROVE EmInv'
    <2>1. /\ tokens' = tokens /\ batches' = batches /\ vectors' = vectors /\ embedRows' = embedRows
          /\ (emPc' = "plan" <=> emPc = "plan")
      BY <1>3 DEF Busy, Rejected, emvars
    <2>2. RowsAligned' /\ (Answered => Answered')
      BY <2>1 DEF EmInv, RowsAligned, Answered
    <2> QED BY <2>1, <2>2 DEF EmInv
  <1>4. CASE Assemble
    <2>1. RowsAligned'
      BY <1>4, AssembleAligns
    <2>2. /\ emPc = "request" /\ emPc' = "rows"
          /\ tokens' = tokens /\ batches' = batches /\ vectors' = vectors
      BY <1>4 DEF Assemble
    <2>3. Answered => Answered'
      BY <2>2 DEF Answered
    <2> QED BY <2>1, <2>2, <2>3 DEF EmInv
  <1> QED BY <1>1, <1>2, <1>3, <1>4 DEF EmNext

\* However the backend answers, drops or refuses batches: no vector is stored with the
\* chunk of another text.
THEOREM VectorsLandOnTheirChunks == EmSpec => []RowsAligned
  <1>1. EmInv => RowsAligned
    BY DEF EmInv
  <1> QED BY EmInitial, EmStep, <1>1, PTL DEF EmSpec

\* A batch of Fitting keeps both limits.
LEMMA TokensOfBatch ==
  ASSUME NEW counts \in Seq(Nat), NEW b \in Fitting(counts)
  PROVE  Len(b) \in 1..BatchSize /\ Tokens(counts, b) <= CtxBudget
  BY DEF Fitting

\* For any texts and budgets, the planner sends each text once, in order, in batches
\* that are not empty, not over the batch size and not over the token budget.
THEOREM BatchesFitTheBudget == EmSpec => []BatchesFit
  <1>1. EmInv => BatchesFit
    <2> SUFFICES ASSUME EmInv, emPc # "plan" PROVE BatchesFit
      BY DEF BatchesFit
    <2>1. /\ tokens \in Seq(Nat) /\ batches \in Seq(Fitting(tokens))
          /\ FlattenSeq(batches) = FirstTexts(Len(tokens))
      BY DEF EmInv
    <2>2. DOMAIN tokens = 1..Len(tokens)
      BY <2>1, LenProperties
    <2>3. FlattenSeq(batches) = [k \in DOMAIN tokens |-> k]
      BY <2>1, <2>2 DEF FirstTexts
    <2>4. ASSUME NEW b \in DOMAIN batches
          PROVE  Len(batches[b]) \in 1..BatchSize /\ Tokens(tokens, batches[b]) <= CtxBudget
      <3>1. batches[b] \in Fitting(tokens)
        <4> DEFINE F == Fitting(tokens)
        <4>1. batches \in Seq(F)
          BY <2>1
        <4> HIDE DEF F
        <4>2. batches[b] \in F
          BY <2>4, <4>1, LenProperties, ElementOfSeq
        <4> QED BY <4>2 DEF F
      <3> QED BY <2>1, <3>1, TokensOfBatch
    <2> QED BY <2>3, <2>4 DEF BatchesFit
  <1> QED BY EmInitial, EmStep, <1>1, PTL DEF EmSpec

-----------------------------------------------------------------------------
(***************************************************************************)
(* Search.  First what a limit leaves of ranked rows, then the invariant of *)
(* one search, then what each of its steps and each change under it does.   *)
(***************************************************************************)

\* R orders S strictly.
Ordered(S, R) ==
  /\ \A x \in S : <<x, x>> \notin R
  /\ \A x, y, z \in S : <<x, y>> \in R /\ <<y, z>> \in R => <<x, z>> \in R
  /\ \A x, y \in S : x # y => <<x, y>> \in R \/ <<y, x>> \in R

\* What stands before x in S, and how much that is
Preceding(S, R, x) == {y \in S : <<y, x>> \in R}
Place(S, R, x) == Cardinality(Preceding(S, R, x))

\* In a finite ordered set every place below its size is taken once.
LEMMA PlacesTaken ==
  ASSUME NEW S, IsFiniteSet(S), NEW R, Ordered(S, R)
  PROVE  /\ Cardinality(S) \in Nat
         /\ \A x \in S : Place(S, R, x) \in 0..(Cardinality(S)-1)
         /\ \A x, y \in S : Place(S, R, x) = Place(S, R, y) => x = y
         /\ \A i \in 0..(Cardinality(S)-1) : \E x \in S : Place(S, R, x) = i
  <1>1. PICK n \in Nat : n = Cardinality(S)
    BY FS_CardinalityType
  <1>2. ASSUME NEW x \in S
        PROVE  /\ IsFiniteSet(Preceding(S, R, x)) /\ Place(S, R, x) \in 0..(n-1)
    <2>1. Preceding(S, R, x) \in SUBSET S /\ Preceding(S, R, x) # S
      BY DEF Ordered, Preceding
    <2>2. /\ IsFiniteSet(Preceding(S, R, x)) /\ Place(S, R, x) \in Nat
          /\ Place(S, R, x) <= n /\ Place(S, R, x) # n
      <3>1. IsFiniteSet(Preceding(S, R, x))
        BY <2>1, FS_Subset
      <3>2. Cardinality(Preceding(S, R, x)) \in Nat
        BY <3>1, FS_CardinalityType
      <3>3. /\ Cardinality(Preceding(S, R, x)) <= Cardinality(S)
            /\ Cardinality(Preceding(S, R, x)) # Cardinality(S)
        BY <2>1, FS_Subset
      <3> QED BY <1>1, <3>1, <3>2, <3>3 DEF Place
    <2> QED BY <1>1, <2>2
  <1>3. ASSUME NEW x \in S, NEW y \in S, <<x, y>> \in R PROVE Place(S, R, x) < Place(S, R, y)
    <2>1. Preceding(S, R, x) \in SUBSET Preceding(S, R, y) /\ x \in Preceding(S, R, y)
          /\ x \notin Preceding(S, R, x)
      BY <1>3 DEF Ordered, Preceding
    <2>2. /\ Cardinality(Preceding(S, R, x)) <= Cardinality(Preceding(S, R, y))
          /\ Cardinality(Preceding(S, R, x)) # Cardinality(Preceding(S, R, y))
      BY <1>2, <2>1, FS_Subset
    <2>3. Place(S, R, x) \in Nat /\ Place(S, R, y) \in Nat
      BY <1>1, <1>2
    <2> QED BY <2>2, <2>3 DEF Place
  <1>4. ASSUME NEW x \in S, NEW y \in S, x # y PROVE Place(S, R, x) # Place(S, R, y)
    <2>1. Place(S, R, x) \in Nat /\ Place(S, R, y) \in Nat
      BY <1>1, <1>2
    <2>2. Place(S, R, x) < Place(S, R, y) \/ Place(S, R, y) < Place(S, R, x)
      BY <1>3, <1>4 DEF Ordered
    <2> QED BY <2>1, <2>2
  <1> DEFINE T == 0..(n-1)
             f == [x \in S |-> Place(S, R, x)]
  <1>5. IsFiniteSet(T) /\ Cardinality(T) = n
    <2>1. 0 \in Int /\ n - 1 \in Int
      BY <1>1
    <2>2. IsFiniteSet(0..(n-1)) /\ Cardinality(0..(n-1)) = IF 0 > n - 1 THEN 0 ELSE (n - 1) - 0 + 1
      BY <2>1, FS_Interval
    <2> QED BY <1>1, <2>2
  <1>6. f \in Injection(S, T)
    BY <1>2, <1>4 DEF Injection, IsInjective
  <1>7. f \in Surjection(S, T)
    <2> HIDE DEF f, T
    <2> QED BY <1>1, <1>5, <1>6, FS_Injection
  <1>8. \A i \in T : \E x \in S : Place(S, R, x) = i
    <2>1. \A i \in T : \E x \in S : f[x] = i
      BY <1>7 DEF Surjection
    <2> QED BY <2>1
  <1> QED BY <1>1, <1>2, <1>4, <1>8

\* The first n of an ordered set
First(S, R, n) == {x \in S : Place(S, R, x) < n}

\* They are all of it, or n of it.
LEMMA FirstHas ==
  ASSUME NEW S, IsFiniteSet(S), NEW R, Ordered(S, R), NEW n \in Nat
  PROVE  /\ IsFiniteSet(First(S, R, n))
         /\ Cardinality(S) <= n => First(S, R, n) = S
         /\ Cardinality(First(S, R, n)) = IF Cardinality(S) <= n THEN Cardinality(S) ELSE n
  <1>1. PICK m \in Nat : m = Cardinality(S)
    BY FS_CardinalityType
  <1>2. /\ \A x \in S : Place(S, R, x) \in 0..(m-1)
        /\ \A x, y \in S : Place(S, R, x) = Place(S, R, y) => x = y
        /\ \A i \in 0..(m-1) : \E x \in S : Place(S, R, x) = i
    BY <1>1, PlacesTaken
  <1>3. IsFiniteSet(First(S, R, n))
    BY FS_Subset DEF First
  <1>4. ASSUME m <= n PROVE First(S, R, n) = S
    <2>1. ASSUME NEW x \in S PROVE Place(S, R, x) < n
      <3>1. Place(S, R, x) \in 0..(m-1)
        BY <1>2
      <3> QED BY <1>4, <3>1
    <2> QED BY <2>1 DEF First
  <1>5. ASSUME ~(m <= n) PROVE Cardinality(First(S, R, n)) = n
    <2> DEFINE T == 0..(n-1)
               A == First(S, R, n)
               f == [x \in A |-> Place(S, R, x)]
    <2>1. IsFiniteSet(T) /\ Cardinality(T) = n
      <3>1. 0 \in Int /\ n - 1 \in Int
        OBVIOUS
      <3>2. IsFiniteSet(0..(n-1)) /\ Cardinality(0..(n-1)) = IF 0 > n - 1 THEN 0 ELSE (n - 1) - 0 + 1
        BY <3>1, FS_Interval
      <3> QED BY <3>2
    <2>2. f \in Injection(A, T)
      <3>1. \A x \in A : x \in S /\ Place(S, R, x) \in T
        <4>1. ASSUME NEW x \in A PROVE x \in S /\ Place(S, R, x) \in T
          <5>1. x \in S /\ Place(S, R, x) < n
            BY DEF First
          <5>2. Place(S, R, x) \in 0..(m-1)
            BY <1>2, <5>1
          <5> QED BY <5>1, <5>2
        <4> QED BY <4>1
      <3>2. f \in [A -> T]
        BY <3>1
      <3>3. \A x, y \in A : f[x] = f[y] => x = y
        BY <1>2, <3>1
      <3> QED BY <3>2, <3>3 DEF Injection, IsInjective
    <2>3. f \in Surjection(A, T)
      <3>1. \A i \in T : \E x \in A : f[x] = i
        <4>1. ASSUME NEW i \in T PROVE \E x \in A : f[x] = i
          <5>1. i \in 0..(m-1) /\ i < n
            BY <1>5
          <5>2. PICK x \in S : Place(S, R, x) = i
            BY <1>2, <5>1
          <5>3. x \in A
            BY <5>1, <5>2 DEF First
          <5> QED BY <5>2, <5>3
        <4> QED BY <4>1
      <3>2. f \in [A -> T]
        BY <2>2 DEF Injection
      <3> QED BY <3>1, <3>2 DEF Surjection
    <2> HIDE DEF T, f
    <2> QED BY <2>1, <2>2, <2>3, FS_Injection
  <1> QED BY <1>1, <1>3, <1>4, <1>5

IdsOf(rows) == {r.id : r \in rows}

\* Rows with a rank of their own
Rankable(rows, rank) == /\ IsFiniteSet(rows) /\ \A r \in rows : r[rank] \in Nat
                        /\ \A r, s \in rows : r # s => r[rank] # s[rank]

\* The limit keeps all rows, or as many as it says.
LEMMA TopHas ==
  ASSUME NEW rows, NEW rank, Rankable(rows, rank), NEW n \in Nat
  PROVE  /\ IsFiniteSet(Top(rows, rank, n))
         /\ Cardinality(rows) <= n => Top(rows, rank, n) = rows
         /\ Cardinality(Top(rows, rank, n)) = IF Cardinality(rows) <= n THEN Cardinality(rows) ELSE n
         /\ Cardinality(rows) \in Nat
         /\ \A r \in rows : Before(rows, rank, r) \in 0..(Cardinality(rows)-1)
         /\ \A r, s \in rows : Before(rows, rank, r) = Before(rows, rank, s) => r = s
         /\ \A i \in 0..(Cardinality(rows)-1) : \E r \in rows : Before(rows, rank, r) = i
  <1> DEFINE R == {p \in rows \X rows : p[1][rank] < p[2][rank]}
  <1>1. \A r, s \in rows : <<r, s>> \in R <=> r[rank] < s[rank]
    OBVIOUS
  <1> HIDE DEF R
  <1>2. Ordered(rows, R)
    <2>1. \A r, s \in rows : r # s => r[rank] < s[rank] \/ s[rank] < r[rank]
      BY DEF Rankable
    <2>2. \A r, s, t \in rows : r[rank] < s[rank] /\ s[rank] < t[rank] => r[rank] < t[rank]
      BY DEF Rankable
    <2>3. \A r \in rows : ~(r[rank] < r[rank])
      BY DEF Rankable
    <2> QED BY <1>1, <2>1, <2>2, <2>3 DEF Ordered
  <1>3. \A r \in rows : Before(rows, rank, r) = Place(rows, R, r)
    <2>1. ASSUME NEW r \in rows PROVE {s \in rows : s[rank] < r[rank]} = Preceding(rows, R, r)
      BY <1>1 DEF Preceding
    <2> QED BY <2>1 DEF Before, Place
  <1>4. Top(rows, rank, n) = First(rows, R, n)
    BY <1>3 DEF Top, First
  <1>5. IsFiniteSet(rows)
    BY DEF Rankable
  <1>6. /\ IsFiniteSet(First(rows, R, n))
        /\ Cardinality(rows) <= n => First(rows, R, n) = rows
        /\ Cardinality(First(rows, R, n)) = IF Cardinality(rows) <= n THEN Cardinality(rows) ELSE n
    BY <1>2, <1>5, FirstHas
  <1>7. /\ Cardinality(rows) \in Nat
        /\ \A r \in rows : Place(rows, R, r) \in 0..(Cardinality(rows)-1)
        /\ \A r, s \in rows : Place(rows, R, r) = Place(rows, R, s) => r = s
        /\ \A i \in 0..(Cardinality(rows)-1) : \E r \in rows : Place(rows, R, r) = i
    BY <1>2, <1>5, PlacesTaken
  <1> QED BY <1>3, <1>4, <1>6, <1>7

\* A leg returns the ids of its first n rows.
LEMMA LegFinds ==
  ASSUME NEW rows, NEW rank, Rankable(rows, rank), NEW n \in Nat, NEW weight
  PROVE  /\ Leg(rows, rank, n, weight).ids \in Seq(IdsOf(rows))
         /\ ToSet(Leg(rows, rank, n, weight).ids) = IdsOf(Top(rows, rank, n))
  <1> DEFINE ids == Leg(rows, rank, n, weight).ids
             T   == Top(rows, rank, n)
             at(i) == CHOOSE r \in rows : Before(rows, rank, r) = i - 1
  <1>1. PICK m \in Nat : m = Cardinality(rows)
    BY TopHas
  <1>2. PICK t \in Nat : t = Cardinality(T) /\ t = IF m <= n THEN m ELSE n
    BY <1>1, TopHas
  <1>3. ids = [i \in 1..t |-> at(i).id]
    BY <1>2 DEF Leg
  <1> HIDE DEF T, ids
  <1>4. ASSUME NEW i \in 1..t
        PROVE  at(i) \in rows /\ Before(rows, rank, at(i)) = i - 1 /\ at(i) \in T
    <2>1. i - 1 \in 0..(m-1) /\ i - 1 < n
      BY <1>2
    <2>2. \E r \in rows : Before(rows, rank, r) = i - 1
      BY <1>1, <2>1, TopHas
    <2>3. at(i) \in rows /\ Before(rows, rank, at(i)) = i - 1
      BY <2>2
    <2> QED BY <2>1, <2>3 DEF T, Top
  <1>5. ASSUME NEW r \in T PROVE \E i \in 1..t : at(i) = r
    <2>1. r \in rows /\ Before(rows, rank, r) < n
      BY DEF T, Top
    <2>2. PICK b \in 0..(m-1) : b = Before(rows, rank, r)
      BY <1>1, <2>1, TopHas
    <2>3. b + 1 \in 1..t /\ (b + 1) - 1 = b
      BY <1>2, <2>1, <2>2
    <2>4. at(b+1) \in rows /\ Before(rows, rank, at(b+1)) = b
      BY <1>4, <2>3
    <2>5. at(b+1) = r
      BY <2>1, <2>2, <2>4, TopHas
    <2> QED BY <2>3, <2>5
  <1> HIDE DEF at
  <1>6. ids \in Seq(IdsOf(rows))
    <2>1. ids = [i \in 1..t |-> ids[i]] /\ \A i \in 1..t : ids[i] \in IdsOf(rows)
      BY <1>3, <1>4 DEF IdsOf
    <2> QED BY <2>1, Listed
  <1>7. ToSet(ids) = {at(i).id : i \in 1..t}
    <2>1. ToSet(ids) = {ids[i] : i \in DOMAIN ids}
      BY DEF ToSet
    <2> QED BY <1>3, <2>1
  <1>8. {at(i).id : i \in 1..t} = IdsOf(T)
    BY <1>4, <1>5 DEF IdsOf
  <1> QED BY <1>6, <1>7, <1>8 DEF ids, T

\* A page of the members of S: each at most once, and n of them or all.
Distinct(p) == \A i, j \in DOMAIN p : i # j => p[i] # p[j]
Paged(p, S, n) == /\ p \in Seq(S) /\ Distinct(p)
                  /\ Len(p) = IF Cardinality(S) <= n THEN Cardinality(S) ELSE n

\* Min of two numbers
LEMMA MinOfTwo ==
  ASSUME NEW a \in Nat, NEW b \in Nat
  PROVE  Min({a, b}) = IF a <= b THEN a ELSE b
  <1> DEFINE m == IF a <= b THEN a ELSE b
  <1>1. m \in {a, b} /\ \A y \in {a, b} : m <= y
    OBVIOUS
  <1>2. \A x \in {a, b} : (\A y \in {a, b} : x <= y) => x = m
    OBVIOUS
  <1> HIDE DEF m
  <1>3. Min({a, b}) = m
    BY <1>1, <1>2 DEF Min
  <1> QED BY <1>3 DEF m

\* The first k of a sequence without repetition
LEMMA CutShort ==
  ASSUME NEW S, NEW p \in Seq(S), Distinct(p), NEW k \in Nat
  PROVE  /\ SubSeq(p, 1, Min({k, Len(p)})) \in Seq(S)
         /\ Distinct(SubSeq(p, 1, Min({k, Len(p)})))
         /\ Len(SubSeq(p, 1, Min({k, Len(p)}))) = IF k <= Len(p) THEN k ELSE Len(p)
  <1>1. PICK n \in Nat : n = Len(p) /\ DOMAIN p = 1..n
    BY LenProperties
  <1>2. PICK m \in Nat : m = Min({k, n}) /\ m = IF k <= n THEN k ELSE n
    BY MinOfTwo
  <1> DEFINE c == SubSeq(p, 1, m)
  <1>3. m <= n
    BY <1>2
  <1>4. 1 \in 1..(n+1) /\ m \in 0..n
    BY <1>3
  <1>5. c \in Seq(S) /\ Len(c) = m /\ \A i \in 1..m : c[i] = p[i]
    <2>1. 1 \in 1..(Len(p)+1) /\ m \in (1-1)..Len(p)
      BY <1>1, <1>4
    <2> QED BY <2>1, SubSeqProperties
  <1>6. DOMAIN c = 1..m
    BY <1>5, LenProperties
  <1> HIDE DEF c
  <1>7. Distinct(c)
    <2>1. \A i \in 1..m : i \in 1..n
      BY <1>3
    <2> QED BY <1>1, <1>5, <1>6, <2>1 DEF Distinct
  <1> QED BY <1>1, <1>2, <1>5, <1>7 DEF c

\* What the fusion keeps of the legs is a page of what they found.
LEMMA FusedIsPaged ==
  ASSUME NEW legs, IsFiniteSet(Found(legs)), NEW p \in Rankings(legs), NEW n \in Nat
  PROVE  Paged(SubSeq(p, 1, Min({n, Len(p)})), Found(legs), n)
  <1> DEFINE S == Found(legs)
  <1>1. PICK m \in Nat : m = Cardinality(S)
    BY FS_CardinalityType
  <1>2. p \in [1..m -> S] /\ Distinct(p)
    BY <1>1 DEF Rankings, Distinct
  <1> HIDE DEF S
  <1>3. p \in Seq(S) /\ Len(p) = m
    BY <1>2
  <1>4. /\ SubSeq(p, 1, Min({n, Len(p)})) \in Seq(S)
        /\ Distinct(SubSeq(p, 1, Min({n, Len(p)})))
        /\ Len(SubSeq(p, 1, Min({n, Len(p)}))) = IF n <= Len(p) THEN n ELSE Len(p)
    BY <1>2, <1>3, CutShort
  <1>5. Len(SubSeq(p, 1, Min({n, Len(p)}))) = IF m <= n THEN m ELSE n
    BY <1>3, <1>4
  <1>6. Paged(SubSeq(p, 1, Min({n, Len(p)})), S, n)
    BY <1>1, <1>4, <1>5 DEF Paged
  <1> QED BY <1>6 DEF S

\* The page a request is cut down to
LEMMA CutIsPaged ==
  ASSUME NEW S, IsFiniteSet(S), NEW n \in Nat, NEW p, Paged(p, S, n), NEW k \in Nat, k <= n
  PROVE  Paged(SubSeq(p, 1, Min({k, Len(p)})), S, k)
  <1>1. PICK m \in Nat : m = Cardinality(S)
    BY FS_CardinalityType
  <1>2. p \in Seq(S) /\ Distinct(p) /\ Len(p) = IF m <= n THEN m ELSE n
    BY <1>1 DEF Paged
  <1>3. /\ SubSeq(p, 1, Min({k, Len(p)})) \in Seq(S)
        /\ Distinct(SubSeq(p, 1, Min({k, Len(p)})))
        /\ Len(SubSeq(p, 1, Min({k, Len(p)}))) = IF k <= Len(p) THEN k ELSE Len(p)
    BY <1>2, CutShort
  <1>4. Len(SubSeq(p, 1, Min({k, Len(p)}))) = IF m <= k THEN m ELSE k
    BY <1>2, <1>3
  <1> QED BY <1>1, <1>3, <1>4 DEF Paged

\* Ranking anew by score moves the hits of a pool and loses none.
LEMMA ScoredIsPaged ==
  ASSUME NEW S, NEW n, NEW p, Paged(p, S, n), NEW m \in Nat, NEW scores \in [1..m -> {0, 1}]
  PROVE  Paged(Scored(p, scores), S, n)
  <1> DEFINE score(i)     == IF i \in DOMAIN scores THEN scores[i] ELSE 0
             before(i, j) == score(i) > score(j) \/ (score(i) = score(j) /\ i < j)
             place(i)     == Cardinality({j \in DOMAIN p : before(j, i)})
             at(k)        == CHOOSE i \in DOMAIN p : place(i) = k - 1
  <1>1. p \in Seq(S) /\ Distinct(p)
    BY DEF Paged
  <1>2. PICK l \in Nat : l = Len(p) /\ DOMAIN p = 1..l
    BY <1>1, LenProperties
  <1> DEFINE I == 1..l
             R == {x \in I \X I : before(x[1], x[2])}
  <1>3. \A i \in I : score(i) \in {0, 1}
    OBVIOUS
  <1> HIDE DEF score
  <1>4. \A i, j \in I : <<i, j>> \in R <=> before(i, j)
    OBVIOUS
  <1> HIDE DEF R
  <1>5. Ordered(I, R)
    <2>1. \A i \in I : ~before(i, i)
      BY <1>3
    <2>2. \A i, j \in I : i # j => before(i, j) \/ before(j, i)
      BY <1>3
    <2>3. \A i, j, k \in I : before(i, j) /\ before(j, k) => before(i, k)
      BY <1>3
    <2> HIDE DEF before
    <2> QED BY <1>4, <2>1, <2>2, <2>3 DEF Ordered
  <1> HIDE DEF before
  <1>6. \A i \in I : place(i) = Place(I, R, i)
    <2>1. ASSUME NEW i \in I PROVE {j \in DOMAIN p : before(j, i)} = Preceding(I, R, i)
      BY <1>2, <1>4 DEF Preceding
    <2> QED BY <2>1 DEF Place
  <1> HIDE DEF place
  <1>7. IsFiniteSet(I) /\ Cardinality(I) = l
    <2>1. 1 \in Int /\ l \in Int
      OBVIOUS
    <2>2. IsFiniteSet(1..l) /\ Cardinality(1..l) = IF 1 > l THEN 0 ELSE l - 1 + 1
      BY <2>1, FS_Interval
    <2> QED BY <2>2
  <1>8. \A k \in 0..(l-1) : \E i \in I : place(i) = k
    <2>1. \A k \in 0..(Cardinality(I)-1) : \E i \in I : Place(I, R, i) = k
      BY <1>5, <1>7, PlacesTaken
    <2> QED BY <1>6, <1>7, <2>1
  <1>9. ASSUME NEW k \in I PROVE at(k) \in I /\ place(at(k)) = k - 1
    <2>1. k - 1 \in 0..(l-1)
      OBVIOUS
    <2>2. \E i \in I : place(i) = k - 1
      BY <1>8, <2>1
    <2> QED BY <1>2, <2>2
  <1>10. \A j, k \in I : j # k => at(j) # at(k)
    BY <1>9
  <1>11. Scored(p, scores) = [k \in I |-> p[at(k)]]
    BY <1>2 DEF Scored, at, place, before, score
  <1> HIDE DEF at
  <1> DEFINE q == [k \in I |-> p[at(k)]]
  <1>12. \A k \in I : q[k] \in S
    <2>1. \A i \in I : p[i] \in S
      BY <1>1, <1>2, ElementOfSeq
    <2> QED BY <1>9, <2>1
  <1>13. q = [k \in I |-> q[k]] /\ DOMAIN q = I /\ Distinct(q)
    BY <1>1, <1>2, <1>9, <1>10 DEF Distinct
  <1> HIDE DEF q
  <1>14. q \in Seq(S)
    BY <1>12, <1>13, Listed
  <1>15. Len(q) = l
    BY <1>13, <1>14, LenProperties
  <1> QED BY <1>2, <1>11, <1>13, <1>14, <1>15 DEF Paged, q

\* A page without repetition has as many members as places.
LEMMA PageSize ==
  ASSUME NEW S, NEW p \in Seq(S), Distinct(p)
  PROVE  Cardinality(ToSet(p)) = Len(p)
  <1>1. PICK l \in Nat : l = Len(p) /\ DOMAIN p = 1..l
    BY LenProperties
  <1>2. p \in [1..l -> ToSet(p)]
    BY <1>1 DEF ToSet
  <1>3. p \in Bijection(1..l, ToSet(p))
    <2>1. p \in Injection(1..l, ToSet(p))
      BY <1>1, <1>2 DEF Injection, IsInjective, Distinct
    <2>2. \A x \in ToSet(p) : \E i \in 1..l : p[i] = x
      BY <1>1 DEF ToSet
    <2> QED BY <1>2, <2>1, <2>2 DEF Surjection, Bijection
  <1>4. ExistsBijection(1..l, ToSet(p))
    BY <1>3 DEF ExistsBijection
  <1> QED BY <1>1, <1>4, FS_CountingElements

\* The collections a search is about: in the scope of the key and among its targets
InReach(q) == {c \in Targets(q) : InScopeOf(q, c)}

\* The chunks a hit may be
Answers(q) == {r \in SeCorpus : InScopeOf(q, r.col) /\ (InReach(q) # {} => r.col \in Targets(q))}

\* The chunks of the index are those it had, and each keeps its ids and ranks.
CorpusKept ==
  /\ IsFiniteSet(corpus)
  /\ corpus \subseteq [id : Nat, col : SeCols, dim : SeModels \cup {0}, bm : Nat, tag : Nat]
  /\ \A r \in corpus : \E s \in SeCorpus : r.id = s.id /\ r.col = s.col
  /\ \A r, s \in corpus : r # s => r.id # s.id /\ (r.bm # 0 => r.bm # s.bm)

SeType ==
  /\ DOMAIN sq = {"q", "pc", "rr", "cols", "groups", "legs", "pool", "hits", "rerank", "changed"}
  /\ sq.q \in SeRequests /\ sq.changed \in BOOLEAN /\ bound \in [SeCols -> SeModels \cup {0}]

\* A search with a collection in reach, and nothing changed under it
Plain == ~sq.changed /\ InReach(sq.q) # {}

\* The models of some collections, each with those that have it
GroupsOf(cs) == {[model |-> bound[c], cols |-> {d \in cs : bound[d] = bound[c]}] :
                   c \in {e \in cs : bound[e] # 0}}

\* What the dense legs of these groups would look at
Pending(groups) == UNION {DenseRows(g.cols, g.model) : g \in groups}

\* So much is found, or all but what is pending.
Covering(found, pending) ==
  /\ found \subseteq IdsOf(Findable)
  /\ Cardinality(found) >= sq.q.k \/ IdsOf(Findable) \subseteq found \cup IdsOf(pending)

\* The legs that have run
LegSet  == [ids : Seq(Nat), weight : Nat]
LegsRun == /\ sq.legs \in Seq(LegSet)
           /\ Found(sq.legs) \subseteq IdsOf(Answers(sq.q))

\* The stages of a search
OneInv  == sq.pc \in {"one", "query"} => \E c \in SeCols : Targets(sq.q) = {c}
QueryInv ==
  sq.pc = "query" => \E c \in Targets(sq.q), m \in SeModels :
                        sq.cols = {c} /\ sq.groups = {m} /\ (~sq.changed => bound[c] = m)
ManyInv ==
  sq.pc \in {"sparse", "dense"} =>
    /\ sq.cols = InReach(sq.q) /\ \A g \in sq.groups : g.cols \subseteq sq.cols
    /\ ~sq.changed => sq.groups \subseteq GroupsOf(sq.cols)
SparseInv == sq.pc = "sparse" /\ ~sq.changed => sq.groups = GroupsOf(sq.cols)
DenseInv  == sq.pc = "dense" => LegsRun /\ (Plain => Covering(Found(sq.legs), Pending(sq.groups)))
PoolInv ==
  sq.pc \in {"rerank", "answer", "ok"} => LegsRun /\ (Plain => Covering(Found(sq.legs), {}))
PageInv ==
  /\ sq.pc \in {"rerank", "answer"} =>
       \E n \in Nat : n >= sq.q.k /\ Paged(sq.pool, Found(sq.legs), n)
  /\ sq.pc = "ok" => Paged(sq.hits, Found(sq.legs), sq.q.k)
  /\ sq.pc # "ok" => sq.hits = <<>>

SeInv ==
  /\ SeType /\ CorpusKept /\ sq.pc # "dimerror"
  /\ OneInv /\ QueryInv /\ ManyInv /\ SparseInv /\ DenseInv /\ PoolInv /\ PageInv

\* Chunks with ids of their own are as many as their ids.
LEMMA IdsCount ==
  ASSUME NEW rows, IsFiniteSet(rows), \A r, s \in rows : r # s => r.id # s.id
  PROVE  IsFiniteSet(IdsOf(rows)) /\ Cardinality(IdsOf(rows)) = Cardinality(rows)
  <1> DEFINE f == [r \in rows |-> r.id]
  <1>1. f \in [rows -> IdsOf(rows)]
    BY DEF IdsOf
  <1>2. f \in Injection(rows, IdsOf(rows))
    BY <1>1 DEF Injection, IsInjective
  <1>3. f \in Surjection(rows, IdsOf(rows))
    BY <1>1 DEF Surjection, IdsOf
  <1>4. ExistsBijection(rows, IdsOf(rows))
    BY <1>2, <1>3 DEF ExistsBijection, Bijection
  <1> QED BY <1>4, FS_Bijection

\* The chunks of the index have ids, and those of a BM25 leg ranks, of their own.
LEMMA RowsRankable ==
  ASSUME CorpusKept, NEW rows \in SUBSET corpus
  PROVE  /\ IsFiniteSet(rows)
         /\ Rankable(rows, "id")
         /\ (\A r \in rows : r.bm # 0) => Rankable(rows, "bm")
  <1>1. IsFiniteSet(rows)
    BY FS_Subset DEF CorpusKept
  <1>2. \A r, s \in rows : /\ r.id \in Nat /\ r.bm \in Nat
                           /\ r # s => r.id # s.id /\ (r.bm # 0 => r.bm # s.bm)
    BY DEF CorpusKept
  <1> QED BY <1>1, <1>2 DEF Rankable

\* Chunks of the index that a hit may be
Answering(q, rows) ==
  \A r \in rows : InScopeOf(q, r.col) /\ (InReach(q) # {} => r.col \in Targets(q))

\* The ids of chunks of the index are ids it had at first.
LEMMA RowsAnswer ==
  ASSUME CorpusKept, NEW q, NEW rows \in SUBSET corpus, Answering(q, rows)
  PROVE  IdsOf(rows) \subseteq IdsOf(Answers(q))
  <1>1. ASSUME NEW r \in rows PROVE r.id \in IdsOf(Answers(q))
    <2>1. PICK s \in SeCorpus : r.id = s.id /\ r.col = s.col
      BY DEF CorpusKept
    <2>2. s \in Answers(q)
      BY <1>1, <2>1 DEF Answers, Answering
    <2> QED BY <2>1, <2>2 DEF IdsOf
  <1> QED BY <1>1 DEF IdsOf

\* What one leg brings: so much, or all of its rows
Brings(leg, rows, k) ==
  /\ leg \in LegSet /\ ToSet(leg.ids) \subseteq IdsOf(rows)
  /\ Cardinality(ToSet(leg.ids)) >= k \/ ToSet(leg.ids) = IdsOf(rows)

\* A leg with a limit of k or more brings k or all.
LEMMA LegBrings ==
  ASSUME CorpusKept, NEW rows \in SUBSET corpus, NEW rank, Rankable(rows, rank),
         NEW k \in Nat, NEW n \in Nat, k <= n, NEW weight \in Nat
  PROVE  Brings(Leg(rows, rank, n, weight), rows, k)
  <1> DEFINE leg == Leg(rows, rank, n, weight)
             T == Top(rows, rank, n)
  <1>1. leg.ids \in Seq(IdsOf(rows)) /\ ToSet(leg.ids) = IdsOf(T)
    BY LegFinds
  <1>2. IdsOf(rows) \subseteq Nat
    BY DEF IdsOf, CorpusKept
  <1>3. leg.ids \in Seq(Nat)
    BY <1>1, <1>2, SeqMonotonic
  <1>4. leg \in LegSet
    BY <1>3 DEF Leg, LegSet
  <1>5. T \subseteq rows /\ IdsOf(T) \subseteq IdsOf(rows)
    BY DEF Top, IdsOf
  <1>6. /\ IsFiniteSet(T) /\ Cardinality(rows) \in Nat
        /\ Cardinality(rows) <= n => T = rows
        /\ Cardinality(T) = IF Cardinality(rows) <= n THEN Cardinality(rows) ELSE n
    BY TopHas
  <1>7. \A r, s \in T : r # s => r.id # s.id
    BY <1>5 DEF CorpusKept
  <1> HIDE DEF T, leg
  <1>8. Cardinality(IdsOf(T)) = Cardinality(T)
    BY <1>6, <1>7, IdsCount
  <1>9. CASE Cardinality(rows) <= n
    BY <1>1, <1>4, <1>5, <1>6, <1>9 DEF leg, Brings
  <1>10. CASE ~(Cardinality(rows) <= n)
    <2>1. Cardinality(T) = n
      BY <1>6, <1>10
    <2> QED BY <1>1, <1>4, <1>5, <1>8, <2>1 DEF leg, Brings
  <1> QED BY <1>9, <1>10

\* A leg over what was pending, so far or in part, leaves the rest.
LEMMA CoverMore ==
  ASSUME IsFiniteSet(Findable), sq.q.k \in Nat, NEW found, NEW pending, NEW more, NEW rest,
         Covering(found, pending), more \subseteq IdsOf(Findable),
         Cardinality(more) >= sq.q.k \/ IdsOf(pending) \subseteq more \cup IdsOf(rest)
  PROVE  Covering(found \cup more, rest)
  <1> DEFINE F == IdsOf(Findable)
  <1>1. IsFiniteSet(F)
    <2> DEFINE f == [r \in Findable |-> r.id]
    <2>1. f \in Surjection(Findable, IdsOf(Findable))
      BY DEF Surjection, IdsOf
    <2> QED BY <2>1, FS_Surjection
  <1>2. found \subseteq F /\ more \subseteq F /\ found \cup more \in SUBSET F
    BY DEF Covering
  <1> HIDE DEF F
  <1>3. IsFiniteSet(found \cup more)
    BY <1>1, <1>2, FS_Subset
  <1>4. /\ Cardinality(found) <= Cardinality(found \cup more)
        /\ Cardinality(more) <= Cardinality(found \cup more)
    <2>1. found \in SUBSET (found \cup more) /\ more \in SUBSET (found \cup more)
      OBVIOUS
    <2> QED BY <1>3, <2>1, FS_Subset
  <1>5. /\ Cardinality(found) \in Nat /\ Cardinality(more) \in Nat
        /\ Cardinality(found \cup more) \in Nat
    BY <1>1, <1>2, <1>3, FS_Subset, FS_CardinalityType
  <1>6. CASE Cardinality(found) >= sq.q.k \/ Cardinality(more) >= sq.q.k
    <2>1. Cardinality(found \cup more) >= sq.q.k
      BY <1>4, <1>5, <1>6
    <2> QED BY <1>2, <2>1 DEF Covering, F
  <1>7. CASE ~(Cardinality(found) >= sq.q.k \/ Cardinality(more) >= sq.q.k)
    <2>1. F \subseteq found \cup IdsOf(pending) /\ IdsOf(pending) \subseteq more \cup IdsOf(rest)
      BY <1>7 DEF Covering, F
    <2> QED BY <1>2, <2>1 DEF Covering, F
  <1> QED BY <1>6, <1>7

\* With nothing pending, the page is as full as it would be with all there is.
LEMMA CoveredCounts ==
  ASSUME CorpusKept, sq.q.k \in Nat, NEW found, Covering(found, {})
  PROVE  /\ IsFiniteSet(found) /\ Cardinality(found) \in Nat /\ Cardinality(Findable) \in Nat
         /\ Min({sq.q.k, Cardinality(found)}) = Min({sq.q.k, Cardinality(Findable)})
  <1>1. Findable \in SUBSET corpus
    BY DEF Findable
  <1>2. IsFiniteSet(Findable) /\ \A r, s \in Findable : r # s => r.id # s.id
    BY <1>1, RowsRankable DEF CorpusKept
  <1>3. IsFiniteSet(IdsOf(Findable)) /\ Cardinality(IdsOf(Findable)) = Cardinality(Findable)
    BY <1>2, IdsCount
  <1>4. found \in SUBSET IdsOf(Findable) /\ IdsOf({}) = {}
    BY DEF Covering, IdsOf
  <1>5. IsFiniteSet(found) /\ Cardinality(found) <= Cardinality(Findable)
    BY <1>3, <1>4, FS_Subset
  <1>6. Cardinality(found) \in Nat /\ Cardinality(Findable) \in Nat
    BY <1>2, <1>5, FS_CardinalityType
  <1>7. CASE Cardinality(found) >= sq.q.k
    <2>1. Cardinality(Findable) >= sq.q.k
      BY <1>5, <1>6, <1>7
    <2>2. sq.q.k <= Cardinality(found) /\ sq.q.k <= Cardinality(Findable)
      BY <1>6, <1>7, <2>1
    <2> QED BY <1>5, <1>6, <2>2, MinOfTwo
  <1>8. CASE ~(Cardinality(found) >= sq.q.k)
    <2>1. found = IdsOf(Findable)
      BY <1>4, <1>8 DEF Covering
    <2> QED BY <1>3, <1>5, <1>6, <2>1
  <1> QED BY <1>7, <1>8

\* What a new leg adds
LEMMA FoundGrows ==
  ASSUME NEW legs \in Seq(LegSet), NEW leg \in LegSet
  PROVE  /\ Append(legs, leg) \in Seq(LegSet)
         /\ Found(Append(legs, leg)) = Found(legs) \cup ToSet(leg.ids)
  <1>1. PICK n \in Nat : n = Len(legs) /\ DOMAIN legs = 1..n
    BY LenProperties
  <1> DEFINE l == Append(legs, leg)
  <1>2. l \in Seq(LegSet) /\ Len(l) = n + 1 /\ l[n+1] = leg /\ \A i \in 1..n : l[i] = legs[i]
    BY <1>1, AppendProperties
  <1>3. DOMAIN l = 1..(n+1)
    BY <1>2, LenProperties
  <1> HIDE DEF l
  <1>4. \A i \in 1..(n+1) : i \in 1..n \/ i = n + 1
    OBVIOUS
  <1>5. n + 1 \in 1..(n+1) /\ \A i \in 1..n : i \in 1..(n+1)
    OBVIOUS
  <1>6. Found(l) = Found(legs) \cup ToSet(leg.ids)
    <2>1. ASSUME NEW x PROVE x \in Found(l) <=> x \in Found(legs) \/ x \in ToSet(leg.ids)
      <3>1. x \in Found(l) <=> \E i \in 1..(n+1) : x \in ToSet(l[i].ids)
        BY <1>3 DEF Found
      <3>2. x \in Found(legs) <=> \E i \in 1..n : x \in ToSet(legs[i].ids)
        BY <1>1 DEF Found
      <3> QED BY <1>2, <1>4, <1>5, <3>1, <3>2
    <2> QED BY <2>1
  <1> QED BY <1>2, <1>6 DEF l

\* A single leg
LEMMA FoundOfOne ==
  ASSUME NEW leg \in LegSet
  PROVE  <<leg>> \in Seq(LegSet) /\ Found(<<leg>>) = ToSet(leg.ids)
  <1>1. <<leg>> \in Seq(LegSet) /\ DOMAIN <<leg>> = {1} /\ <<leg>>[1] = leg
    OBVIOUS
  <1> QED BY <1>1 DEF Found

\* Two legs in one statement
LEMMA FoundOfTwo ==
  ASSUME NEW a \in LegSet, NEW b \in LegSet
  PROVE  <<a, b>> \in Seq(LegSet) /\ Found(<<a, b>>) = ToSet(a.ids) \cup ToSet(b.ids)
  <1>1. <<a, b>> \in Seq(LegSet) /\ DOMAIN <<a, b>> = {1, 2} /\ <<a, b>>[1] = a /\ <<a, b>>[2] = b
    OBVIOUS
  <1> QED BY <1>1 DEF Found

\* Where the statements look
LEMMA WhereLegsLook ==
  ASSUME SeType, CorpusKept, NEW cols,
         InReach(sq.q) # {} => cols \subseteq Targets(sq.q) /\ cols # {}
  PROVE  /\ SparseRows(cols) \in SUBSET corpus /\ \A r \in SparseRows(cols) : r.bm # 0
         /\ IdsOf(SparseRows(cols)) \subseteq IdsOf(Answers(sq.q))
         /\ \A m : /\ DenseRows(cols, m) \in SUBSET corpus
                   /\ IdsOf(DenseRows(cols, m)) \subseteq IdsOf(Answers(sq.q))
  <1>1. SparseRows(cols) \in SUBSET corpus /\ \A r \in SparseRows(cols) : r.bm # 0
    BY DEF SparseRows
  <1>2. Answering(sq.q, SparseRows(cols))
    BY DEF SparseRows, Answering
  <1>3. IdsOf(SparseRows(cols)) \subseteq IdsOf(Answers(sq.q))
    BY <1>1, <1>2, RowsAnswer
  <1>4. ASSUME NEW m PROVE /\ DenseRows(cols, m) \in SUBSET corpus
                           /\ IdsOf(DenseRows(cols, m)) \subseteq IdsOf(Answers(sq.q))
    <2>1. DenseRows(cols, m) \in SUBSET corpus
      BY DEF DenseRows
    <2>2. Answering(sq.q, DenseRows(cols, m))
      BY DEF DenseRows, Answering
    <2> QED BY <2>1, <2>2, RowsAnswer
  <1> QED BY <1>1, <1>3, <1>4

\* What is to be found while nothing changed, in terms of the statements
LEMMA WhatLegsLookFor ==
  ASSUME SeType, CorpusKept, InReach(sq.q) # {}
  PROVE  /\ SparseRows(InReach(sq.q)) \subseteq Findable
         /\ Pending(GroupsOf(InReach(sq.q))) \subseteq Findable
         /\ Findable \subseteq SparseRows(InReach(sq.q)) \cup Pending(GroupsOf(InReach(sq.q)))
  <1> DEFINE C == InReach(sq.q)
  <1>1. \A r : r \in Findable <=>
                /\ r \in corpus /\ r.col \in C /\ Filtered(r)
                /\ r.bm # 0 \/ (bound[r.col] # 0 /\ r.dim = bound[r.col])
    BY DEF Findable, InReach
  <1>2. \A c \in C : InScopeOf(sq.q, c)
    BY DEF InReach
  <1> HIDE DEF C
  <1>3. \A r \in SparseRows(C) : r \in Findable
    BY <1>1 DEF SparseRows, C
  <1>4. ASSUME NEW r \in Pending(GroupsOf(C)) PROVE r \in Findable
    <2>1. PICK g \in GroupsOf(C) : r \in DenseRows(g.cols, g.model)
      BY DEF Pending
    <2>2. PICK c \in C : bound[c] # 0 /\ g = [model |-> bound[c], cols |-> {d \in C : bound[d] = bound[c]}]
      BY DEF GroupsOf
    <2>3. g.model = bound[c] /\ g.cols = {d \in C : bound[d] = bound[c]}
      BY <2>2
    <2>4. r \in corpus /\ r.dim = bound[c] /\ r.col \in C /\ bound[r.col] = bound[c] /\ Filtered(r)
      BY <2>1, <2>3 DEF DenseRows
    <2> QED BY <1>1, <2>2, <2>4
  <1>5. ASSUME NEW r \in Findable, r \notin SparseRows(C) PROVE r \in Pending(GroupsOf(C))
    <2>1. r \in corpus /\ r.col \in C /\ Filtered(r) /\ InScopeOf(sq.q, r.col)
      BY <1>1, <1>2
    <2>2. bound[r.col] # 0 /\ r.dim = bound[r.col]
      BY <1>1, <1>5, <2>1 DEF SparseRows
    <2> DEFINE g == [model |-> bound[r.col], cols |-> {d \in C : bound[d] = bound[r.col]}]
    <2>3. g \in GroupsOf(C)
      BY <2>1, <2>2 DEF GroupsOf
    <2>4. r \in DenseRows(g.cols, g.model)
      BY <2>1, <2>2 DEF DenseRows
    <2> HIDE DEF g
    <2> QED BY <2>3, <2>4 DEF Pending
  <1> QED BY <1>3, <1>4, <1>5 DEF C

\* A step of the search leaves what it is about, and what is there to find.
Steps == Keeps /\ DOMAIN sq' = DOMAIN sq /\ sq'.q = sq.q /\ sq'.changed = sq.changed

\* After such a step the parts of the invariant about the index read as before.
LEMMA Unmoved ==
  ASSUME SeType, CorpusKept, Steps
  PROVE  /\ SeType' /\ CorpusKept' /\ Plain' = Plain /\ Findable' = Findable
         /\ \A cs : GroupsOf(cs)' = GroupsOf(cs)
         /\ \A gs : Pending(gs)' = Pending(gs)
         /\ \A found, rows : Covering(found, rows)' = Covering(found, rows)
  <1>1. corpus' = corpus /\ bound' = bound
    BY DEF Steps, Keeps
  <1>2. SeType'
    BY <1>1 DEF SeType, Steps
  <1>3. CorpusKept'
    BY <1>1 DEF CorpusKept
  <1>4. Plain' = Plain
    BY DEF Plain, Steps
  <1>5. \A r : Filtered(r)' = Filtered(r)
    BY DEF Filtered, Steps
  <1>6. Findable' = Findable
    BY <1>1, <1>5 DEF Findable, Steps
  <1>7. ASSUME NEW cs PROVE GroupsOf(cs)' = GroupsOf(cs)
    BY <1>1 DEF GroupsOf
  <1>8. \A cs, m : DenseRows(cs, m)' = DenseRows(cs, m)
    BY <1>1, <1>5 DEF DenseRows, Steps
  <1>9. ASSUME NEW gs PROVE Pending(gs)' = Pending(gs)
    BY <1>8 DEF Pending
  <1>10. ASSUME NEW found, NEW rows PROVE Covering(found, rows)' = Covering(found, rows)
    BY <1>6 DEF Covering, Steps
  <1> QED BY <1>2, <1>3, <1>4, <1>6, <1>7, <1>9, <1>10

\* The search ends without an answer.
LEMMA Ended ==
  ASSUME SeInv, Steps, sq'.pc \in {"refused", "unavailable"}, sq'.hits = sq.hits, sq.pc # "ok"
  PROVE  SeInv'
  <1>1. SeType' /\ CorpusKept'
    BY Unmoved DEF SeInv
  <1>2. sq'.hits = <<>>
    BY DEF SeInv, PageInv
  <1> QED BY <1>1, <1>2 DEF SeInv, OneInv, QueryInv, ManyInv, SparseInv, DenseInv, PoolInv, PageInv

\* The first stage settles on the one-collection path only with one collection.
LEMMA ResolveKeeps ==
  ASSUME SeInv, Refuse \/ ResolveReranker
  PROVE  SeInv'
  <1>1. Steps /\ sq'.hits = sq.hits /\ sq.pc = "resolve" /\ sq'.pc \in {"refused", "one", "many"}
    BY DEF SeInv, SeType, Refuse, ResolveReranker, Goto, Steps
  <1>2. SeType' /\ CorpusKept' /\ sq'.hits = <<>>
    BY <1>1, Unmoved DEF SeInv, PageInv
  <1>3. CASE sq'.pc = "refused"
    BY <1>1, <1>3, Ended
  <1>4. CASE sq'.pc = "many"
    BY <1>2, <1>4 DEF SeInv, OneInv, QueryInv, ManyInv, SparseInv, DenseInv, PoolInv, PageInv
  <1>5. CASE sq'.pc = "one"
    <2>1. Single(sq.q)
      BY <1>5 DEF SeInv, SeType, Refuse, ResolveReranker, Goto
    <2>2. /\ sq.q.targets \in SUBSET SeCols /\ sq.q.scope \in SUBSET SeCols
          /\ Targets(sq.q) \in SUBSET SeCols
      BY SearchAssumption DEF SeInv, SeType, Targets
    <2>3. IsFiniteSet(sq.q.targets) /\ IsFiniteSet(Targets(sq.q))
      BY <2>2, SearchAssumption, FS_Subset
    <2>4. CASE Cardinality(sq.q.targets) = 1
      <3>1. PICK c : sq.q.targets = {c}
        BY <2>3, <2>4, FS_Singleton
      <3> QED BY <1>1, <1>2, <1>5, <2>2, <3>1
              DEF Targets, Steps, SeInv, OneInv, QueryInv, ManyInv, SparseInv, DenseInv, PoolInv, PageInv
    <2>5. CASE Cardinality(Targets(sq.q)) = 1
      <3>1. PICK c : Targets(sq.q) = {c}
        BY <2>3, <2>5, FS_Singleton
      <3> QED BY <1>1, <1>2, <1>5, <2>2, <3>1
              DEF Steps, SeInv, OneInv, QueryInv, ManyInv, SparseInv, DenseInv, PoolInv, PageInv
    <2> QED BY <2>1, <2>4, <2>5 DEF Single
  <1> QED BY <1>1, <1>3, <1>4, <1>5

\* The query of the one-collection path is embedded with the model bound then.
LEMMA EmbedQueryKeeps ==
  ASSUME SeInv, EmbedQuery
  PROVE  SeInv'
  <1>1. CASE Goto("unavailable")
    <2>1. Steps /\ sq'.hits = sq.hits /\ sq.pc = "one" /\ sq'.pc = "unavailable"
      BY <1>1 DEF SeInv, SeType, EmbedQuery, Goto, Steps
    <2> QED BY <2>1, Ended
  <1>2. CASE ~Goto("unavailable")
    <2>1. PICK c \in Targets(sq.q) :
             /\ bound[c] # 0
             /\ sq' = [sq EXCEPT !.pc = "query", !.cols = {c}, !.groups = {bound[c]},
                                 !.rr = sq.rr \/ (sq.q.targets = {} /\ BoundRanker(c))]
      BY <1>2 DEF EmbedQuery
    <2>2. /\ Steps /\ sq'.hits = sq.hits /\ sq.pc = "one" /\ sq'.pc = "query"
          /\ sq'.cols = {c} /\ sq'.groups = {bound[c]}
      BY <2>1 DEF SeInv, SeType, EmbedQuery, Steps
    <2>3. SeType' /\ CorpusKept' /\ sq'.hits = <<>>
      BY <2>2, Unmoved DEF SeInv, PageInv
    <2>4. PICK d \in SeCols : Targets(sq.q) = {d}
      BY <2>2 DEF SeInv, OneInv
    <2>5. bound[c] \in SeModels /\ bound' = bound /\ Targets(sq'.q) = {d} /\ c \in Targets(sq'.q)
      BY <2>1, <2>2, <2>4 DEF SeInv, SeType, Steps, Keeps
    <2>6. OneInv' /\ QueryInv'
      BY <2>2, <2>4, <2>5 DEF OneInv, QueryInv
    <2> QED BY <2>2, <2>3, <2>6 DEF SeInv, ManyInv, SparseInv, DenseInv, PoolInv, PageInv
  <1> QED BY <1>1, <1>2

\* Several collections: those in reach, in groups by their models
LEMMA EmbedForModelsKeeps ==
  ASSUME SeInv, EmbedForModels
  PROVE  SeInv'
  <1>1. CASE Goto("unavailable")
    <2>1. Steps /\ sq'.hits = sq.hits /\ sq.pc = "many" /\ sq'.pc = "unavailable"
      BY <1>1 DEF SeInv, SeType, EmbedForModels, Goto, Steps
    <2> QED BY <2>1, Ended
  <1>2. CASE ~Goto("unavailable")
    <2>1. sq' = [sq EXCEPT !.pc = "sparse", !.cols = InReach(sq.q), !.groups = GroupsOf(InReach(sq.q))]
      BY <1>2 DEF EmbedForModels, InReach, GroupsOf
    <2>2. PICK C : /\ C = InReach(sq.q)
                   /\ sq' = [sq EXCEPT !.pc = "sparse", !.cols = C, !.groups = GroupsOf(C)]
      BY <2>1
    <2>3. /\ Steps /\ sq'.hits = sq.hits /\ sq.pc = "many" /\ sq'.pc = "sparse"
          /\ sq'.cols = C /\ sq'.groups = GroupsOf(C)
      BY <2>2 DEF SeInv, SeType, EmbedForModels, Steps
    <2>4. SeType' /\ CorpusKept' /\ sq'.hits = <<>> /\ bound' = bound
      BY <2>3, Unmoved DEF SeInv, PageInv, Steps, Keeps
    <2>5. C = InReach(sq'.q) /\ \A g \in GroupsOf(C) : g.cols \subseteq C
      BY <2>2, <2>3 DEF Steps, GroupsOf
    <2>6. sq'.groups = GroupsOf(sq.cols)'
      BY <2>3, <2>4 DEF GroupsOf
    <2>7. ManyInv' /\ SparseInv'
      BY <2>3, <2>5, <2>6 DEF ManyInv, SparseInv
    <2> QED BY <2>3, <2>4, <2>7 DEF SeInv, OneInv, QueryInv, DenseInv, PoolInv, PageInv
  <1> QED BY <1>1, <1>2

\* The number of hits asked for
LEMMA PageIsNat == SeType => sq.q.k \in Nat /\ sq.q.k >= 1
  BY SearchAssumption DEF SeType

\* The BM25 leg of several collections
LEMMA SparseSearchKeeps ==
  ASSUME SeInv, SparseSearch
  PROVE  SeInv'
  <1> DEFINE S == SparseRows(sq.cols)
  <1>1. PICK leg : leg = Leg(S, "bm", sq.q.k, 3) /\ sq' = [sq EXCEPT !.pc = "dense", !.legs = <<leg>>]
    BY DEF SparseSearch
  <1>2. /\ Steps /\ sq'.hits = sq.hits /\ sq.pc = "sparse" /\ sq'.pc = "dense"
        /\ sq'.cols = sq.cols /\ sq'.groups = sq.groups /\ sq'.legs = <<leg>>
    BY <1>1 DEF SeInv, SeType, SparseSearch, Steps
  <1>3. /\ SeType /\ CorpusKept /\ sq.q.k \in Nat /\ sq.cols = InReach(sq.q)
        /\ \A g \in sq.groups : g.cols \subseteq sq.cols
        /\ ~sq.changed => sq.groups = GroupsOf(sq.cols)
    BY <1>2, PageIsNat DEF SeInv, ManyInv, SparseInv
  <1>4. /\ S \in SUBSET corpus /\ \A r \in S : r.bm # 0
        /\ IdsOf(S) \subseteq IdsOf(Answers(sq.q))
    <2>1. InReach(sq.q) # {} => sq.cols \subseteq Targets(sq.q) /\ sq.cols # {}
      BY <1>3 DEF InReach
    <2> QED BY <1>3, <2>1, WhereLegsLook
  <1> HIDE DEF S
  <1>5. Rankable(S, "bm")
    BY <1>3, <1>4, RowsRankable
  <1>6. /\ leg \in LegSet /\ ToSet(leg.ids) \subseteq IdsOf(S)
        /\ Cardinality(ToSet(leg.ids)) >= sq.q.k \/ ToSet(leg.ids) = IdsOf(S)
    <2>1. PICK k \in Nat : k = sq.q.k /\ k <= k
      BY <1>3
    <2>2. PICK w \in Nat : w = 3
      OBVIOUS
    <2>3. leg = Leg(S, "bm", k, w)
      BY <1>1, <2>1, <2>2
    <2>4. Brings(Leg(S, "bm", k, w), S, k)
      BY <1>3, <1>4, <1>5, <2>1, LegBrings
    <2> QED BY <2>1, <2>3, <2>4 DEF Brings
  <1>7. <<leg>> \in Seq(LegSet) /\ Found(<<leg>>) = ToSet(leg.ids)
    BY <1>6, FoundOfOne
  <1>8. ASSUME Plain PROVE Covering(Found(<<leg>>), Pending(sq.groups))
    <2>1. /\ S \subseteq Findable /\ Findable \subseteq S \cup Pending(sq.groups)
      BY <1>3, <1>8, WhatLegsLookFor DEF Plain, S
    <2>2. IsFiniteSet(Findable)
      BY <1>3, RowsRankable DEF Findable
    <2>3. Covering({}, Findable)
      BY DEF Covering
    <2>4. ToSet(leg.ids) \subseteq IdsOf(Findable)
      BY <1>6, <2>1 DEF IdsOf
    <2>5. \/ Cardinality(ToSet(leg.ids)) >= sq.q.k
          \/ IdsOf(Findable) \subseteq ToSet(leg.ids) \cup IdsOf(Pending(sq.groups))
      BY <1>6, <2>1 DEF IdsOf
    <2>6. Covering({} \cup ToSet(leg.ids), Pending(sq.groups))
      BY <1>3, <2>2, <2>3, <2>4, <2>5, CoverMore
    <2>7. {} \cup ToSet(leg.ids) = Found(<<leg>>)
      BY <1>7
    <2> QED BY <2>6, <2>7
  <1>9. PICK gs : gs = sq.groups
    OBVIOUS
  <1>10. SeType' /\ CorpusKept' /\ Plain' = Plain /\ sq'.hits = <<>>
         /\ Covering(Found(<<leg>>), Pending(gs))' = Covering(Found(<<leg>>), Pending(gs))
    <2>1. SeType' /\ CorpusKept' /\ Plain' = Plain /\ sq'.hits = <<>>
      BY <1>2, <1>3, Unmoved DEF SeInv, PageInv
    <2>2. Findable' = Findable /\ corpus' = corpus /\ sq'.q = sq.q
      BY <1>2, <1>3, Unmoved DEF Steps, Keeps
    <2>3. Pending(gs)' = Pending(gs)
      BY <2>2 DEF Pending, DenseRows, Filtered
    <2> QED BY <2>1, <2>2, <2>3 DEF Covering
  <1>11. LegsRun'
    BY <1>2, <1>4, <1>6, <1>7 DEF LegsRun, Steps
  <1>12. DenseInv'
    BY <1>2, <1>8, <1>9, <1>10, <1>11 DEF DenseInv
  <1>13. ManyInv'
    <2>1. ~sq.changed => sq'.groups = GroupsOf(sq.cols)'
      BY <1>2, <1>3 DEF GroupsOf, Steps, Keeps
    <2> QED BY <1>2, <1>3, <2>1 DEF ManyInv, Steps
  <1> QED BY <1>2, <1>10, <1>12, <1>13 DEF SeInv, OneInv, QueryInv, SparseInv, PoolInv, PageInv

\* The dense leg of one model
LEMMA DenseSearchKeeps ==
  ASSUME SeInv, DenseSearch
  PROVE  SeInv'
  <1>1. PICK g \in sq.groups : \E leg :
           /\ leg = Leg(DenseRows(g.cols, g.model), "id", sq.q.k, 10)
           /\ sq' = [sq EXCEPT !.groups = sq.groups \ {g}, !.legs = Append(sq.legs, leg)]
    <2>1. \A g : Comparable(DenseRows(g.cols, g.model), g.model)
      BY DEF Comparable, DenseRows
    <2> QED BY <2>1 DEF DenseSearch
  <1>0. PICK leg :
           /\ leg = Leg(DenseRows(g.cols, g.model), "id", sq.q.k, 10)
           /\ sq' = [sq EXCEPT !.groups = sq.groups \ {g}, !.legs = Append(sq.legs, leg)]
    BY <1>1
  <1> DEFINE S == DenseRows(g.cols, g.model)
  <1>2. /\ Steps /\ sq'.hits = sq.hits /\ sq.pc = "dense" /\ sq'.pc = "dense"
        /\ sq'.cols = sq.cols /\ sq'.groups = sq.groups \ {g} /\ sq'.legs = Append(sq.legs, leg)
    BY <1>0 DEF SeInv, SeType, DenseSearch, Steps
  <1>3. /\ SeType /\ CorpusKept /\ sq.q.k \in Nat /\ sq.cols = InReach(sq.q)
        /\ \A h \in sq.groups : h.cols \subseteq sq.cols
        /\ ~sq.changed => sq.groups \subseteq GroupsOf(sq.cols)
        /\ LegsRun /\ (Plain => Covering(Found(sq.legs), Pending(sq.groups)))
    BY <1>2, PageIsNat DEF SeInv, ManyInv, DenseInv
  <1>4. S \in SUBSET corpus /\ IdsOf(S) \subseteq IdsOf(Answers(sq.q))
    <2>1. S \in SUBSET corpus
      BY DEF DenseRows
    <2>2. Answering(sq.q, S)
      BY <1>3 DEF DenseRows, InReach, Answering
    <2> HIDE DEF S
    <2> QED BY <1>3, <2>1, <2>2, RowsAnswer
  <1> HIDE DEF S
  <1>5. Rankable(S, "id")
    BY <1>3, <1>4, RowsRankable
  <1>6. Brings(leg, S, sq.q.k)
    <2>1. PICK k \in Nat : k = sq.q.k /\ k <= k
      BY <1>3
    <2>2. PICK w \in Nat : w = 10
      OBVIOUS
    <2>3. leg = Leg(S, "id", k, w)
      BY <1>0, <2>1, <2>2 DEF S
    <2>4. Brings(Leg(S, "id", k, w), S, k)
      BY <1>3, <1>4, <1>5, <2>1, LegBrings
    <2> QED BY <2>1, <2>3, <2>4
  <1>7. /\ sq'.legs \in Seq(LegSet) /\ Found(sq'.legs) = Found(sq.legs) \cup ToSet(leg.ids)
    <2>1. sq.legs \in Seq(LegSet) /\ leg \in LegSet
      BY <1>3, <1>6 DEF LegsRun, Brings
    <2> QED BY <1>2, <2>1, FoundGrows
  <1>8. PICK gs, found : gs = sq'.groups /\ found = Found(sq'.legs)
    OBVIOUS
  <1>9. ASSUME Plain PROVE Covering(found, Pending(gs))
    <2>1. g \in GroupsOf(InReach(sq.q)) /\ Pending(GroupsOf(InReach(sq.q))) \subseteq Findable
      BY <1>3, <1>9, WhatLegsLookFor DEF Plain
    <2>2. S \subseteq Findable
      BY <2>1 DEF Pending, S
    <2>3. IsFiniteSet(Findable)
      BY <1>3, RowsRankable DEF Findable
    <2>4. ToSet(leg.ids) \subseteq IdsOf(Findable)
      BY <1>6, <2>2 DEF IdsOf, Brings
    <2>5. Pending(sq.groups) \subseteq S \cup Pending(gs)
      <3>1. \A h \in sq.groups : h = g \/ h \in gs
        BY <1>2, <1>8
      <3> QED BY <3>1 DEF Pending, S
    <2>6. IdsOf(Pending(sq.groups)) \subseteq IdsOf(S) \cup IdsOf(Pending(gs))
      BY <2>5 DEF IdsOf
    <2>7. \/ Cardinality(ToSet(leg.ids)) >= sq.q.k
          \/ IdsOf(Pending(sq.groups)) \subseteq ToSet(leg.ids) \cup IdsOf(Pending(gs))
      BY <1>6, <2>6 DEF Brings
    <2>8. Covering(Found(sq.legs), Pending(sq.groups))
      BY <1>3, <1>9
    <2>9. Covering(Found(sq.legs) \cup ToSet(leg.ids), Pending(gs))
      BY <1>3, <2>3, <2>4, <2>7, <2>8, CoverMore
    <2> QED BY <1>7, <1>8, <2>9
  <1>10. SeType' /\ CorpusKept' /\ Plain' = Plain /\ sq'.hits = <<>>
         /\ Covering(found, Pending(gs))' = Covering(found, Pending(gs))
    <2>1. SeType' /\ CorpusKept' /\ Plain' = Plain /\ sq'.hits = <<>>
      BY <1>2, <1>3, Unmoved DEF SeInv, PageInv
    <2>2. Findable' = Findable /\ corpus' = corpus /\ sq'.q = sq.q
      BY <1>2, <1>3, Unmoved DEF Steps, Keeps
    <2>3. Pending(gs)' = Pending(gs)
      BY <2>2 DEF Pending, DenseRows, Filtered
    <2> QED BY <2>1, <2>2, <2>3 DEF Covering
  <1>11. LegsRun'
    <2>1. ToSet(leg.ids) \subseteq IdsOf(Answers(sq.q))
      BY <1>4, <1>6 DEF Brings
    <2> QED BY <1>2, <1>3, <1>7, <2>1 DEF LegsRun, Steps
  <1>12. DenseInv'
    BY <1>2, <1>8, <1>9, <1>10, <1>11 DEF DenseInv
  <1>13. ManyInv'
    <2>1. ~sq.changed => sq'.groups \subseteq GroupsOf(sq.cols)'
      BY <1>2, <1>3 DEF GroupsOf, Steps, Keeps
    <2> QED BY <1>2, <1>3, <2>1 DEF ManyInv, Steps
  <1> QED BY <1>2, <1>10, <1>12, <1>13 DEF SeInv, OneInv, QueryInv, SparseInv, PoolInv, PageInv

\* The ids of a search are finitely many.
LEMMA AnswersFinite ==
  ASSUME NEW q
  PROVE  IsFiniteSet(IdsOf(Answers(q))) /\ \A S \in SUBSET IdsOf(Answers(q)) : IsFiniteSet(S)
  <1>1. IsFiniteSet(Answers(q)) /\ \A r, s \in Answers(q) : r # s => r.id # s.id
    BY SearchAssumption, FS_Subset DEF Answers
  <1>2. IsFiniteSet(IdsOf(Answers(q)))
    BY <1>1, IdsCount
  <1> QED BY <1>2, FS_Subset

\* The fusion of legs that cover what is to be found
LEMMA FuseKeeps ==
  ASSUME SeInv, Keeps, sq.pc \in {"query", "dense"},
         NEW legs \in Seq(LegSet), Found(legs) \subseteq IdsOf(Answers(sq.q)),
         Plain => Covering(Found(legs), {}),
         NEW n \in Nat, n >= sq.q.k, Fuse(legs, n)
  PROVE  SeInv'
  <1>0. PICK p \in Rankings(legs) : \E pool :
           /\ pool = SubSeq(p, 1, Min({n, Len(p)}))
           /\ sq' = [sq EXCEPT !.pc = IF sq.rr THEN "rerank" ELSE "answer", !.legs = legs, !.groups = {},
                               !.pool = pool]
    BY DEF Fuse
  <1>1. PICK pool :
           /\ pool = SubSeq(p, 1, Min({n, Len(p)}))
           /\ sq' = [sq EXCEPT !.pc = IF sq.rr THEN "rerank" ELSE "answer", !.legs = legs, !.groups = {},
                               !.pool = pool]
    BY <1>0
  <1>2. /\ Steps /\ sq'.hits = sq.hits /\ sq'.pc \in {"rerank", "answer"}
        /\ sq'.legs = legs /\ sq'.pool = pool
    BY <1>1 DEF SeInv, SeType, Steps
  <1>3. Paged(pool, Found(legs), n)
    BY <1>1, AnswersFinite, FusedIsPaged
  <1>4. SeType' /\ CorpusKept' /\ Plain' = Plain /\ sq'.hits = <<>>
        /\ Covering(Found(legs), {})' = Covering(Found(legs), {})
    <2>1. SeType' /\ CorpusKept' /\ Plain' = Plain /\ sq'.hits = <<>> /\ Findable' = Findable
      BY <1>2, Unmoved DEF SeInv, PageInv
    <2> QED BY <1>2, <2>1 DEF Covering, Steps
  <1>5. LegsRun'
    BY <1>2 DEF LegsRun, Steps
  <1>6. PoolInv'
    BY <1>2, <1>4, <1>5 DEF PoolInv
  <1>7. PageInv'
    BY <1>2, <1>3, <1>4 DEF PageInv, Steps
  <1> QED BY <1>2, <1>4, <1>6, <1>7 DEF SeInv, OneInv, QueryInv, ManyInv, SparseInv, DenseInv

\* Several collections: all legs have run.
LEMMA FuseLegsKeeps ==
  ASSUME SeInv, FuseLegs
  PROVE  SeInv'
  <1>1. /\ sq.pc = "dense" /\ sq.groups = {} /\ Fuse(sq.legs, sq.q.k) /\ Keeps
    BY DEF FuseLegs
  <1>2. LegsRun /\ (Plain => Covering(Found(sq.legs), Pending({})))
    BY <1>1 DEF SeInv, DenseInv
  <1>3. Pending({}) = {}
    BY DEF Pending
  <1>4. PICK legs \in Seq(LegSet), n \in Nat : legs = sq.legs /\ n = sq.q.k /\ n >= n
    BY <1>2, PageIsNat DEF LegsRun, SeInv
  <1> QED BY <1>1, <1>2, <1>3, <1>4, FuseKeeps DEF LegsRun

\* One collection: both legs and their fusion, with the larger pool of a reranker
LEMMA HybridSearchKeeps ==
  ASSUME SeInv, HybridSearch
  PROVE  SeInv'
  <1>1. sq.pc = "query" /\ Keeps /\ SeType /\ CorpusKept
    BY DEF HybridSearch, SeInv
  <1>2. PICK c \in Targets(sq.q), m \in SeModels :
           sq.cols = {c} /\ sq.groups = {m} /\ (~sq.changed => bound[c] = m)
    BY <1>1 DEF SeInv, QueryInv
  <1>3. Targets(sq.q) = {c}
    BY <1>1 DEF SeInv, OneInv
  <1>4. (CHOOSE d \in sq.groups : TRUE) = m /\ m # 0
    BY <1>2, SearchAssumption
  <1>5. PICK k \in Nat : k = sq.q.k
    BY <1>1, PageIsNat
  <1>6. PICK n \in Nat : n = (IF sq.rr THEN Max({k, Candidates}) ELSE k) /\ k <= n
    <2>1. Max({k, Candidates}) \in Nat /\ k <= Max({k, Candidates})
      <3> DEFINE x == IF k <= Candidates THEN Candidates ELSE k
      <3>1. Candidates \in Nat
        BY SearchAssumption
      <3>2. x \in {k, Candidates} /\ \A y \in {k, Candidates} : x >= y
        BY <3>1
      <3>3. \A z \in {k, Candidates} : (\A y \in {k, Candidates} : z >= y) => z = x
        BY <3>1
      <3> HIDE DEF x
      <3>4. Max({k, Candidates}) = x
        BY <3>2, <3>3 DEF Max
      <3> QED BY <3>1, <3>4 DEF x
    <2> QED BY <2>1
  <1> DEFINE S == SparseRows({c})
             D == DenseRows({c}, m)
             a == Leg(S, "bm", n, 3)
             b == Leg(D, "id", n, 10)
  <1>7. Fuse(<<a, b>>, n)
    <2>1. Comparable(D, m)
      BY DEF Comparable, DenseRows
    <2> QED BY <1>2, <1>4, <1>5, <1>6, <2>1 DEF HybridSearch
  <1>8. /\ S \in SUBSET corpus /\ (\A r \in S : r.bm # 0) /\ IdsOf(S) \subseteq IdsOf(Answers(sq.q))
        /\ D \in SUBSET corpus /\ IdsOf(D) \subseteq IdsOf(Answers(sq.q))
    <2>1. InReach(sq.q) # {} => {c} \subseteq Targets(sq.q) /\ {c} # {}
      OBVIOUS
    <2> QED BY <1>1, <2>1, WhereLegsLook
  <1>9. ASSUME Plain PROVE S \subseteq Findable /\ D \subseteq Findable /\ Findable \subseteq S \cup D
    <2>1. InReach(sq.q) = {c}
      BY <1>3, <1>9 DEF Plain, InReach
    <2>2. bound[c] = m
      BY <1>2, <1>9 DEF Plain
    <2>3. Pending(GroupsOf({c})) = D
      <3>1. PICK g : g = [model |-> m, cols |-> {c}]
        OBVIOUS
      <3>2. GroupsOf({c}) = {g} /\ g.cols = {c} /\ g.model = m
        BY <1>4, <2>2, <3>1 DEF GroupsOf
      <3> QED BY <3>2 DEF Pending
    <2> HIDE DEF D, S
    <2>4. /\ SparseRows({c}) \subseteq Findable /\ D \subseteq Findable
          /\ Findable \subseteq SparseRows({c}) \cup D
      BY <1>1, <1>9, <2>1, <2>3, WhatLegsLookFor DEF Plain
    <2> QED BY <2>4 DEF S
  <1> HIDE DEF S, D
  <1>10. Brings(a, S, k) /\ Brings(b, D, k)
    <2>1. Rankable(S, "bm") /\ Rankable(D, "id")
      BY <1>1, <1>8, RowsRankable
    <2>2. PICK v \in Nat, w \in Nat : v = 3 /\ w = 10
      OBVIOUS
    <2>3. Brings(Leg(S, "bm", n, v), S, k) /\ Brings(Leg(D, "id", n, w), D, k)
      BY <1>1, <1>6, <1>8, <2>1, LegBrings
    <2> QED BY <2>2, <2>3
  <1> HIDE DEF a, b
  <1>11. PICK legs \in Seq(LegSet) : legs = <<a, b>> /\ Found(legs) = ToSet(a.ids) \cup ToSet(b.ids)
    BY <1>10, FoundOfTwo DEF Brings
  <1>12. Found(legs) \subseteq IdsOf(Answers(sq.q))
    BY <1>8, <1>10, <1>11 DEF Brings
  <1>13. ASSUME Plain PROVE Covering(Found(legs), {})
    <2>1. IsFiniteSet(Findable) /\ sq.q.k \in Nat
      BY <1>1, <1>5, RowsRankable DEF Findable
    <2>2. Covering({}, Findable)
      BY DEF Covering
    <2>3. /\ ToSet(a.ids) \subseteq IdsOf(Findable) /\ ToSet(b.ids) \subseteq IdsOf(Findable)
      BY <1>9, <1>10, <1>13 DEF IdsOf, Brings
    <2>4. Cardinality(ToSet(a.ids)) >= sq.q.k \/ IdsOf(Findable) \subseteq ToSet(a.ids) \cup IdsOf(D)
      BY <1>5, <1>9, <1>10, <1>13 DEF IdsOf, Brings
    <2>5. Covering({} \cup ToSet(a.ids), D)
      BY <2>1, <2>2, <2>3, <2>4, CoverMore
    <2>6. Cardinality(ToSet(b.ids)) >= sq.q.k \/ IdsOf(D) \subseteq ToSet(b.ids) \cup IdsOf({})
      BY <1>5, <1>10 DEF Brings
    <2>7. Covering(({} \cup ToSet(a.ids)) \cup ToSet(b.ids), {})
      BY <2>1, <2>3, <2>5, <2>6, CoverMore
    <2>8. ({} \cup ToSet(a.ids)) \cup ToSet(b.ids) = Found(legs)
      BY <1>11
    <2> QED BY <2>7, <2>8
  <1>14. n >= sq.q.k /\ Fuse(legs, n)
    BY <1>5, <1>6, <1>7, <1>11
  <1> QED BY <1>1, <1>12, <1>13, <1>14, FuseKeeps

\* The rerank stage, and the cut to the page
LEMMA AnswerKeeps ==
  ASSUME SeInv, Rerank \/ Degrade \/ SeAnswer
  PROVE  SeInv'
  <1>1. /\ Steps /\ sq'.legs = sq.legs /\ sq.pc \in {"rerank", "answer"}
        /\ \/ sq.pc = "rerank" /\ sq'.pc = "answer" /\ sq'.hits = sq.hits
           \/ sq.pc = "answer" /\ sq'.pc = "ok"
    BY ZenonT(60) DEF SeInv, SeType, Rerank, Degrade, SeAnswer, Steps
  <1>2. PICK S : S = Found(sq.legs) /\ IsFiniteSet(S)
    BY <1>1, AnswersFinite DEF SeInv, PoolInv, LegsRun
  <1>3. PICK k \in Nat : k = sq.q.k
    BY PageIsNat DEF SeInv
  <1>4. PICK n \in Nat : n >= k /\ Paged(sq.pool, S, n)
    BY <1>1, <1>2, <1>3 DEF SeInv, PageInv
  <1>5. SeType' /\ CorpusKept' /\ Plain' = Plain /\ Covering(S, {})' = Covering(S, {})
    <2>1. SeType' /\ CorpusKept' /\ Plain' = Plain /\ Findable' = Findable
      BY <1>1, Unmoved DEF SeInv
    <2> QED BY <1>1, <2>1 DEF Covering, Steps
  <1>6. PoolInv'
    <2>1. LegsRun /\ (Plain => Covering(S, {}))
      BY <1>1, <1>2 DEF SeInv, PoolInv
    <2>2. LegsRun'
      BY <1>1, <2>1 DEF LegsRun, Steps
    <2> QED BY <1>1, <1>2, <1>5, <2>1, <2>2 DEF PoolInv
  <1>7. PageInv'
    <2>1. CASE Rerank
      <3>1. sq.pool \in Seq(S)
        BY <1>4 DEF Paged
      <3>2. PICK m \in 0..Len(sq.pool) : \E scores \in [1..m -> {0, 1}] : sq'.pool = Scored(sq.pool, scores)
        BY <2>1 DEF Rerank, SeInv, SeType
      <3>3. PICK scores \in [1..m -> {0, 1}] : sq'.pool = Scored(sq.pool, scores)
        BY <3>2
      <3>4. m \in Nat
        BY <3>1, LenProperties
      <3>5. Paged(sq'.pool, S, n)
        BY <1>4, <3>3, <3>4, ScoredIsPaged
      <3>6. sq'.pc = "answer" /\ sq'.hits = <<>>
        BY <1>1, <2>1 DEF SeInv, SeType, PageInv, Rerank
      <3> QED BY <1>1, <1>2, <1>3, <1>4, <3>5, <3>6 DEF PageInv, Steps
    <2>2. CASE Degrade
      <3>1. sq'.pool = sq.pool /\ sq'.pc = "answer" /\ sq'.hits = <<>>
        BY <1>1, <2>2 DEF SeInv, SeType, PageInv, Degrade
      <3> QED BY <1>1, <1>2, <1>3, <1>4, <3>1 DEF PageInv, Steps
    <2>3. CASE SeAnswer
      <3>1. sq'.hits = SubSeq(sq.pool, 1, Min({k, Len(sq.pool)})) /\ sq'.pc = "ok"
        BY <1>3, <2>3 DEF SeInv, SeType, SeAnswer, Cropped
      <3>2. Paged(sq'.hits, S, k)
        <4>1. PICK p : p = sq.pool
          OBVIOUS
        <4>2. Paged(SubSeq(p, 1, Min({k, Len(p)})), S, k)
          BY <1>2, <1>4, <4>1, CutIsPaged
        <4> QED BY <3>1, <4>1, <4>2
      <3> QED BY <1>1, <1>2, <1>3, <3>1, <3>2 DEF PageInv, Steps
    <2> QED BY <2>1, <2>2, <2>3
  <1> QED BY <1>1, <1>5, <1>6, <1>7 DEF SeInv, OneInv, QueryInv, ManyInv, SparseInv, DenseInv

\* A re-embed writes another dimension, and nothing else, on chunks of one collection.
LEMMA ReembedKeeps ==
  ASSUME SeInv, NEW c \in SeCols, Reembed(c)
  PROVE  CorpusKept'
  <1> DEFINE to(r) == IF r.col = c THEN [r EXCEPT !.dim = bound[c]] ELSE r
  <1>1. corpus' = {to(r) : r \in corpus} /\ bound[c] \in SeModels \cup {0} /\ CorpusKept
    BY DEF Reembed, SeInv, SeType
  <1>2. ASSUME NEW r \in corpus
        PROVE  /\ to(r).id = r.id /\ to(r).col = r.col /\ to(r).bm = r.bm
               /\ to(r) \in [id : Nat, col : SeCols, dim : SeModels \cup {0}, bm : Nat, tag : Nat]
    <2>1. r \in [id : Nat, col : SeCols, dim : SeModels \cup {0}, bm : Nat, tag : Nat]
      BY <1>1 DEF CorpusKept
    <2> QED BY <1>1, <2>1
  <1> HIDE DEF to
  <1>3. IsFiniteSet(corpus')
    <2> DEFINE f == [r \in corpus |-> to(r)]
    <2>1. f \in Surjection(corpus, {to(r) : r \in corpus})
      BY DEF Surjection
    <2>2. IsFiniteSet({to(r) : r \in corpus})
      BY <1>1, <2>1, FS_Surjection DEF CorpusKept
    <2> QED BY <1>1, <2>2
  <1>4. \A r \in corpus' : \E s \in SeCorpus : r.id = s.id /\ r.col = s.col
    BY <1>1, <1>2 DEF CorpusKept
  <1>5. \A r, s \in corpus' : r # s => r.id # s.id /\ (r.bm # 0 => r.bm # s.bm)
    BY <1>1, <1>2 DEF CorpusKept
  <1>6. corpus' \subseteq [id : Nat, col : SeCols, dim : SeModels \cup {0}, bm : Nat, tag : Nat]
    BY <1>1, <1>2
  <1> QED BY <1>3, <1>4, <1>5, <1>6 DEF CorpusKept

\* Whatever changes under a search, it is still about what it was about.
LEMMA ChangeKeeps ==
  ASSUME SeInv,
         \/ \E c \in SeCols : Reembed(c) \/ DropBook(c) \/ \E m \in SeModels : Rebind(c, m)
         \/ DropRanker
  PROVE  SeInv'
  <1>1. /\ DOMAIN sq' = DOMAIN sq /\ sq'.q = sq.q /\ sq'.changed = TRUE /\ sq'.pc = sq.pc
        /\ sq'.cols = sq.cols /\ sq'.groups = sq.groups /\ sq'.legs = sq.legs
        /\ sq'.pool = sq.pool /\ sq'.hits = sq.hits
    <2>1. sq' = [sq EXCEPT !.changed = TRUE]
      BY DEF Reembed, DropBook, Rebind, DropRanker, SeChange
    <2> QED BY <2>1 DEF SeInv, SeType
  <1>2. CorpusKept'
    <2>1. ASSUME NEW c \in SeCols, Reembed(c) PROVE CorpusKept'
      BY <2>1, ReembedKeeps
    <2>2. ASSUME corpus' \in SUBSET corpus PROVE CorpusKept'
      <3>1. IsFiniteSet(corpus')
        BY <2>2, FS_Subset DEF SeInv, CorpusKept
      <3> QED BY <2>2, <3>1 DEF SeInv, CorpusKept
    <2>3. (\E c \in SeCols : Reembed(c)) \/ corpus' \in SUBSET corpus
      BY DEF DropBook, Rebind, DropRanker
    <2> QED BY <2>1, <2>2, <2>3
  <1>3. bound' \in [SeCols -> SeModels \cup {0}]
    BY DEF SeInv, SeType, Reembed, DropBook, Rebind, DropRanker
  <1>4. SeType' /\ ~Plain'
    BY <1>1, <1>3 DEF SeInv, SeType, Plain
  <1>5. OneInv' /\ SparseInv'
    BY <1>1 DEF SeInv, OneInv, SparseInv
  <1>6. QueryInv'
    BY <1>1 DEF SeInv, QueryInv
  <1>7. ManyInv'
    BY <1>1 DEF SeInv, ManyInv
  <1>8. LegsRun => LegsRun'
    BY <1>1 DEF LegsRun
  <1>9. DenseInv' /\ PoolInv'
    BY <1>1, <1>4, <1>8 DEF SeInv, DenseInv, PoolInv
  <1>10. PageInv'
    BY <1>1 DEF SeInv, PageInv
  <1> QED BY <1>1, <1>2, <1>4, <1>5, <1>6, <1>7, <1>9, <1>10 DEF SeInv

\* The invariant holds when the search is asked.
LEMMA SeInitial == SeInit => SeInv
  <1> SUFFICES ASSUME NEW q \in SeRequests, NEW models \in SeBindings, Asked(q, models) PROVE SeInv
    BY DEF SeInit
  <1>1. /\ sq = [q |-> q, pc |-> "resolve", rr |-> FALSE, cols |-> {}, groups |-> {}, legs |-> <<>>,
                 pool |-> <<>>, hits |-> <<>>, rerank |-> "off", changed |-> FALSE]
        /\ corpus = SeCorpus /\ bound = models
    BY DEF Asked
  <1>2. SeType /\ sq.pc = "resolve" /\ sq.hits = <<>>
    BY <1>1, SearchAssumption DEF SeType
  <1>3. CorpusKept
    BY <1>1, SearchAssumption DEF CorpusKept
  <1> QED BY <1>2, <1>3 DEF SeInv, OneInv, QueryInv, ManyInv, SparseInv, DenseInv, PoolInv, PageInv

\* Every step of the search, and every change under it, keeps it.
LEMMA SeStep == SeInv /\ [SeNext]_sevars => SeInv'
  <1> SUFFICES ASSUME SeInv, [SeNext]_sevars PROVE SeInv'
    OBVIOUS
  <1>1. CASE Refuse \/ ResolveReranker
    BY <1>1, ResolveKeeps
  <1>2. CASE EmbedQuery
    BY <1>2, EmbedQueryKeeps
  <1>3. CASE EmbedForModels
    BY <1>3, EmbedForModelsKeeps
  <1>4. CASE HybridSearch
    BY <1>4, HybridSearchKeeps
  <1>5. CASE SparseSearch
    BY <1>5, SparseSearchKeeps
  <1>6. CASE DenseSearch
    BY <1>6, DenseSearchKeeps
  <1>7. CASE FuseLegs
    BY <1>7, FuseLegsKeeps
  <1>8. CASE Rerank \/ Degrade \/ SeAnswer
    BY <1>8, AnswerKeeps
  <1>9. CASE \/ \E c \in SeCols : Reembed(c) \/ DropBook(c) \/ \E m \in SeModels : Rebind(c, m)
             \/ DropRanker
    BY <1>9, ChangeKeeps
  <1>10. CASE UNCHANGED sevars
    BY <1>10 DEF sevars, SeInv, SeType, CorpusKept, OneInv, QueryInv, ManyInv, SparseInv, DenseInv,
                 PoolInv, PageInv, LegsRun, Plain, Covering, Findable, Pending, GroupsOf, DenseRows, Filtered
  <1> QED BY <1>1, <1>2, <1>3, <1>4, <1>5, <1>6, <1>7, <1>8, <1>9, <1>10 DEF SeNext

\* For any collections, bindings, keys and requests, and whatever is rebound, re-embedded
\* or deleted meanwhile: a hit is in the scope of the key and among the targets.
THEOREM HitsAreWhereAsked == SeSpec => []WhereAsked
  <1>1. SeInv => WhereAsked
    <2> SUFFICES ASSUME SeInv, NEW i \in DOMAIN sq.hits
                 PROVE  /\ InScopeOf(sq.q, ColOf(sq.hits[i]))
                        /\ InReach(sq.q) # {} => ColOf(sq.hits[i]) \in Targets(sq.q)
      BY DEF WhereAsked, InReach
    <2>1. sq.pc = "ok"
      BY DEF SeInv, PageInv
    <2>2. PICK S : S = Found(sq.legs) /\ S \subseteq IdsOf(Answers(sq.q)) /\ sq.hits \in Seq(S)
      BY <2>1 DEF SeInv, PageInv, PoolInv, LegsRun, Paged
    <2>3. sq.hits[i] \in S
      BY <2>2, LenProperties, ElementOfSeq
    <2>4. PICK r \in Answers(sq.q) : sq.hits[i] = r.id
      BY <2>2, <2>3 DEF IdsOf
    <2>5. r \in SeCorpus /\ \A s \in SeCorpus : s.id = r.id => s = r
      BY SearchAssumption DEF Answers
    <2>6. ColOf(sq.hits[i]) = r.col
      <3>1. (CHOOSE s \in SeCorpus : s.id = r.id) = r
        BY <2>5
      <3> QED BY <2>4, <3>1 DEF ColOf
    <2> QED BY <2>6 DEF Answers
  <1> QED BY SeInitial, SeStep, <1>1, PTL DEF SeSpec

\* An answer is a full page without repetition, and no search fails on a dimension.
THEOREM AnswersAreFullPages == SeSpec => []FullPage
  <1>1. SeInv => FullPage
    <2> SUFFICES ASSUME SeInv, sq.pc = "ok"
                 PROVE  /\ Cardinality(ToSet(sq.hits)) = Len(sq.hits)
                        /\ Len(sq.hits) = Min({sq.q.k, Cardinality(Found(sq.legs))})
                        /\ Plain => Len(sq.hits) = Min({sq.q.k, Cardinality(Findable)})
      BY DEF FullPage, Plain, InReach, SeInv
    <2>1. PICK S : S = Found(sq.legs) /\ IsFiniteSet(S) /\ Cardinality(S) \in Nat
      BY AnswersFinite, FS_CardinalityType DEF SeInv, PoolInv, LegsRun
    <2>2. PICK k \in Nat : k = sq.q.k
      BY PageIsNat DEF SeInv
    <2>3. sq.hits \in Seq(S) /\ Distinct(sq.hits)
          /\ Len(sq.hits) = IF Cardinality(S) <= k THEN Cardinality(S) ELSE k
      BY <2>1, <2>2 DEF SeInv, PageInv, Paged
    <2>4. Cardinality(ToSet(sq.hits)) = Len(sq.hits)
      BY <2>3, PageSize
    <2>5. Len(sq.hits) = Min({k, Cardinality(S)})
      <3>1. Min({k, Cardinality(S)}) = IF k <= Cardinality(S) THEN k ELSE Cardinality(S)
        BY <2>1, MinOfTwo
      <3> QED BY <2>1, <2>3, <3>1
    <2>6. ASSUME Plain PROVE Min({k, Cardinality(S)}) = Min({k, Cardinality(Findable)})
      <3>1. Covering(S, {}) /\ CorpusKept
        BY <2>1, <2>6 DEF SeInv, PoolInv
      <3> QED BY <2>2, <3>1, CoveredCounts
    <2> QED BY <2>1, <2>2, <2>4, <2>5, <2>6
  <1> QED BY SeInitial, SeStep, <1>1, PTL DEF SeSpec
=============================================================================
