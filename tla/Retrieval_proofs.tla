-------------------------- MODULE Retrieval_proofs --------------------------
(***************************************************************************)
(* Proofs about Retrieval, for any stores, graphs, questions and limits.   *)
(***************************************************************************)
EXTENDS Retrieval, FiniteSetTheorems, SequenceTheorems, TLAPS

(* Numbers and finite sets. *)

\* A set of natural numbers has a least element.
LEMMA LeastElement ==
  ASSUME NEW T, T \subseteq Nat, T # {}
  PROVE  \E m \in T : \A k \in T : m <= k
<1>1. PICK m \in T : \A k \in T : ~ (<<k, m>> \in OpToRel(<, Nat))
  BY NatLessThanWellFounded, WFMin
<1>2. ASSUME NEW k \in T PROVE m <= k
  <2>1. k \in Nat /\ m \in Nat /\ <<k, m>> \notin OpToRel(<, Nat)
    BY <1>1
  <2> QED
    BY <2>1 DEF OpToRel
<1> QED
  BY <1>2

\* Induction up to N, about the set T of the numbers for which something holds.
LEMMA Induction ==
  ASSUME NEW N \in Nat, NEW T, 0 \in T, \A n \in 0 .. N - 1 : n \in T => n + 1 \in T
  PROVE  \A n \in 0 .. N : n \in T
<1> DEFINE U == {k \in 0 .. N : k \notin T}
<1> SUFFICES ASSUME U # {} PROVE FALSE
  OBVIOUS
<1>1. PICK m \in U : \A k \in U : m <= k
  <2>1. U \subseteq Nat
    OBVIOUS
  <2> HIDE DEF U
  <2> QED
    BY <2>1, LeastElement
<1>2. m # 0 /\ m - 1 \in 0 .. N - 1 /\ m - 1 \in T
  BY <1>1
<1>3. (m - 1) + 1 \in T
  BY <1>2
<1> QED
  BY <1>1, <1>2, <1>3

\* In a finite set with a strict total order, ahead[x] being what precedes x,
\* each place is taken by one element.
LEMMA Places ==
  ASSUME NEW S, IsFiniteSet(S), NEW ahead \in [S -> SUBSET S],
         \A x \in S : x \notin ahead[x],
         \A x, y \in S : x \in ahead[y] => ahead[x] \subseteq ahead[y],
         \A x, y \in S : x = y \/ x \in ahead[y] \/ y \in ahead[x]
  PROVE  /\ Cardinality(S) \in Nat
         /\ \A x \in S : Cardinality(ahead[x]) \in 0 .. Cardinality(S) - 1
         /\ \A x, y \in S : x \in ahead[y] <=> Cardinality(ahead[x]) < Cardinality(ahead[y])
         /\ \A n \in 1 .. Cardinality(S) : \E x \in S : Cardinality(ahead[x]) = n - 1
<1> DEFINE place == [x \in S |-> Cardinality(ahead[x])]
           N == Cardinality(S)
<1>1. N \in Nat
  BY FS_CardinalityType
<1>2. ASSUME NEW x \in S
      PROVE  IsFiniteSet(ahead[x]) /\ place[x] \in Nat /\ place[x] < N
  <2>1. IsFiniteSet(ahead[x]) /\ Cardinality(ahead[x]) <= N
    BY FS_Subset
  <2>2. Cardinality(ahead[x]) # N
    BY FS_Subset
  <2>3. Cardinality(ahead[x]) \in Nat
    BY <2>1, FS_CardinalityType
  <2> QED
    BY <1>1, <2>1, <2>2, <2>3
<1>3. ASSUME NEW x \in S, NEW y \in S, x \in ahead[y]
      PROVE  place[x] < place[y]
  <2>1. ahead[x] \subseteq ahead[y] /\ ahead[x] # ahead[y]
    BY <1>3
  <2>2. IsFiniteSet(ahead[y]) /\ ahead[x] \in SUBSET ahead[y]
    BY <1>2, <2>1
  <2>3. Cardinality(ahead[x]) <= Cardinality(ahead[y]) /\ Cardinality(ahead[x]) # Cardinality(ahead[y])
    BY <2>1, <2>2, FS_Subset
  <2>4. place[x] \in Nat /\ place[y] \in Nat
    BY <1>2
  <2> QED
    BY <2>3, <2>4
<1>4. \A x, y \in S : x \in ahead[y] <=> place[x] < place[y]
  <2> SUFFICES ASSUME NEW x \in S, NEW y \in S, place[x] < place[y]
               PROVE  x \in ahead[y]
    BY <1>3
  <2>1. place[x] \in Nat /\ place[y] \in Nat
    BY <1>2
  <2>2. x # y /\ y \notin ahead[x]
    BY <1>3, <2>1
  <2> QED
    BY <2>2
<1>5. ASSUME N # 0
      PROVE  \A n \in 1 .. N : \E x \in S : place[x] = n - 1
  <2> DEFINE T == 0 .. N - 1
  <2>1. IsFiniteSet(T) /\ Cardinality(T) = N
    BY <1>1, <1>5, FS_Interval
  <2>2. place \in Injection(S, T)
    <3>1. place \in [S -> T]
      BY <1>1, <1>2
    <3>2. \A x, y \in S : place[x] = place[y] => x = y
      <4> SUFFICES ASSUME NEW x \in S, NEW y \in S, place[x] = place[y], x # y
                   PROVE  FALSE
        OBVIOUS
      <4>1. place[x] \in Nat /\ place[y] \in Nat /\ (place[x] < place[y] \/ place[y] < place[x])
        BY <1>2, <1>3
      <4> QED
        BY <4>1
    <3> HIDE DEF place, T
    <3> QED
      BY <3>1, <3>2 DEF Injection, IsInjective
  <2>3. place \in Surjection(S, T)
    BY <2>1, <2>2, FS_Injection
  <2>4. \A t \in T : \E x \in S : place[x] = t
    BY <2>3 DEF Surjection
  <2> QED
    BY <1>1, <2>4
<1>6. \A x \in S : place[x] \in 0 .. N - 1
  BY <1>1, <1>2
<1>7. \A n \in 1 .. N : \E x \in S : place[x] = n - 1
  BY <1>1, <1>5
<1> QED
  BY <1>1, <1>4, <1>6, <1>7

\* The greatest of finitely many numbers.
LEMMA Greatest ==
  ASSUME NEW T, T \subseteq Int, T # {}, IsFiniteSet(T)
  PROVE  MaxOf(T) \in T /\ \A k \in T : k <= MaxOf(T)
<1> DEFINE ahead == [x \in T |-> {y \in T : y > x}]
<1>1. /\ ahead \in [T -> SUBSET T]
      /\ \A x \in T : x \notin ahead[x]
      /\ \A x, y \in T : x \in ahead[y] => ahead[x] \subseteq ahead[y]
      /\ \A x, y \in T : x = y \/ x \in ahead[y] \/ y \in ahead[x]
  <2>1. ahead \in [T -> SUBSET T]
    OBVIOUS
  <2>2. \A x \in T : x \notin ahead[x]
    OBVIOUS
  <2>3. \A x, y \in T : x \in ahead[y] => ahead[x] \subseteq ahead[y]
    <3> SUFFICES ASSUME NEW x \in T, NEW y \in T, x > y, NEW z \in T, z > x PROVE z > y
      OBVIOUS
    <3>1. x \in Int /\ y \in Int /\ z \in Int
      OBVIOUS
    <3> QED
      BY <3>1
  <2>4. \A x, y \in T : x = y \/ x \in ahead[y] \/ y \in ahead[x]
    <3> SUFFICES ASSUME NEW x \in T, NEW y \in T PROVE x = y \/ x > y \/ y > x
      OBVIOUS
    <3>1. x \in Int /\ y \in Int
      OBVIOUS
    <3> QED
      BY <3>1
  <2> HIDE DEF ahead
  <2> QED
    BY <2>1, <2>2, <2>3, <2>4
<1>2. Cardinality(T) \in Nat /\ Cardinality(T) # 0
  BY FS_CardinalityType, FS_EmptySet
<1>3. PICK m \in T : Cardinality(ahead[m]) = 1 - 1
  <2> HIDE DEF ahead
  <2>1. \A n \in 1 .. Cardinality(T) : \E x \in T : Cardinality(ahead[x]) = n - 1
    BY <1>1, Places
  <2>2. 1 \in 1 .. Cardinality(T)
    BY <1>2
  <2> QED
    BY <2>1, <2>2
<1>4. ahead[m] = {}
  <2>1. ahead[m] \in SUBSET T
    BY <1>1
  <2>2. IsFiniteSet(ahead[m])
    BY <2>1, FS_Subset
  <2>3. Cardinality(ahead[m]) = 0
    BY <1>3
  <2> HIDE DEF ahead
  <2> QED
    BY <2>2, <2>3, FS_EmptySet
<1>5. \E n \in T : \A k \in T : k <= n
  BY <1>4
<1> QED
  BY <1>5 DEF MaxOf

(* Functions defined by recursion: the equation that defines one up to N has a  *)
(* solution, so the function that the definition chooses satisfies it.          *)

Steps(N, A) == [(1 .. N) \X A -> A]

Follows(f, N, first, step) ==
  \A n \in 0 .. N : f[n] = IF n = 0 THEN first ELSE step[<<n, f[n - 1]>>]

LEMMA Recursion ==
  ASSUME NEW N \in Nat, NEW A, NEW first \in A, NEW step \in Steps(N, A)
  PROVE  \E f \in [0 .. N -> A] : Follows(f, N, first, step)
<1> DEFINE Solves(f, m) ==
             /\ f \in [0 .. m -> A]
             /\ Follows(f, m, first, step)
           T == {m \in 0 .. N : \E f : Solves(f, m)}
<1>1. 0 \in T
  <2> DEFINE f == [n \in 0 .. 0 |-> first]
  <2>1. f \in [0 .. 0 -> A]
    OBVIOUS
  <2>2. Follows(f, 0, first, step)
    BY DEF Follows
  <2>3. 0 \in 0 .. N
    OBVIOUS
  <2> HIDE DEF f
  <2> QED
    BY <2>1, <2>2, <2>3
<1>2. ASSUME NEW m \in 0 .. N - 1, m \in T
      PROVE  m + 1 \in T
  <2>1. PICK f \in [0 .. m -> A] :
               \A n \in 0 .. m : f[n] = IF n = 0 THEN first ELSE step[<<n, f[n - 1]>>]
    BY <1>2 DEF Follows
  <2> DEFINE g == [n \in 0 .. m + 1 |-> IF n <= m THEN f[n] ELSE step[<<m + 1, f[m]>>]]
  <2>2. f[m] \in A /\ step[<<m + 1, f[m]>>] \in A
    BY DEF Steps
  <2>3. g \in [0 .. m + 1 -> A]
    BY <2>2
  <2>4. ASSUME NEW n \in 0 .. m + 1
        PROVE  g[n] = IF n = 0 THEN first ELSE step[<<n, g[n - 1]>>]
    <3>1. CASE n = 0
      <4>1. 0 \in 0 .. m /\ 0 <= m
        OBVIOUS
      <4>2. f[0] = first
        BY <2>1, <4>1
      <4> QED
        BY <3>1, <4>1, <4>2
    <3>2. CASE n # 0 /\ n <= m
      <4>1. n \in 0 .. m /\ n - 1 \in 0 .. m + 1 /\ n - 1 <= m
        BY <3>2
      <4>2. f[n] = step[<<n, f[n - 1]>>]
        BY <2>1, <3>2, <4>1
      <4> QED
        BY <3>2, <4>1, <4>2
    <3>3. CASE n = m + 1
      <4>1. g[n] = step[<<m + 1, f[m]>>] /\ g[n - 1] = f[m] /\ n # 0
        BY <3>3
      <4> HIDE DEF g
      <4> QED
        BY <3>3, <4>1
    <3> QED
      BY <3>1, <3>2, <3>3
  <2>5. m + 1 \in 0 .. N
    OBVIOUS
  <2> HIDE DEF g
  <2> QED
    BY <2>3, <2>4, <2>5 DEF Follows
<1>3. N \in T
  <2> HIDE DEF T
  <2>1. \A n \in 0 .. N : n \in T
    BY <1>1, <1>2, Induction
  <2> QED
    BY <2>1
<1> QED
  BY <1>3

\* Pieces put together one after the other.
LEMMA Concatenation ==
  ASSUME NEW N \in Nat, NEW A, NEW own \in [1 .. N -> Seq(A)]
  PROVE  /\ \E f : f = [n \in 0 .. N |-> IF n = 0 THEN <<>> ELSE f[n - 1] \o own[n]]
         /\ \A f : f = [n \in 0 .. N |-> IF n = 0 THEN <<>> ELSE f[n - 1] \o own[n]] =>
              /\ f[N] \in Seq(A)
              /\ \A e : e \in ElementsOf(f[N]) <=> \E n \in 1 .. N : e \in ElementsOf(own[n])
<1>1. <<>> \in Seq(A) /\ ElementsOf(<<>>) = {}
  BY EmptySeq DEF ElementsOf
<1>2. ASSUME NEW s \in Seq(A), NEW t \in Seq(A)
      PROVE  s \o t \in Seq(A) /\ ElementsOf(s \o t) = ElementsOf(s) \cup ElementsOf(t)
  <2>1. /\ s \o t \in Seq(A) /\ Len(s) \in Nat /\ Len(t) \in Nat
        /\ Len(s \o t) = Len(s) + Len(t)
        /\ \A i \in 1 .. Len(s) + Len(t) : (s \o t)[i] = IF i <= Len(s) THEN s[i] ELSE t[i - Len(s)]
        /\ DOMAIN s = 1 .. Len(s) /\ DOMAIN t = 1 .. Len(t)
        /\ DOMAIN (s \o t) = 1 .. Len(s) + Len(t)
    BY ConcatProperties, LenProperties
  <2>2. ElementsOf(s \o t) \subseteq ElementsOf(s) \cup ElementsOf(t)
    <3> SUFFICES ASSUME NEW i \in 1 .. Len(s) + Len(t)
                 PROVE  (s \o t)[i] \in ElementsOf(s) \cup ElementsOf(t)
      BY <2>1 DEF ElementsOf
    <3>1. CASE i <= Len(s)
      BY <2>1, <3>1, SMTT(30) DEF ElementsOf
    <3>2. CASE ~ (i <= Len(s))
      <4>1. i - Len(s) \in 1 .. Len(t)
        BY <2>1, <3>2
      <4> QED
        BY <2>1, <3>2, <4>1 DEF ElementsOf
    <3> QED
      BY <3>1, <3>2
  <2>3. ASSUME NEW i \in 1 .. Len(s)
        PROVE  s[i] \in ElementsOf(s \o t)
    <3>1. i \in 1 .. Len(s) + Len(t) /\ (s \o t)[i] = s[i]
      BY <2>1
    <3> QED
      BY <2>1, <3>1 DEF ElementsOf
  <2>4. ASSUME NEW i \in 1 .. Len(t)
        PROVE  t[i] \in ElementsOf(s \o t)
    <3>1. Len(s) + i \in 1 .. Len(s) + Len(t) /\ (s \o t)[Len(s) + i] = t[i]
      BY <2>1
    <3> QED
      BY <2>1, <3>1 DEF ElementsOf
  <2>5. ElementsOf(s) \cup ElementsOf(t) \subseteq ElementsOf(s \o t)
    BY <2>1, <2>3, <2>4 DEF ElementsOf
  <2> QED
    BY <2>1, <2>2, <2>5
<1>3. \E f : f = [n \in 0 .. N |-> IF n = 0 THEN <<>> ELSE f[n - 1] \o own[n]]
  <2> DEFINE step == [p \in (1 .. N) \X Seq(A) |-> p[2] \o own[p[1]]]
  <2>1. step \in Steps(N, Seq(A))
    BY <1>2 DEF Steps
  <2>2. \A n \in 1 .. N, s \in Seq(A) : step[<<n, s>>] = s \o own[n]
    OBVIOUS
  <2> HIDE DEF step
  <2>3. PICK f \in [0 .. N -> Seq(A)] : Follows(f, N, <<>>, step)
    BY <1>1, <2>1, Recursion
  <2>4. ASSUME NEW n \in 0 .. N
        PROVE  f[n] = IF n = 0 THEN <<>> ELSE f[n - 1] \o own[n]
    <3>1. n # 0 => n - 1 \in 0 .. N /\ n \in 1 .. N
      OBVIOUS
    <3> QED
      BY <2>2, <2>3, <3>1 DEF Follows
  <2> QED
    BY <2>4
<1>4. ASSUME NEW f, f = [n \in 0 .. N |-> IF n = 0 THEN <<>> ELSE f[n - 1] \o own[n]]
      PROVE  /\ f[N] \in Seq(A)
             /\ \A e : e \in ElementsOf(f[N]) <=> \E n \in 1 .. N : e \in ElementsOf(own[n])
  <2> DEFINE T == {m \in 0 .. N :
                     /\ f[m] \in Seq(A)
                     /\ \A e : e \in ElementsOf(f[m]) <=> \E n \in 1 .. m : e \in ElementsOf(own[n])}
  <2>1. \A n \in 0 .. N : f[n] = IF n = 0 THEN <<>> ELSE f[n - 1] \o own[n]
    BY <1>4
  <2>2. 0 \in T
    <3>1. f[0] = <<>> /\ \A n \in 1 .. 0 : FALSE
      BY <2>1
    <3>2. f[0] \in Seq(A) /\ ElementsOf(f[0]) = {} /\ 0 \in 0 .. N
      BY <1>1, <3>1
    <3>3. \A e : e \in ElementsOf(f[0]) <=> \E n \in 1 .. 0 : e \in ElementsOf(own[n])
      BY <3>1, <3>2
    <3> QED
      BY <3>2, <3>3
  <2>3. ASSUME NEW m \in 0 .. N - 1, m \in T
        PROVE  m + 1 \in T
    <3>1. m + 1 \in 0 .. N /\ m + 1 # 0 /\ (m + 1) - 1 = m /\ m + 1 \in 1 .. N
      OBVIOUS
    <3>2. f[m + 1] = f[m] \o own[m + 1]
      BY <2>1, <3>1
    <3>3. f[m + 1] \in Seq(A) /\ ElementsOf(f[m + 1]) = ElementsOf(f[m]) \cup ElementsOf(own[m + 1])
      BY <1>2, <2>3, <3>1, <3>2
    <3>4. \A n : n \in 1 .. m + 1 <=> n \in 1 .. m \/ n = m + 1
      OBVIOUS
    <3>5. \A e : e \in ElementsOf(f[m]) <=> \E n \in 1 .. m : e \in ElementsOf(own[n])
      BY <2>3
    <3>6. ASSUME NEW e
          PROVE  e \in ElementsOf(f[m + 1]) <=> \E n \in 1 .. m + 1 : e \in ElementsOf(own[n])
      BY <3>3, <3>4, <3>5
    <3> QED
      BY <3>1, <3>3, <3>6
  <2>4. N \in T
    <3> HIDE DEF T
    <3>1. \A n \in 0 .. N : n \in T
      BY <2>2, <2>3, Induction
    <3> QED
      BY <3>1
  <2> QED
    BY <2>4
<1> QED
  BY <1>3, <1>4

\* f adds up the first m numbers of size.
AddsUp(f, size, m) ==
  f = [n \in 0 .. m |-> IF n = 0 THEN 0 ELSE f[n - 1] + size[n]]

\* Numbers can be added up, and a shorter sum is the beginning of a longer one.
LEMMA SumExists ==
  ASSUME NEW N \in Nat, NEW size, \A n \in 1 .. N : size[n] \in Nat
  PROVE  \E f : AddsUp(f, size, N)
<1> DEFINE step == [p \in (1 .. N) \X Nat |-> p[2] + size[p[1]]]
<1>1. step \in Steps(N, Nat)
  BY DEF Steps
<1>2. \A n \in 1 .. N, s \in Nat : step[<<n, s>>] = s + size[n]
  OBVIOUS
<1> HIDE DEF step
<1>3. PICK f \in [0 .. N -> Nat] : Follows(f, N, 0, step)
  BY <1>1, Recursion
<1>4. ASSUME NEW n \in 0 .. N
      PROVE  f[n] = IF n = 0 THEN 0 ELSE f[n - 1] + size[n]
  <2>1. n # 0 => n - 1 \in 0 .. N /\ n \in 1 .. N
    OBVIOUS
  <2> QED
    BY <1>2, <1>3, <2>1 DEF Follows
<1> QED
  BY <1>4 DEF AddsUp

LEMMA SumsAgree ==
  ASSUME NEW N \in Nat, NEW size, \A n \in 1 .. N : size[n] \in Nat,
         NEW f, AddsUp(f, size, N), NEW m \in 0 .. N, NEW g, AddsUp(g, size, m)
  PROVE  f[m] \in Nat /\ g[m] = f[m]
<1> DEFINE T == {k \in 0 .. m : f[k] \in Nat /\ g[k] = f[k]}
<1>1. 0 \in T
  BY DEF AddsUp
<1>2. ASSUME NEW k \in 0 .. m - 1, k \in T
      PROVE  k + 1 \in T
  <2>1. k + 1 \in 0 .. m /\ k + 1 \in 0 .. N /\ k + 1 # 0 /\ (k + 1) - 1 = k /\ k + 1 \in 1 .. N
    OBVIOUS
  <2>2. f[k + 1] = f[k] + size[k + 1] /\ g[k + 1] = g[k] + size[k + 1]
    BY <2>1 DEF AddsUp
  <2> QED
    BY <1>2, <2>1, <2>2
<1>3. m \in T
  <2> HIDE DEF T
  <2>1. \A n \in 0 .. m : n \in T
    BY <1>1, <1>2, Induction
  <2> QED
    BY <2>1
<1> QED
  BY <1>3
-----------------------------------------------------------------------------
(* What expands the seeds. *)

StatementName ==
  {"class_methods", "ancestor_classes", "descendant_classes", "parents_and_siblings",
   "dependency_symbols"}

LEMMA StatementsType ==
  ASSUME NEW x \in Row
  PROVE  /\ StatementsFor(x) \in Seq(StatementName)
         /\ x.chunk_type \in {"class", "function", "file"}
         /\ x.chunk_type = "class" =>
              ElementsOf(StatementsFor(x)) =
                {"class_methods", "ancestor_classes", "descendant_classes", "dependency_symbols"}
         /\ x.chunk_type = "function" =>
              ElementsOf(StatementsFor(x)) = {"parents_and_siblings", "dependency_symbols"}
         /\ x.chunk_type = "file" => ElementsOf(StatementsFor(x)) = {}
<1>1. x.chunk_type \in {"class", "function", "file"}
  BY DEF Row
<1>2. CASE x.chunk_type = "class"
  <2>1. StatementsFor(x) =
          <<"class_methods", "ancestor_classes", "descendant_classes", "dependency_symbols">>
    BY <1>2 DEF StatementsFor
  <2>2. StatementsFor(x) \in Seq(StatementName)
    BY <2>1 DEF StatementName
  <2>3. DOMAIN StatementsFor(x) = {1, 2, 3, 4}
    BY <2>1
  <2>4. ElementsOf(StatementsFor(x)) =
          {StatementsFor(x)[1], StatementsFor(x)[2], StatementsFor(x)[3], StatementsFor(x)[4]}
    BY <2>3 DEF ElementsOf
  <2> QED
    BY <1>2, <2>1, <2>2, <2>4
<1>3. CASE x.chunk_type = "function"
  <2>1. StatementsFor(x) = <<"parents_and_siblings", "dependency_symbols">>
    BY <1>3 DEF StatementsFor
  <2>2. StatementsFor(x) \in Seq(StatementName)
    BY <2>1 DEF StatementName
  <2>3. DOMAIN StatementsFor(x) = {1, 2}
    BY <2>1
  <2>4. ElementsOf(StatementsFor(x)) = {StatementsFor(x)[1], StatementsFor(x)[2]}
    BY <2>3 DEF ElementsOf
  <2> QED
    BY <1>3, <2>1, <2>2, <2>4
<1>4. CASE x.chunk_type = "file"
  <2>1. StatementsFor(x) = <<>>
    BY <1>4 DEF StatementsFor
  <2> QED
    BY <1>4, <2>1, EmptySeq DEF ElementsOf
<1> QED
  BY <1>1, <1>2, <1>3, <1>4

\* What is to be asked about the seeds is what each of them costs, no more and
\* no less.
LEMMA ExpansionIsAll ==
  ASSUME NEW seeds \in Seq(CandidateType)
  PROVE  /\ Expansion(seeds) \in Seq(StatementType)
         /\ \A p \in ElementsOf(Expansion(seeds)) :
              /\ p.statement \in ElementsOf(StatementsFor(p.seed))
              /\ \E k \in DOMAIN seeds : seeds[k].row = p.seed
         /\ \A k \in DOMAIN seeds : \A s \in ElementsOf(StatementsFor(seeds[k].row)) :
              [seed |-> seeds[k].row, statement |-> s] \in ElementsOf(Expansion(seeds))
<1> DEFINE N == Len(seeds)
           Of(x) == [k \in DOMAIN StatementsFor(x) |->
                       [seed |-> x, statement |-> StatementsFor(x)[k]]]
           own == [n \in 1 .. N |-> Of(seeds[n].row)]
<1>1. N \in Nat /\ DOMAIN seeds = 1 .. N /\ \A n \in 1 .. N : seeds[n].row \in Row
  <2>1. N \in Nat /\ DOMAIN seeds = 1 .. N
    BY LenProperties
  <2>2. \A n \in 1 .. N : seeds[n] \in CandidateType
    BY ElementOfSeq
  <2> QED
    BY <2>1, <2>2 DEF CandidateType
<1>2. ASSUME NEW x \in Row
      PROVE  /\ Of(x) \in Seq(StatementType)
             /\ \A p \in ElementsOf(Of(x)) : p.seed = x /\ p.statement \in ElementsOf(StatementsFor(x))
             /\ \A s \in ElementsOf(StatementsFor(x)) :
                  [seed |-> x, statement |-> s] \in ElementsOf(Of(x))
  <2>1. StatementsFor(x) \in Seq(StatementName)
    BY StatementsType
  <2>2. PICK n \in Nat : DOMAIN StatementsFor(x) = 1 .. n
    BY <2>1, LenProperties
  <2>3. \A k \in 1 .. n : StatementsFor(x)[k] \in StatementName
    BY <2>1, <2>2
  <2>4. Of(x) \in [1 .. n -> StatementType]
    BY <2>2, <2>3 DEF StatementType, StatementName
  <2>5. Of(x) \in Seq(StatementType)
    BY <2>4, SeqDef
  <2> QED
    BY <2>2, <2>5 DEF ElementsOf
<1>3. own \in [1 .. N -> Seq(StatementType)] /\ \A n \in 1 .. N : own[n] = Of(seeds[n].row)
  BY <1>1, <1>2
<1> DEFINE upto == CHOOSE f : f = [n \in 0 .. N |-> IF n = 0 THEN <<>>
                                     ELSE f[n - 1] \o Of(seeds[n].row)]
<1>4. Expansion(seeds) = upto[N]
  BY DEF Expansion
<1> HIDE DEF own, Of
<1>5. \A f : f = [n \in 0 .. N |-> IF n = 0 THEN <<>> ELSE f[n - 1] \o Of(seeds[n].row)]
             <=> f = [n \in 0 .. N |-> IF n = 0 THEN <<>> ELSE f[n - 1] \o own[n]]
  <2>1. ASSUME NEW f
        PROVE  [n \in 0 .. N |-> IF n = 0 THEN <<>> ELSE f[n - 1] \o Of(seeds[n].row)]
               = [n \in 0 .. N |-> IF n = 0 THEN <<>> ELSE f[n - 1] \o own[n]]
    <3>1. \A n \in 0 .. N : n # 0 => n \in 1 .. N
      BY <1>1
    <3> QED
      BY <1>3, <3>1
  <2> QED
    BY <2>1
<1>6. \E f : f = [n \in 0 .. N |-> IF n = 0 THEN <<>> ELSE f[n - 1] \o Of(seeds[n].row)]
  <2>1. PICK f : f = [n \in 0 .. N |-> IF n = 0 THEN <<>> ELSE f[n - 1] \o own[n]]
    BY <1>1, <1>3, Concatenation
  <2> QED
    BY <1>5, <2>1
<1>7. upto = [n \in 0 .. N |-> IF n = 0 THEN <<>> ELSE upto[n - 1] \o Of(seeds[n].row)]
  BY <1>6
<1> HIDE DEF upto
<1>8. upto = [n \in 0 .. N |-> IF n = 0 THEN <<>> ELSE upto[n - 1] \o own[n]]
  BY <1>5, <1>7
<1>9. /\ upto[N] \in Seq(StatementType)
      /\ \A e : e \in ElementsOf(upto[N]) <=> \E n \in 1 .. N : e \in ElementsOf(own[n])
  BY <1>1, <1>3, <1>8, Concatenation
<1> QED
  BY <1>1, <1>2, <1>3, <1>4, <1>9
-----------------------------------------------------------------------------
(* Ranking. *)

WeightsType == [vector : Nat, keyword : Nat, graph : Nat]

RowsOf(hits) == {h.row : h \in ElementsOf(hits)}

\* The hits of one chunk.
Own(hits, x) == {h \in ElementsOf(hits) : h.row = x}

LEMMA FiniteImage ==
  ASSUME NEW S, IsFiniteSet(S), NEW f
  PROVE  IsFiniteSet({f[x] : x \in S})
<1> DEFINE T == {f[x] : x \in S}
           g == [x \in S |-> f[x]]
<1>1. g \in [S -> T] /\ \A t \in T : \E x \in S : g[x] = t
  OBVIOUS
<1>2. g \in Surjection(S, T)
  <2> HIDE DEF g, T
  <2> QED
    BY <1>1 DEF Surjection
<1> HIDE DEF g
<1> QED
  BY <1>2, FS_Surjection

LEMMA HitsFinite ==
  ASSUME NEW hits \in Seq(HitType)
  PROVE  /\ Len(hits) \in Nat /\ DOMAIN hits = 1 .. Len(hits)
         /\ \A k \in 1 .. Len(hits) : hits[k] \in HitType
         /\ ElementsOf(hits) \subseteq HitType /\ IsFiniteSet(ElementsOf(hits))
         /\ RowsOf(hits) \subseteq Row /\ IsFiniteSet(RowsOf(hits))
         /\ \A x \in RowsOf(hits) : Own(hits, x) # {} /\ IsFiniteSet(Own(hits, x))
<1>1. Len(hits) \in Nat /\ DOMAIN hits = 1 .. Len(hits)
  BY LenProperties
<1>2. \A k \in 1 .. Len(hits) : hits[k] \in HitType
  BY ElementOfSeq
<1>3. IsFiniteSet(1 .. Len(hits))
  BY <1>1, FS_Interval
<1>4. ElementsOf(hits) \subseteq HitType /\ IsFiniteSet(ElementsOf(hits))
  <2>1. IsFiniteSet({hits[k] : k \in 1 .. Len(hits)})
    BY <1>3, FiniteImage
  <2> QED
    BY <1>1, <1>2, <2>1 DEF ElementsOf
<1>5. IsFiniteSet(RowsOf(hits))
  <2> DEFINE f == [h \in ElementsOf(hits) |-> h.row]
  <2>1. RowsOf(hits) = {f[h] : h \in ElementsOf(hits)}
    BY DEF RowsOf
  <2> HIDE DEF f
  <2> QED
    BY <1>4, <2>1, FiniteImage
<1>6. RowsOf(hits) \subseteq Row
  BY <1>4 DEF RowsOf, HitType
<1>7. ASSUME NEW x \in RowsOf(hits)
      PROVE  Own(hits, x) # {} /\ IsFiniteSet(Own(hits, x))
  <2>1. Own(hits, x) # {} /\ Own(hits, x) \in SUBSET ElementsOf(hits)
    BY DEF RowsOf, Own
  <2> QED
    BY <1>4, <2>1, FS_Subset
<1> QED
  BY <1>1, <1>2, <1>4, <1>5, <1>6, <1>7

\* Of each score, a chunk has the best that some hit of it has.
LEMMA BestScores ==
  ASSUME NEW hits \in Seq(HitType), NEW x \in RowsOf(hits)
  PROVE  LET V == MaxOf({h.vector_similarity : h \in Own(hits, x)})
             K == MaxOf({h.keyword_score : h \in Own(hits, x)})
             G == MaxOf({h.graph_score : h \in Own(hits, x)})
         IN  /\ V \in Nat /\ K \in Nat /\ G \in Nat
             /\ \E h \in Own(hits, x) : h.vector_similarity = V
             /\ \E h \in Own(hits, x) : h.keyword_score = K
             /\ \E h \in Own(hits, x) : h.graph_score = G
             /\ \A h \in Own(hits, x) :
                  h.vector_similarity <= V /\ h.keyword_score <= K /\ h.graph_score <= G
<1>1. /\ Own(hits, x) # {} /\ IsFiniteSet(Own(hits, x))
      /\ \A h \in Own(hits, x) : h \in HitType
  BY HitsFinite DEF Own
<1>2. \A h \in Own(hits, x) :
        h.vector_similarity \in Nat /\ h.keyword_score \in Nat /\ h.graph_score \in Nat
  <2> SUFFICES ASSUME NEW h \in HitType
               PROVE  h.vector_similarity \in Nat /\ h.keyword_score \in Nat /\ h.graph_score \in Nat
    BY <1>1
  <2>1. h.vector_similarity \in 0 .. 100 /\ h.keyword_score \in Nat /\ h.graph_score \in 0 .. 60
    BY DEF HitType
  <2>2. 0 .. 100 \subseteq Nat /\ 0 .. 60 \subseteq Nat
    OBVIOUS
  <2> QED
    BY <2>1, <2>2, Zenon
<1>3. ASSUME NEW f, \A h \in Own(hits, x) : f[h] \in Nat
      PROVE  LET T == {f[h] : h \in Own(hits, x)}
             IN  MaxOf(T) \in T /\ \A k \in T : k <= MaxOf(T)
  <2> DEFINE T == {f[h] : h \in Own(hits, x)}
  <2>1. T \subseteq Int /\ T # {} /\ IsFiniteSet(T)
    BY <1>1, <1>3, FiniteImage
  <2> HIDE DEF T
  <2>2. MaxOf(T) \in T /\ \A k \in T : k <= MaxOf(T)
    BY <2>1, Greatest
  <2> QED
    BY <2>2 DEF T
<1>4. LET T == {h.vector_similarity : h \in Own(hits, x)}
      IN  MaxOf(T) \in T /\ \A k \in T : k <= MaxOf(T)
  <2> DEFINE f == [h \in Own(hits, x) |-> h.vector_similarity]
  <2>1. {f[h] : h \in Own(hits, x)} = {h.vector_similarity : h \in Own(hits, x)}
    OBVIOUS
  <2>2. \A h \in Own(hits, x) : f[h] \in Nat
    BY <1>2
  <2> HIDE DEF f
  <2> QED
    BY <1>3, <2>1, <2>2
<1>5. LET T == {h.keyword_score : h \in Own(hits, x)}
      IN  MaxOf(T) \in T /\ \A k \in T : k <= MaxOf(T)
  <2> DEFINE f == [h \in Own(hits, x) |-> h.keyword_score]
  <2>1. {f[h] : h \in Own(hits, x)} = {h.keyword_score : h \in Own(hits, x)}
    OBVIOUS
  <2>2. \A h \in Own(hits, x) : f[h] \in Nat
    BY <1>2
  <2> HIDE DEF f
  <2> QED
    BY <1>3, <2>1, <2>2
<1>6. LET T == {h.graph_score : h \in Own(hits, x)}
      IN  MaxOf(T) \in T /\ \A k \in T : k <= MaxOf(T)
  <2> DEFINE f == [h \in Own(hits, x) |-> h.graph_score]
  <2>1. {f[h] : h \in Own(hits, x)} = {h.graph_score : h \in Own(hits, x)}
    OBVIOUS
  <2>2. \A h \in Own(hits, x) : f[h] \in Nat
    BY <1>2
  <2> HIDE DEF f
  <2> QED
    BY <1>3, <2>1, <2>2
<1> QED
  BY <1>2, <1>4, <1>5, <1>6

LEMMA ScoreType ==
  ASSUME NEW hits \in Seq(HitType), NEW x \in RowsOf(hits), NEW weights \in WeightsType
  PROVE  CombinedScore(weights, hits, x) \in Nat
<1> DEFINE V == MaxOf({h.vector_similarity : h \in Own(hits, x)})
           K == MaxOf({h.keyword_score : h \in Own(hits, x)})
           G == MaxOf({h.graph_score : h \in Own(hits, x)})
<1>1. CombinedScore(weights, hits, x) = weights.vector * V + weights.keyword * K + weights.graph * G
  BY DEF CombinedScore, Own
<1>2. V \in Nat /\ K \in Nat /\ G \in Nat
  BY BestScores
<1>3. weights.vector \in Nat /\ weights.keyword \in Nat /\ weights.graph \in Nat
  BY DEF WeightsType
<1> HIDE DEF V, K, G
<1>4. \A a, b \in Nat : a * b \in Nat
  OBVIOUS
<1>5. weights.vector * V \in Nat /\ weights.keyword * K \in Nat /\ weights.graph * G \in Nat
  BY <1>2, <1>3, <1>4
<1>6. \A a, b, c \in Nat : a + b + c \in Nat
  OBVIOUS
<1> QED
  BY <1>1, <1>5, <1>6, Zenon

LEMMA FirstHitIsFirst ==
  ASSUME NEW hits \in Seq(HitType), NEW x \in RowsOf(hits)
  PROVE  FirstHit(hits, x) \in Nat /\ FirstHit(hits, x) \in DOMAIN hits
         /\ hits[FirstHit(hits, x)].row = x
<1> DEFINE T == {k \in DOMAIN hits : hits[k].row = x}
<1>1. DOMAIN hits = 1 .. Len(hits) /\ Len(hits) \in Nat
  BY LenProperties
<1>2. T \subseteq Nat /\ T # {}
  BY <1>1 DEF RowsOf, ElementsOf
<1>3. PICK m \in T : \A k \in T : m <= k
  <2> HIDE DEF T
  <2> QED
    BY <1>2, LeastElement
<1>4. \A i \in 1 .. m - 1 : hits[i].row # x
  BY <1>1, <1>3
<1>5. \E k \in DOMAIN hits : hits[k].row = x /\ \A i \in 1 .. k - 1 : hits[i].row # x
  BY <1>3, <1>4
<1> QED
  BY <1>1, <1>5 DEF FirstHit

\* merge_and_rank lists the chunks found, each once with the reasons of all its
\* hits, the best ones in descending order of their score.
LEMMA Merged ==
  ASSUME NEW hits \in Seq(HitType), NEW weights \in WeightsType, NEW top_k \in Nat,
         NEW ranked, ranked = merge_and_rank(weights, hits, top_k)
  PROVE  /\ Cardinality(RowsOf(hits)) \in Nat
         /\ Len(ranked) = Least(top_k, Cardinality(RowsOf(hits)))
         /\ ranked \in Seq(CandidateType)
         /\ \A n \in 1 .. Len(ranked) :
              /\ ranked[n].row \in RowsOf(hits)
              /\ ranked[n].found_via = {h.found_via : h \in Own(hits, ranked[n].row)}
         /\ \A i, j \in 1 .. Len(ranked) : i < j =>
              /\ ranked[i].row # ranked[j].row
              /\ CombinedScore(weights, hits, ranked[i].row)
                   >= CombinedScore(weights, hits, ranked[j].row)
         /\ \A x \in RowsOf(hits) : (\A n \in 1 .. Len(ranked) : ranked[n].row # x) =>
              \A n \in 1 .. Len(ranked) :
                CombinedScore(weights, hits, x) <= CombinedScore(weights, hits, ranked[n].row)
<1> DEFINE found == RowsOf(hits)
           N == Cardinality(found)
           score(x) == CombinedScore(weights, hits, x)
           first(x) == FirstHit(hits, x)
           ahead == [x \in found |-> {y \in found : Before(weights, hits, y, x)}]
           L == Least(top_k, N)
           Via(x) == {h.found_via : h \in Own(hits, x)}
           At(n) == CHOOSE y \in found : Cardinality({z \in found : Before(weights, hits, z, y)}) = n - 1
<1>1. /\ \A x \in found : score(x) \in Nat /\ first(x) \in Nat
      /\ \A x, y \in found : first(x) = first(y) => x = y
  BY ScoreType, FirstHitIsFirst
<1>2. found \subseteq Row /\ IsFiniteSet(found)
  BY HitsFinite
<1>3. \A x, y \in found : Before(weights, hits, x, y) <=>
        score(x) > score(y) \/ (score(x) = score(y) /\ first(x) < first(y))
  BY DEF Before
<1> HIDE DEF found, score, first
<1>4. /\ \A x \in found : ~ Before(weights, hits, x, x)
      /\ \A x, y \in found : x = y \/ Before(weights, hits, x, y) \/ Before(weights, hits, y, x)
  <2>1. ASSUME NEW x \in found, NEW y \in found
        PROVE  x = y \/ Before(weights, hits, x, y) \/ Before(weights, hits, y, x)
    <3>1. /\ score(x) \in Nat /\ score(y) \in Nat /\ first(x) \in Nat /\ first(y) \in Nat
          /\ first(x) = first(y) => x = y
      BY <1>1
    <3> QED
      BY <1>3, <3>1
  <2> QED
    BY <1>1, <1>3, <2>1
<1>5. ASSUME NEW x \in found, NEW y \in found, NEW z \in found,
             Before(weights, hits, x, y), Before(weights, hits, y, z)
      PROVE  Before(weights, hits, x, z)
  <2>1. /\ score(x) \in Nat /\ score(y) \in Nat /\ score(z) \in Nat
        /\ first(x) \in Nat /\ first(y) \in Nat /\ first(z) \in Nat
    BY <1>1
  <2> QED
    BY <1>3, <1>5, <2>1
<1>6. /\ ahead \in [found -> SUBSET found]
      /\ \A x \in found : ahead[x] = {y \in found : Before(weights, hits, y, x)}
  OBVIOUS
<1> HIDE DEF ahead
<1>7. /\ N \in Nat
      /\ \A x \in found : Cardinality(ahead[x]) \in 0 .. N - 1
      /\ \A x, y \in found : x \in ahead[y] <=> Cardinality(ahead[x]) < Cardinality(ahead[y])
      /\ \A n \in 1 .. N : \E x \in found : Cardinality(ahead[x]) = n - 1
  <2>1. \A x \in found : x \notin ahead[x]
    BY <1>4, <1>6
  <2>2. \A x, y \in found : x \in ahead[y] => ahead[x] \subseteq ahead[y]
    BY <1>5, <1>6
  <2>3. \A x, y \in found : x = y \/ x \in ahead[y] \/ y \in ahead[x]
    BY <1>4, <1>6
  <2> QED
    BY <1>2, <1>6, <2>1, <2>2, <2>3, Places
<1>8. L \in Nat /\ L <= N /\ (L = top_k \/ L = N)
  BY <1>7 DEF Least
<1>9. \A n \in 1 .. L : At(n) \in found /\ Cardinality(ahead[At(n)]) = n - 1
  <2> SUFFICES ASSUME NEW n \in 1 .. L
               PROVE  At(n) \in found /\ Cardinality(ahead[At(n)]) = n - 1
    OBVIOUS
  <2>1. n \in 1 .. N
    BY <1>7, <1>8
  <2>2. \E y \in found : Cardinality({z \in found : Before(weights, hits, z, y)}) = n - 1
    BY <1>6, <1>7, <2>1
  <2>3. /\ At(n) \in found
        /\ Cardinality({z \in found : Before(weights, hits, z, At(n))}) = n - 1
    BY <2>2
  <2> HIDE DEF At
  <2> QED
    BY <1>6, <2>3
<1>10. ranked = [n \in 1 .. L |-> [row |-> At(n), found_via |-> Via(At(n))]]
  BY DEF merge_and_rank, found, RowsOf, Own
<1> HIDE DEF At, L, N
<1>11. ASSUME NEW x \in found PROVE Via(x) \subseteq {"vector", "keyword"} \cup Relationship
  <2>1. \A h \in Own(hits, x) : h \in HitType
    BY HitsFinite DEF Own
  <2> QED
    BY <2>1 DEF HitType
<1> HIDE DEF Via
<1>12. /\ ranked \in [1 .. L -> CandidateType]
       /\ \A n \in 1 .. L : ranked[n].row = At(n) /\ ranked[n].found_via = Via(At(n))
  BY <1>2, <1>9, <1>10, <1>11 DEF CandidateType
<1>13. ranked \in Seq(CandidateType) /\ Len(ranked) = L
  BY <1>8, <1>12, SeqDef
<1>14. ASSUME NEW i \in 1 .. L, NEW j \in 1 .. L, i < j
       PROVE  /\ ranked[i].row # ranked[j].row
              /\ score(ranked[i].row) >= score(ranked[j].row)
  <2>1. /\ ranked[i].row \in found /\ ranked[j].row \in found
        /\ Cardinality(ahead[ranked[i].row]) = i - 1
        /\ Cardinality(ahead[ranked[j].row]) = j - 1
    BY <1>9, <1>12
  <2>2. i \in Nat /\ j \in Nat /\ i - 1 < j - 1 /\ i - 1 # j - 1
    BY <1>8, <1>14
  <2>3. Before(weights, hits, ranked[i].row, ranked[j].row)
    BY <1>6, <1>7, <2>1, <2>2
  <2>4. score(ranked[i].row) \in Nat /\ score(ranked[j].row) \in Nat
    BY <1>1, <2>1
  <2> QED
    BY <1>3, <2>1, <2>2, <2>3, <2>4
<1>15. ASSUME NEW x \in found, \A n \in 1 .. L : ranked[n].row # x, NEW n \in 1 .. L
       PROVE  score(x) <= score(ranked[n].row)
  <2>1. ranked[n].row \in found /\ Cardinality(ahead[ranked[n].row]) = n - 1
    BY <1>9, <1>12
  <2>2. Cardinality(ahead[x]) \in Nat /\ Cardinality(ahead[x]) + 1 \in 1 .. N
    BY <1>7
  <2>3. ASSUME Cardinality(ahead[x]) < L
        PROVE  FALSE
    <3> DEFINE m == Cardinality(ahead[x]) + 1
    <3>1. m \in 1 .. L /\ m - 1 = Cardinality(ahead[x])
      BY <1>8, <2>2, <2>3
    <3>2. At(m) \in found /\ Cardinality(ahead[At(m)]) = Cardinality(ahead[x])
      BY <1>9, <3>1
    <3>3. x \notin ahead[At(m)] /\ At(m) \notin ahead[x]
      BY <1>7, <3>2
    <3>4. x = At(m)
      BY <1>4, <1>6, <3>2, <3>3
    <3> QED
      BY <1>12, <1>15, <3>1, <3>4
  <2>4. Cardinality(ahead[ranked[n].row]) < Cardinality(ahead[x])
    BY <1>8, <2>1, <2>2, <2>3
  <2>5. Before(weights, hits, ranked[n].row, x)
    BY <1>6, <1>7, <2>1, <2>4
  <2>6. score(ranked[n].row) \in Nat /\ score(x) \in Nat
    BY <1>1, <2>1
  <2> QED
    BY <1>3, <2>1, <2>5, <2>6
<1> QED
  BY <1>7, <1>9, <1>12, <1>13, <1>14, <1>15 DEF score, found, Via, N, L
-----------------------------------------------------------------------------
(* The context. *)

\* The size of the first k sections.
SizeOf(ranked, k) ==
  LET total[i \in 0 .. k] == IF i = 0 THEN 0 ELSE total[i - 1] + ranked[i].row.size
  IN  total[k]

\* What build_context takes fits, unless it is a single section, and one more
\* would not fit.
LEMMA ContextFits ==
  ASSUME NEW ranked \in Seq(CandidateType), NEW n, n = build_context(ranked)
  PROVE  /\ n \in 0 .. Len(ranked)
         /\ n > 1 => SizeOf(ranked, n) \in Nat /\ SizeOf(ranked, n) <= MaxContextChars
         /\ n < Len(ranked) => /\ n > 0 /\ SizeOf(ranked, n + 1) \in Nat
                               /\ SizeOf(ranked, n + 1) > MaxContextChars
<1> DEFINE N == Len(ranked)
           size == [k \in 1 .. N |-> ranked[k].row.size]
           Total(f, m) == f = [i \in 0 .. m |-> IF i = 0 THEN 0 ELSE f[i - 1] + ranked[i].row.size]
           total == CHOOSE f : Total(f, N)
           T == {k \in 0 .. N : \A j \in 2 .. k : total[j] <= MaxContextChars}
<1>1. N \in Nat /\ \A k \in 1 .. N : ranked[k].row.size \in Nat
  <2>1. \A k \in 1 .. N : ranked[k] \in CandidateType
    BY ElementOfSeq
  <2>2. \A k \in 1 .. N : ranked[k].row \in Row
    BY <2>1 DEF CandidateType
  <2>3. \A x \in Row : x.size \in Nat
    BY DEF Row
  <2> QED
    BY <2>2, <2>3, LenProperties
<1>2. build_context(ranked) = MaxOf(T)
  BY DEF build_context
<1>3. ASSUME NEW m \in 0 .. N
      PROVE  /\ \E f : Total(f, m)
             /\ \A f, g : Total(f, N) /\ Total(g, m) => f[m] \in Nat /\ g[m] = f[m]
  <2>1. \A k \in 1 .. N : size[k] \in Nat /\ size[k] = ranked[k].row.size
    BY <1>1
  <2> HIDE DEF size
  <2>2. ASSUME NEW k \in 0 .. N, NEW f
        PROVE  Total(f, k) <=> AddsUp(f, size, k)
    <3>1. \A i \in 0 .. k : i # 0 => size[i] = ranked[i].row.size
      BY <1>1, <2>1
    <3>2. [i \in 0 .. k |-> IF i = 0 THEN 0 ELSE f[i - 1] + size[i]]
          = [i \in 0 .. k |-> IF i = 0 THEN 0 ELSE f[i - 1] + ranked[i].row.size]
      BY <3>1
    <3> QED
      BY <3>2 DEF AddsUp
  <2> HIDE DEF Total
  <2>3. m \in Nat /\ \A k \in 1 .. m : size[k] \in Nat
    BY <1>1, <2>1
  <2>4. \E f : Total(f, m)
    BY <2>2, <2>3, SumExists
  <2>5. ASSUME NEW f, NEW g, Total(f, N), Total(g, m)
        PROVE  f[m] \in Nat /\ g[m] = f[m]
    <3>1. AddsUp(f, size, N) /\ AddsUp(g, size, m)
      BY <1>1, <2>2, <2>5
    <3> QED
      BY <1>1, <2>1, <3>1, SumsAgree
  <2> QED
    BY <2>4, <2>5
<1>4. Total(total, N)
  <2> HIDE DEF Total
  <2>1. \E f : Total(f, N)
    BY <1>1, <1>3
  <2> QED
    BY <2>1
<1>5. ASSUME NEW m \in 0 .. N
      PROVE  SizeOf(ranked, m) = total[m] /\ total[m] \in Nat
  <2> DEFINE g == CHOOSE f : Total(f, m)
  <2>1. SizeOf(ranked, m) = g[m]
    BY DEF SizeOf
  <2>2. Total(g, m)
    <3>1. \E f : Total(f, m)
      BY <1>3
    <3> HIDE DEF Total
    <3> QED
      BY <3>1
  <2> HIDE DEF Total, total, g
  <2> QED
    BY <1>3, <1>4, <2>1, <2>2
<1> HIDE DEF Total, total
<1>6. n \in T /\ \A k \in T : k <= n
  <2>1. 0 \in T /\ T \in SUBSET (0 .. N)
    BY <1>1
  <2>2. IsFiniteSet(T) /\ T \subseteq Int /\ T # {}
    <3>1. IsFiniteSet(0 .. N)
      BY <1>1, FS_Interval
    <3>2. 0 .. N \subseteq Int
      OBVIOUS
    <3> HIDE DEF T
    <3> QED
      BY <2>1, <3>1, <3>2, FS_Subset
  <2> HIDE DEF T
  <2> QED
    BY <1>2, <2>2, Greatest
<1>7. n \in 0 .. N /\ n \in Nat
  BY <1>1, <1>6
<1>8. ASSUME n > 1
      PROVE  SizeOf(ranked, n) \in Nat /\ SizeOf(ranked, n) <= MaxContextChars
  <2>1. n \in 2 .. n
    BY <1>7, <1>8
  <2> QED
    BY <1>5, <1>6, <1>7, <2>1
<1>9. ASSUME n < N
      PROVE  /\ n > 0 /\ SizeOf(ranked, n + 1) \in Nat
             /\ SizeOf(ranked, n + 1) > MaxContextChars
  <2>1. n + 1 \in 0 .. N /\ ~ (n + 1 <= n)
    BY <1>1, <1>7, <1>9
  <2>2. n + 1 \notin T
    BY <1>6, <2>1
  <2>3. PICK j \in 2 .. n + 1 : ~ (total[j] <= MaxContextChars)
    BY <2>1, <2>2
  <2>4. j = n + 1
    <3>1. j \in 2 .. n \/ j = n + 1
      BY <1>7
    <3> QED
      BY <1>6, <2>3, <3>1
  <2>5. total[n + 1] \in Nat /\ MaxContextChars \in Nat
    BY <1>5, <2>1, LimitsAssumption
  <2> QED
    BY <1>5, <1>7, <2>1, <2>3, <2>4, <2>5
<1> QED
  BY <1>7, <1>8, <1>9
-----------------------------------------------------------------------------
(* Types. *)

Symbol == Path \X QualifiedName

BestType == UNION {[S -> Relationship] : S \in SUBSET Symbol}

CallType ==
  [question : Questions, vector_hits : Seq(HitType), keyword_hits : Seq(HitType),
   seeds : Seq(CandidateType), pending : Seq(StatementType), best : BestType,
   graph_hits : Seq(HitType), ranked : Seq(CandidateType), sources : Seq(CandidateType),
   quiet : BOOLEAN]

\* Finitely many chunks are stored, and only a hybrid call expands seeds.
TypeInv ==
  /\ rows \subseteq Row /\ IsFiniteSet(rows)
  /\ edges \in [Repository -> SUBSET Drawn]
  /\ pc \in {"idle", "vector", "keyword", "expand", "rank", "answered", "failed"}
  /\ call \in CallType
  /\ pc = "expand" => Asked.kind = "hybrid"

LEMMA RelationshipsAre ==
  /\ Relationship = {"class_method", "parent_class", "sibling_method", "ancestor_class",
                     "descendant_class", "dependency_symbol"}
  /\ \A r \in Relationship : GraphScore[r] \in 0 .. 60 /\ GraphScore[r] \in Nat
BY DEF Relationship, GraphScore

LEMMA BestIs ==
  ASSUME NEW best
  PROVE  best \in BestType <=> /\ DOMAIN best \subseteq Symbol
                               /\ best \in [DOMAIN best -> Relationship]
BY DEF BestType

LEMMA OrdersAre ==
  ASSUME NEW S, IsFiniteSet(S), NEW s \in Orders(S)
  PROVE  /\ Cardinality(S) \in Nat
         /\ s \in [1 .. Cardinality(S) -> S] /\ DOMAIN s = 1 .. Cardinality(S)
         /\ \A i, j \in 1 .. Cardinality(S) : s[i] = s[j] => i = j
         /\ ElementsOf(s) = S
<1> DEFINE N == Cardinality(S)
<1>1. N \in Nat
  BY FS_CardinalityType
<1>2. /\ s \in [1 .. N -> S] /\ DOMAIN s = 1 .. N
      /\ \A i, j \in 1 .. N : s[i] = s[j] => i = j
  BY DEF Orders
<1>3. s \in Injection(1 .. N, S)
  BY <1>2 DEF Injection, IsInjective
<1>4. Cardinality(1 .. N) = N
  BY <1>1, FS_Interval
<1>5. s \in Surjection(1 .. N, S)
  BY <1>3, <1>4, FS_Injection
<1>6. \A x \in S : \E k \in 1 .. N : s[k] = x
  BY <1>5 DEF Surjection
<1>7. ElementsOf(s) = S
  BY <1>2, <1>6 DEF ElementsOf
<1> QED
  BY <1>1, <1>2, <1>7

LEMMA SimilarityType ==
  ASSUME NEW distance \in 0 .. 200
  PROVE  VectorSimilarity(distance) \in 0 .. 100
BY DEF VectorSimilarity

\* Whatever a statement finds is a symbol.
LEMMA FoundTypes ==
  ASSUME NEW E \in SUBSET Drawn, NEW x
  PROVE  /\ class_methods(E, x) \subseteq Symbol
         /\ ancestor_classes(E, x) \subseteq Symbol
         /\ descendant_classes(E, x) \subseteq Symbol
         /\ dependency_symbols(E, x) \subseteq Symbol
         /\ parents_and_siblings(E, x) \subseteq Symbol \X Symbol
<1>1. ASSUME NEW n \in NodeType, n.name \in Name
      PROVE  SymbolOfNode(n) \in Symbol
  <2>1. n.path \in Path /\ n.parent_class \in Name \cup {None}
    BY DEF NodeType
  <2> QED
    BY <1>1, <2>1 DEF SymbolOfNode, Symbol, QualifiedName
<1>2. ASSUME NEW e \in E
      PROVE  /\ e.to.label \in {"Class", "Function"} => SymbolOfNode(e.to) \in Symbol
             /\ e.from.label = "Class" => SymbolOfNode(e.from) \in Symbol
             /\ e.type = "INHERITS" => e.from.label = "Class" /\ e.to.label = "Class"
  <2>1. e \in Drawn
    OBVIOUS
  <2>2. e.from \in NodeType /\ e.to \in NodeType
    BY <2>1 DEF Drawn, EdgeType
  <2> QED
    BY <1>1, <2>1, <2>2 DEF Drawn
<1>3. class_methods(E, x) \subseteq Symbol /\ ancestor_classes(E, x) \subseteq Symbol
  BY <1>2 DEF class_methods, ancestor_classes
<1>4. descendant_classes(E, x) \subseteq Symbol
  BY <1>2 DEF descendant_classes
<1>5. dependency_symbols(E, x) \subseteq Symbol
  BY <1>2 DEF dependency_symbols
<1>6. parents_and_siblings(E, x) \subseteq Symbol \X Symbol
  BY <1>2 DEF parents_and_siblings
<1> QED
  BY <1>3, <1>4, <1>5, <1>6

LEMMA RememberType ==
  ASSUME NEW best \in BestType, NEW r \in Relationship, NEW symbols \in SUBSET Symbol
  PROVE  /\ RememberBest(best, r, symbols) \in BestType
         /\ DOMAIN RememberBest(best, r, symbols) = DOMAIN best \cup symbols
<1>1. DOMAIN best \subseteq Symbol /\ \A y \in DOMAIN best : best[y] \in Relationship
  BY BestIs
<1>2. RememberBest(best, r, symbols) \in [DOMAIN best \cup symbols -> Relationship]
  BY <1>1 DEF RememberBest
<1> QED
  BY <1>1, <1>2, BestIs

LEMMA AskedAbout ==
  ASSUME TypeInv
  PROVE  /\ Asked \in Question /\ Asked \in Questions
         /\ Asked.kind = "hybrid" => Asked.repository_id \in Repository
         /\ Asked.kind \in {"rag", "hybrid"}
         /\ Asked.repository_id \in Repository \cup {None}
<1>1. Asked \in Questions /\ Questions \subseteq Question
  BY QuestionsAssumption DEF TypeInv, CallType, Asked
<1> QED
  BY <1>1 DEF Question

LEMMA NewCallType ==
  ASSUME NEW q \in Questions
  PROVE  NewCall(q) \in CallType
<1>1. NoBest \in BestType
  <2>1. NoBest \in [{} -> Relationship]
    BY DEF NoBest
  <2> QED
    BY <2>1 DEF BestType
<1>2. <<>> \in Seq(HitType) /\ <<>> \in Seq(CandidateType) /\ <<>> \in Seq(StatementType)
  BY EmptySeq
<1> QED
  BY <1>1, <1>2 DEF NewCall, CallType

LEMMA TypeInit == Init => TypeInv
<1> SUFFICES ASSUME Init PROVE TypeInv
  OBVIOUS
<1>1. call \in CallType
  BY NewCallType DEF Init
<1>2. rows \subseteq Row /\ IsFiniteSet(rows)
  BY FS_EmptySet DEF Init
<1> QED
  BY <1>1, <1>2 DEF Init, TypeInv
-----------------------------------------------------------------------------
(* What the statements of a call return. *)

VectorHit(x) == Hit(x, VectorSimilarity(x.distance), 0, 0, "vector")
KeywordHit(x) == Hit(x, 0, x.rank, 0, "keyword")
GraphHit(x, relationship) == Hit(x, 0, 0, GraphScore[relationship], relationship)

LEMMA HitTypes ==
  ASSUME NEW x \in Row
  PROVE  /\ VectorHit(x) \in HitType /\ VectorHit(x).row = x
         /\ KeywordHit(x) \in HitType /\ KeywordHit(x).row = x
         /\ \A r \in Relationship : GraphHit(x, r) \in HitType /\ GraphHit(x, r).row = x
<1>1. x.distance \in 0 .. 200 /\ x.rank \in Nat
  BY DEF Row
<1>2. VectorSimilarity(x.distance) \in 0 .. 100
  BY <1>1, SimilarityType
<1>3. 0 \in 0 .. 100 /\ 0 \in Nat /\ 0 \in 0 .. 60
  OBVIOUS
<1>4. VectorHit(x) \in HitType /\ VectorHit(x).row = x
  BY <1>2, <1>3 DEF VectorHit, Hit, HitType
<1>5. KeywordHit(x) \in HitType /\ KeywordHit(x).row = x
  BY <1>1, <1>3 DEF KeywordHit, Hit, HitType
<1>6. ASSUME NEW r \in Relationship
      PROVE  GraphHit(x, r) \in HitType /\ GraphHit(x, r).row = x
  <2>1. GraphScore[r] \in 0 .. 60
    BY RelationshipsAre
  <2> QED
    BY <1>3, <2>1 DEF GraphHit, Hit, HitType
<1> QED
  BY <1>4, <1>5, <1>6

\* The hits of some rows, in any order.
LEMMA HitsInOrder ==
  ASSUME NEW S \in SUBSET Row, IsFiniteSet(S), NEW s \in Orders(S), NEW f,
         \A x \in S : f[x] \in HitType /\ f[x].row = x,
         NEW hits, hits = [k \in DOMAIN s |-> f[s[k]]]
  PROVE  /\ hits \in Seq(HitType)
         /\ ElementsOf(hits) = {f[x] : x \in S}
         /\ RowsOf(hits) = S
<1>1. /\ Cardinality(S) \in Nat
      /\ s \in [1 .. Cardinality(S) -> S] /\ DOMAIN s = 1 .. Cardinality(S)
      /\ ElementsOf(s) = S
  BY OrdersAre
<1>2. hits \in [1 .. Cardinality(S) -> HitType]
  BY <1>1
<1>3. hits \in Seq(HitType)
  BY <1>1, <1>2, SeqDef
<1>4. \A x : x \in S <=> \E k \in DOMAIN s : s[k] = x
  BY <1>1 DEF ElementsOf
<1>5. ElementsOf(hits) = {f[x] : x \in S}
  <2>1. DOMAIN hits = DOMAIN s /\ \A k \in DOMAIN s : hits[k] = f[s[k]]
    OBVIOUS
  <2>2. ASSUME NEW h PROVE h \in ElementsOf(hits) <=> \E x \in S : h = f[x]
    BY <1>4, <2>1 DEF ElementsOf
  <2> QED
    BY <2>2
<1>6. RowsOf(hits) = S
  BY <1>5 DEF RowsOf
<1> QED
  BY <1>3, <1>5, <1>6

\* The vector search returns stored chunks that pass the filter.
LEMMA SimilarityFinds ==
  ASSUME TypeInv, similarity_search
  PROVE  \E hits \in Seq(HitType) :
           /\ call' = [call EXCEPT !.vector_hits = hits]
           /\ \A h \in ElementsOf(hits) : h.row \in rows /\ Matching(h.row) /\ h = VectorHit(h.row)
<1>1. PICK S \in SUBSET {x \in rows : Matching(x)} :
        \E s \in Orders(S) :
          call' = [call EXCEPT !.vector_hits =
                     [k \in DOMAIN s |-> Hit(s[k], VectorSimilarity(s[k].distance), 0, 0, "vector")]]
  BY DEF similarity_search
<1>2. PICK s \in Orders(S) :
        call' = [call EXCEPT !.vector_hits =
                   [k \in DOMAIN s |-> Hit(s[k], VectorSimilarity(s[k].distance), 0, 0, "vector")]]
  BY <1>1
<1>3. S \in SUBSET Row /\ IsFiniteSet(S)
  BY FS_Subset DEF TypeInv
<1> DEFINE f == [x \in S |-> VectorHit(x)]
           hits == [k \in DOMAIN s |-> f[s[k]]]
<1>4. \A k \in DOMAIN s : s[k] \in S
  BY <1>3, OrdersAre
<1>5. [k \in DOMAIN s |-> Hit(s[k], VectorSimilarity(s[k].distance), 0, 0, "vector")] = hits
  BY <1>4 DEF VectorHit
<1>6. \A x \in S : f[x] \in HitType /\ f[x].row = x /\ f[x] = VectorHit(x)
  BY <1>3, HitTypes
<1>7. call' = [call EXCEPT !.vector_hits = hits]
  BY <1>2, <1>5
<1>8. hits \in Seq(HitType) /\ ElementsOf(hits) = {f[x] : x \in S}
  <2> HIDE DEF f
  <2> QED
    BY <1>3, <1>6, HitsInOrder
<1>9. ASSUME NEW h \in ElementsOf(hits)
      PROVE  h.row \in rows /\ Matching(h.row) /\ h = VectorHit(h.row)
  <2>1. PICK x \in S : h = f[x]
    BY <1>8
  <2> QED
    BY <1>6, <2>1
<1> HIDE DEF hits
<1> QED
  BY <1>7, <1>8, <1>9

\* The keyword search returns stored chunks that pass the filter and have a word
\* of the question, and a hybrid call ranks all hits to choose its seeds.
LEMMA KeywordFinds ==
  ASSUME TypeInv, keyword_search
  PROVE  \E hits \in Seq(HitType) :
           /\ \A h \in ElementsOf(hits) :
                h.row \in rows /\ Matching(h.row) /\ h.row.rank > 0 /\ h = KeywordHit(h.row)
           /\ \/ /\ Asked.kind = "rag" /\ pc' = "rank"
                 /\ call' = [call EXCEPT !.keyword_hits = hits]
              \/ /\ Asked.kind = "hybrid" /\ pc' = "expand"
                 /\ \E seeds :
                      /\ seeds = merge_and_rank(RagWeights, call.vector_hits \o hits, SeedLimit)
                      /\ call' = [call EXCEPT !.keyword_hits = hits, !.seeds = seeds,
                                              !.pending = Expansion(seeds)]
<1> DEFINE matching == {x \in rows : Matching(x) /\ x.rank > 0}
           Found(s) == [k \in DOMAIN s |-> Hit(s[k], 0, s[k].rank, 0, "keyword")]
           Seeds(s) == merge_and_rank(RagWeights, call.vector_hits \o Found(s), SeedLimit)
<1>1. PICK S \in SUBSET matching :
        \E s \in Orders(S) :
          IF Asked.kind = "rag"
          THEN pc' = "rank" /\ call' = [call EXCEPT !.keyword_hits = Found(s)]
          ELSE /\ pc' = "expand"
               /\ call' = [call EXCEPT !.keyword_hits = Found(s), !.seeds = Seeds(s),
                                       !.pending = Expansion(Seeds(s))]
  BY DEF keyword_search
<1>2. PICK s \in Orders(S) :
        IF Asked.kind = "rag"
        THEN pc' = "rank" /\ call' = [call EXCEPT !.keyword_hits = Found(s)]
        ELSE /\ pc' = "expand"
             /\ call' = [call EXCEPT !.keyword_hits = Found(s), !.seeds = Seeds(s),
                                     !.pending = Expansion(Seeds(s))]
  BY <1>1
<1>3. S \in SUBSET Row /\ IsFiniteSet(S)
  BY FS_Subset DEF TypeInv
<1> DEFINE f == [x \in S |-> KeywordHit(x)]
           hits == [k \in DOMAIN s |-> f[s[k]]]
<1>4. \A k \in DOMAIN s : s[k] \in S
  BY <1>3, OrdersAre
<1>5. Found(s) = hits
  BY <1>4 DEF KeywordHit
<1>6. \A x \in S : f[x] \in HitType /\ f[x].row = x /\ f[x] = KeywordHit(x)
  BY <1>3, HitTypes
<1>7. hits \in Seq(HitType) /\ ElementsOf(hits) = {f[x] : x \in S}
  <2> HIDE DEF f
  <2> QED
    BY <1>3, <1>6, HitsInOrder
<1>8. ASSUME NEW h \in ElementsOf(hits)
      PROVE  h.row \in rows /\ Matching(h.row) /\ h.row.rank > 0 /\ h = KeywordHit(h.row)
  <2>1. PICK x \in S : h = f[x]
    BY <1>7
  <2> QED
    BY <1>6, <2>1
<1>9. Asked.kind \in {"rag", "hybrid"}
  BY AskedAbout
<1> HIDE DEF hits, Found
<1>10. CASE Asked.kind = "rag"
  BY <1>2, <1>5, <1>7, <1>8, <1>10
<1>11. CASE Asked.kind = "hybrid"
  <2> DEFINE seeds == merge_and_rank(RagWeights, call.vector_hits \o hits, SeedLimit)
  <2>1. /\ pc' = "expand"
        /\ call' = [call EXCEPT !.keyword_hits = hits, !.seeds = seeds,
                                !.pending = Expansion(seeds)]
    BY <1>2, <1>5, <1>11
  <2> QED
    BY <1>7, <1>8, <1>11, <2>1
<1> QED
  BY <1>9, <1>10, <1>11

\* What two sequences have is what their concatenation has.
LEMMA ElementsOfConcat ==
  ASSUME NEW T, NEW s \in Seq(T), NEW t \in Seq(T)
  PROVE  ElementsOf(s \o t) = ElementsOf(s) \cup ElementsOf(t)
<1>1. /\ s \o t \in Seq(T) /\ Len(s \o t) = Len(s) + Len(t)
      /\ Len(s) \in Nat /\ Len(t) \in Nat
      /\ DOMAIN s = 1 .. Len(s) /\ DOMAIN t = 1 .. Len(t)
      /\ DOMAIN (s \o t) = 1 .. (Len(s) + Len(t))
  BY ConcatProperties, LenProperties
<1>2. \A i \in 1 .. (Len(s) + Len(t)) :
        (s \o t)[i] = IF i <= Len(s) THEN s[i] ELSE t[i - Len(s)]
  BY ConcatProperties
<1>3. ASSUME NEW e \in ElementsOf(s \o t)
      PROVE  e \in ElementsOf(s) \cup ElementsOf(t)
  <2>1. PICK i \in 1 .. (Len(s) + Len(t)) : e = (s \o t)[i]
    BY <1>1, <1>3 DEF ElementsOf
  <2>2. CASE i <= Len(s)
    BY <1>1, <1>2, <2>1, <2>2 DEF ElementsOf
  <2>3. CASE i > Len(s)
    <3>1. e = t[i - Len(s)] /\ i - Len(s) \in DOMAIN t
      BY <1>1, <1>2, <2>1, <2>3
    <3> QED
      BY <3>1 DEF ElementsOf
  <2> QED
    BY <1>1, <2>2, <2>3
<1>4. ASSUME NEW e \in ElementsOf(s) PROVE e \in ElementsOf(s \o t)
  <2>1. PICK i \in 1 .. Len(s) : e = s[i]
    BY <1>1 DEF ElementsOf
  <2>2. i \in DOMAIN (s \o t) /\ (s \o t)[i] = e
    BY <1>1, <1>2, <2>1
  <2> QED
    BY <2>2 DEF ElementsOf
<1>5. ASSUME NEW e \in ElementsOf(t) PROVE e \in ElementsOf(s \o t)
  <2>1. PICK i \in 1 .. Len(t) : e = t[i]
    BY <1>1 DEF ElementsOf
  <2>2. Len(s) + i \in DOMAIN (s \o t) /\ (s \o t)[Len(s) + i] = e
    BY <1>1, <1>2, <2>1
  <2> QED
    BY <2>2 DEF ElementsOf
<1> QED
  BY <1>3, <1>4, <1>5

\* Seeds come from the hits of the searches.
LEMMA SeedsAre ==
  ASSUME NEW vector_hits \in Seq(HitType), NEW keyword_hits \in Seq(HitType), NEW seeds,
         seeds = merge_and_rank(RagWeights, vector_hits \o keyword_hits, SeedLimit)
  PROVE  /\ seeds \in Seq(CandidateType)
         /\ \A k \in DOMAIN seeds :
              seeds[k].row \in RowsOf(vector_hits) \cup RowsOf(keyword_hits)
<1> DEFINE hits == vector_hits \o keyword_hits
<1>1. hits \in Seq(HitType)
  BY ConcatProperties
<1>2. RagWeights \in WeightsType /\ SeedLimit \in Nat
  BY LimitsAssumption DEF RagWeights, WeightsType
<1>3. /\ seeds \in Seq(CandidateType)
      /\ \A n \in 1 .. Len(seeds) : seeds[n].row \in RowsOf(hits)
  BY <1>1, <1>2, Merged
<1>4. DOMAIN seeds = 1 .. Len(seeds)
  BY <1>3, LenProperties
<1>5. RowsOf(hits) = RowsOf(vector_hits) \cup RowsOf(keyword_hits)
  BY ElementsOfConcat DEF RowsOf
<1> QED
  BY <1>3, <1>4, <1>5
-----------------------------------------------------------------------------
(* What the graph returns. *)

\* What a statement about the seed x finds, by relationship.
Finds(E, x, relationship, y) ==
  CASE relationship = "class_method" -> y \in class_methods(E, x)
    [] relationship = "ancestor_class" -> y \in ancestor_classes(E, x)
    [] relationship = "descendant_class" -> y \in descendant_classes(E, x)
    [] relationship = "dependency_symbol" -> y \in dependency_symbols(E, x)
    [] relationship = "parent_class" -> \E r \in parents_and_siblings(E, x) : r[1] = y
    [] relationship = "sibling_method" -> \E r \in parents_and_siblings(E, x) : r[2] = y

LookedFor(statement) ==
  CASE statement = "class_methods" -> {"class_method"}
    [] statement = "ancestor_classes" -> {"ancestor_class"}
    [] statement = "descendant_classes" -> {"descendant_class"}
    [] statement = "dependency_symbols" -> {"dependency_symbol"}
    [] statement = "parents_and_siblings" -> {"parent_class", "sibling_method"}

\* best is what was remembered once a statement about x was answered.
Recalls(best, before, E, x, statement) ==
  /\ best \in BestType
  /\ \A y \in DOMAIN best :
       \/ y \in DOMAIN before /\ best[y] = before[y]
       \/ best[y] \in LookedFor(statement) /\ Finds(E, x, best[y], y)
  /\ \A y \in DOMAIN before : y \in DOMAIN best /\ GraphScore[before[y]] <= GraphScore[best[y]]
  /\ \A r \in LookedFor(statement) : \A y : Finds(E, x, r, y) =>
       y \in DOMAIN best /\ GraphScore[r] <= GraphScore[best[y]]

LEMMA RememberKeepsBest ==
  ASSUME NEW best \in BestType, NEW r \in Relationship, NEW symbols \in SUBSET Symbol,
         NEW new, new = RememberBest(best, r, symbols)
  PROVE  /\ new \in BestType
         /\ \A y \in DOMAIN new : \/ y \in DOMAIN best /\ new[y] = best[y]
                                  \/ y \in symbols /\ new[y] = r
         /\ \A y \in DOMAIN best : y \in DOMAIN new /\ GraphScore[best[y]] <= GraphScore[new[y]]
         /\ \A y \in symbols : y \in DOMAIN new /\ GraphScore[r] <= GraphScore[new[y]]
<1>1. new \in BestType /\ DOMAIN new = DOMAIN best \cup symbols
  BY RememberType
<1>2. \A y \in DOMAIN best \cup symbols :
        new[y] = IF y \in DOMAIN best /\ (y \in symbols => GraphScore[r] <= GraphScore[best[y]])
                 THEN best[y] ELSE r
  BY DEF RememberBest
<1>3. /\ GraphScore[r] \in Nat
      /\ \A y \in DOMAIN best : GraphScore[best[y]] \in Nat
  BY BestIs, RelationshipsAre
<1>4. ASSUME NEW y \in DOMAIN new
      PROVE  \/ y \in DOMAIN best /\ new[y] = best[y]
             \/ y \in symbols /\ new[y] = r
  BY <1>1, <1>2
<1>5. ASSUME NEW y \in DOMAIN best
      PROVE  y \in DOMAIN new /\ GraphScore[best[y]] <= GraphScore[new[y]]
  BY <1>1, <1>2, <1>3
<1>6. ASSUME NEW y \in symbols
      PROVE  y \in DOMAIN new /\ GraphScore[r] <= GraphScore[new[y]]
  BY <1>1, <1>2, <1>3
<1> QED
  BY <1>1, <1>4, <1>5, <1>6

\* A method has one class.
LEMMA OneParent ==
  ASSUME NEW E \in SUBSET Drawn, NEW x, NEW r \in parents_and_siblings(E, x)
  PROVE  r[1] = SymbolOfNode(ClassNode(x.path, x.qualified_name[1]))
<1>1. PICK d \in E :
        /\ r = <<SymbolOfNode(d.from), SymbolOfNode(d.to)>>
        /\ d.from.path = x.path /\ d.from.label = "Class"
        /\ \E c \in E : /\ c.type = "DEFINES" /\ c.from = d.from
                        /\ SymbolOfNode(c.to)[2] = x.qualified_name
  BY DEF parents_and_siblings
<1>2. PICK c \in E : /\ c.type = "DEFINES" /\ c.from = d.from
                     /\ SymbolOfNode(c.to)[2] = x.qualified_name
  BY <1>1
<1>3. d.from = ClassNode(c.to.path, c.to.parent_class)
  BY <1>1, <1>2 DEF Drawn
<1>4. c.to.path = x.path
  BY <1>1, <1>3 DEF ClassNode, Node
<1>5. c.to.parent_class = x.qualified_name[1]
  BY <1>2 DEF SymbolOfNode
<1> QED
  BY <1>1, <1>3, <1>4, <1>5

\* A statement that looks for one relationship.
LEMMA OneRelationship ==
  ASSUME NEW best \in BestType, NEW E, NEW x, NEW statement, NEW r \in Relationship,
         NEW symbols \in SUBSET Symbol, LookedFor(statement) = {r},
         \A y : Finds(E, x, r, y) <=> y \in symbols
  PROVE  Recalls(RememberBest(best, r, symbols), best, E, x, statement)
<1> DEFINE new == RememberBest(best, r, symbols)
<1>1. /\ new \in BestType
      /\ \A y \in DOMAIN new : \/ y \in DOMAIN best /\ new[y] = best[y]
                               \/ y \in symbols /\ new[y] = r
      /\ \A y \in DOMAIN best : y \in DOMAIN new /\ GraphScore[best[y]] <= GraphScore[new[y]]
      /\ \A y \in symbols : y \in DOMAIN new /\ GraphScore[r] <= GraphScore[new[y]]
  BY RememberKeepsBest
<1> HIDE DEF new
<1>2. Recalls(new, best, E, x, statement)
  BY <1>1 DEF Recalls
<1> QED
  BY <1>2 DEF new

\* The statement about the class of a method and the other methods of it.
LEMMA TwoRelationships ==
  ASSUME NEW best \in BestType, NEW E \in SUBSET Drawn, NEW x,
         NEW first \in parents_and_siblings(E, x)
  PROVE  Recalls(RememberBest(RememberBest(best, "parent_class", {first[1]}), "sibling_method",
                              {r[2] : r \in parents_and_siblings(E, x)}),
                 best, E, x, "parents_and_siblings")
<1> DEFINE family == parents_and_siblings(E, x)
           siblings == {r[2] : r \in family}
           middle == RememberBest(best, "parent_class", {first[1]})
           new == RememberBest(middle, "sibling_method", siblings)
<1>1. {first[1]} \in SUBSET Symbol /\ siblings \in SUBSET Symbol
  <2>1. family \subseteq Symbol \X Symbol
    BY FoundTypes
  <2>2. \A r \in family : r[1] \in Symbol /\ r[2] \in Symbol
    BY <2>1
  <2> QED
    BY <2>2
<1>2. "parent_class" \in Relationship /\ "sibling_method" \in Relationship
  BY RelationshipsAre
<1>3. /\ middle \in BestType
      /\ \A y \in DOMAIN middle : \/ y \in DOMAIN best /\ middle[y] = best[y]
                                  \/ y \in {first[1]} /\ middle[y] = "parent_class"
      /\ \A y \in DOMAIN best : y \in DOMAIN middle /\ GraphScore[best[y]] <= GraphScore[middle[y]]
      /\ \A y \in {first[1]} :
           y \in DOMAIN middle /\ GraphScore["parent_class"] <= GraphScore[middle[y]]
  <2> HIDE DEF siblings
  <2> QED
    BY <1>1, <1>2, RememberKeepsBest
<1> HIDE DEF middle, siblings
<1>4. /\ new \in BestType
      /\ \A y \in DOMAIN new : \/ y \in DOMAIN middle /\ new[y] = middle[y]
                               \/ y \in siblings /\ new[y] = "sibling_method"
      /\ \A y \in DOMAIN middle : y \in DOMAIN new /\ GraphScore[middle[y]] <= GraphScore[new[y]]
      /\ \A y \in siblings :
           y \in DOMAIN new /\ GraphScore["sibling_method"] <= GraphScore[new[y]]
  BY <1>1, <1>2, <1>3, RememberKeepsBest
<1> HIDE DEF new
<1>5. /\ \A y : Finds(E, x, "parent_class", y) <=> y = first[1]
      /\ \A y : Finds(E, x, "sibling_method", y) <=> y \in siblings
  <2>1. \A r \in family : r[1] = first[1]
    BY OneParent
  <2> QED
    BY <2>1 DEF Finds, siblings
<1>6. LookedFor("parents_and_siblings") = {"parent_class", "sibling_method"}
  BY DEF LookedFor
<1>7. /\ \A y \in DOMAIN best : GraphScore[best[y]] \in Nat
      /\ \A y \in DOMAIN middle : GraphScore[middle[y]] \in Nat
      /\ \A y \in DOMAIN new : GraphScore[new[y]] \in Nat
      /\ GraphScore["parent_class"] \in Nat
  BY <1>2, <1>3, <1>4, BestIs, RelationshipsAre
<1>8. ASSUME NEW y \in DOMAIN new
      PROVE  \/ y \in DOMAIN best /\ new[y] = best[y]
             \/ new[y] \in LookedFor("parents_and_siblings") /\ Finds(E, x, new[y], y)
  BY <1>3, <1>4, <1>5, <1>6
<1>9. ASSUME NEW y \in DOMAIN best
      PROVE  y \in DOMAIN new /\ GraphScore[best[y]] <= GraphScore[new[y]]
  <2>1. y \in DOMAIN middle /\ y \in DOMAIN new
    BY <1>3, <1>4
  <2>2. GraphScore[best[y]] <= GraphScore[middle[y]] /\ GraphScore[middle[y]] <= GraphScore[new[y]]
    BY <1>3, <1>4, <2>1
  <2> QED
    BY <1>7, <2>1, <2>2
<1>10. first[1] \in DOMAIN new /\ GraphScore["parent_class"] <= GraphScore[new[first[1]]]
  <2>1. first[1] \in DOMAIN middle /\ first[1] \in DOMAIN new
    BY <1>3, <1>4
  <2>2. /\ GraphScore["parent_class"] <= GraphScore[middle[first[1]]]
        /\ GraphScore[middle[first[1]]] <= GraphScore[new[first[1]]]
    BY <1>3, <1>4, <2>1
  <2> QED
    BY <1>7, <2>1, <2>2
<1>11. ASSUME NEW r \in LookedFor("parents_and_siblings"), NEW y, Finds(E, x, r, y)
       PROVE  y \in DOMAIN new /\ GraphScore[r] <= GraphScore[new[y]]
  BY <1>4, <1>5, <1>6, <1>10, <1>11
<1>12. Recalls(new, best, E, x, "parents_and_siblings")
  BY <1>4, <1>8, <1>9, <1>11, SMTT(30) DEF Recalls
<1> QED
  BY <1>12 DEF new, middle, siblings

LEMMA StatementFinds ==
  ASSUME TypeInv, find_related_symbols
  PROVE  /\ pc = "expand" /\ call.pending # <<>>
         /\ \E best :
              /\ call' = [call EXCEPT !.pending = Tail(call.pending), !.best = best]
              /\ Recalls(best, call.best, edges[Asked.repository_id],
                         Head(call.pending).seed, Head(call.pending).statement)
<1> DEFINE E == edges[Asked.repository_id]
           next == Head(call.pending)
           family == parents_and_siblings(E, next.seed)
           Found == CASE next.statement = "class_methods" -> class_methods(E, next.seed)
                      [] next.statement = "ancestor_classes" -> ancestor_classes(E, next.seed)
                      [] next.statement = "descendant_classes" -> descendant_classes(E, next.seed)
                      [] next.statement = "dependency_symbols" -> dependency_symbols(E, next.seed)
           relationship == [class_methods |-> "class_method", ancestor_classes |-> "ancestor_class",
                            descendant_classes |-> "descendant_class",
                            dependency_symbols |-> "dependency_symbol"]
           Continues(best) ==
             call' = [call EXCEPT !.pending = Tail(call.pending), !.best = best]
<1>1. pc = "expand" /\ call.pending # <<>>
  BY DEF find_related_symbols
<1>2. /\ call.best \in BestType /\ call.pending \in Seq(StatementType)
      /\ E \in SUBSET Drawn
  BY <1>1, AskedAbout DEF TypeInv, CallType
<1>3. next.statement \in StatementName
  <2>1. next \in StatementType
    BY <1>1, <1>2, HeadTailProperties
  <2> QED
    BY <2>1 DEF StatementType, StatementName
<1>4. /\ class_methods(E, next.seed) \subseteq Symbol
      /\ ancestor_classes(E, next.seed) \subseteq Symbol
      /\ descendant_classes(E, next.seed) \subseteq Symbol
      /\ dependency_symbols(E, next.seed) \subseteq Symbol
  BY <1>2, FoundTypes
<1>5. next.statement # "parents_and_siblings" =>
        Continues(RememberBest(call.best, relationship[next.statement], Found))
  BY DEF find_related_symbols
<1> SUFFICES \E best : /\ Continues(best)
                       /\ Recalls(best, call.best, E, next.seed, next.statement)
  BY <1>1
<1>6. CASE next.statement = "class_methods"
  <2>1. Continues(RememberBest(call.best, "class_method", class_methods(E, next.seed)))
    <3>1. relationship[next.statement] = "class_method" /\ Found = class_methods(E, next.seed)
      BY <1>6
    <3> HIDE DEF relationship, Found, Continues
    <3> QED
      BY <1>5, <1>6, <3>1
  <2>2. /\ LookedFor(next.statement) = {"class_method"} /\ "class_method" \in Relationship
        /\ \A y : Finds(E, next.seed, "class_method", y) <=> y \in class_methods(E, next.seed)
    BY <1>6, RelationshipsAre DEF LookedFor, Finds
  <2>3. Recalls(RememberBest(call.best, "class_method", class_methods(E, next.seed)),
                call.best, E, next.seed, next.statement)
    <3> HIDE DEF E, next
    <3> QED
      BY <1>2, <1>4, <2>2, OneRelationship
  <2> QED
    BY <2>1, <2>3
<1>7. CASE next.statement = "ancestor_classes"
  <2>1. Continues(RememberBest(call.best, "ancestor_class", ancestor_classes(E, next.seed)))
    <3>1. relationship[next.statement] = "ancestor_class" /\ Found = ancestor_classes(E, next.seed)
      BY <1>7
    <3> HIDE DEF relationship, Found, Continues
    <3> QED
      BY <1>5, <1>7, <3>1
  <2>2. /\ LookedFor(next.statement) = {"ancestor_class"} /\ "ancestor_class" \in Relationship
        /\ \A y : Finds(E, next.seed, "ancestor_class", y) <=> y \in ancestor_classes(E, next.seed)
    BY <1>7, RelationshipsAre DEF LookedFor, Finds
  <2>3. Recalls(RememberBest(call.best, "ancestor_class", ancestor_classes(E, next.seed)),
                call.best, E, next.seed, next.statement)
    <3> HIDE DEF E, next
    <3> QED
      BY <1>2, <1>4, <2>2, OneRelationship
  <2> QED
    BY <2>1, <2>3
<1>8. CASE next.statement = "descendant_classes"
  <2>1. Continues(RememberBest(call.best, "descendant_class", descendant_classes(E, next.seed)))
    <3>1. relationship[next.statement] = "descendant_class" /\ Found = descendant_classes(E, next.seed)
      BY <1>8
    <3> HIDE DEF relationship, Found, Continues
    <3> QED
      BY <1>5, <1>8, <3>1
  <2>2. /\ LookedFor(next.statement) = {"descendant_class"} /\ "descendant_class" \in Relationship
        /\ \A y : Finds(E, next.seed, "descendant_class", y)
                    <=> y \in descendant_classes(E, next.seed)
    BY <1>8, RelationshipsAre DEF LookedFor, Finds
  <2>3. Recalls(RememberBest(call.best, "descendant_class", descendant_classes(E, next.seed)),
                call.best, E, next.seed, next.statement)
    <3> HIDE DEF E, next
    <3> QED
      BY <1>2, <1>4, <2>2, OneRelationship
  <2> QED
    BY <2>1, <2>3
<1>9. CASE next.statement = "dependency_symbols"
  <2>1. Continues(RememberBest(call.best, "dependency_symbol", dependency_symbols(E, next.seed)))
    <3>1. relationship[next.statement] = "dependency_symbol" /\ Found = dependency_symbols(E, next.seed)
      BY <1>9
    <3> HIDE DEF relationship, Found, Continues
    <3> QED
      BY <1>5, <1>9, <3>1
  <2>2. /\ LookedFor(next.statement) = {"dependency_symbol"} /\ "dependency_symbol" \in Relationship
        /\ \A y : Finds(E, next.seed, "dependency_symbol", y)
                    <=> y \in dependency_symbols(E, next.seed)
    BY <1>9, RelationshipsAre DEF LookedFor, Finds
  <2>3. Recalls(RememberBest(call.best, "dependency_symbol", dependency_symbols(E, next.seed)),
                call.best, E, next.seed, next.statement)
    <3> HIDE DEF E, next
    <3> QED
      BY <1>2, <1>4, <2>2, OneRelationship
  <2> QED
    BY <2>1, <2>3
<1>10. CASE next.statement = "parents_and_siblings" /\ family = {}
  <2>1. Continues(call.best)
    BY <1>10 DEF find_related_symbols
  <2>2. \A r \in LookedFor(next.statement) : \A y : ~ Finds(E, next.seed, r, y)
    BY <1>10 DEF LookedFor, Finds
  <2>3. \A y \in DOMAIN call.best : GraphScore[call.best[y]] <= GraphScore[call.best[y]]
    BY <1>2, BestIs, RelationshipsAre, SMTT(30)
  <2>4. Recalls(call.best, call.best, E, next.seed, next.statement)
    BY <1>2, <2>2, <2>3 DEF Recalls
  <2> QED
    BY <2>1, <2>4
<1>11. CASE next.statement = "parents_and_siblings" /\ family # {}
  <2> DEFINE both(first) ==
        RememberBest(RememberBest(call.best, "parent_class", {first[1]}), "sibling_method",
                     {r[2] : r \in family})
  <2>1. PICK first \in family : Continues(both(first))
    BY <1>11 DEF find_related_symbols
  <2>2. Recalls(both(first), call.best, E, next.seed, next.statement)
    <3> HIDE DEF E, next
    <3> QED
      BY <1>2, <1>11, TwoRelationships
  <2> QED
    BY <2>1, <2>2
<1> QED
  BY <1>3, <1>6, <1>7, <1>8, <1>9, <1>10, <1>11, ZenonT(30) DEF StatementName

\* The chunks of the symbols found, each with the relationship remembered of it.
LEMMA FetchFinds ==
  ASSUME TypeInv, fetch_chunks_by_symbol
  PROVE  /\ pc = "expand" /\ call.pending = <<>>
         /\ \E hits \in Seq(HitType) :
              /\ call' = [call EXCEPT !.graph_hits = hits]
              /\ \A h : h \in ElementsOf(hits) <=>
                   \E x \in rows : /\ x.repository_id = Asked.repository_id
                                   /\ SymbolOfRow(x) \in DOMAIN call.best
                                   /\ h = GraphHit(x, call.best[SymbolOfRow(x)])
<1>1. pc = "expand" /\ call.pending = <<>>
  BY DEF fetch_chunks_by_symbol
<1> DEFINE S == ChunksBySymbol(Asked.repository_id, DOMAIN call.best)
           f == [x \in S |-> GraphHit(x, call.best[SymbolOfRow(x)])]
<1>2. PICK s \in Orders(S) :
        call' = [call EXCEPT !.graph_hits =
                   [k \in DOMAIN s |->
                      LET relationship == call.best[SymbolOfRow(s[k])]
                      IN  Hit(s[k], 0, 0, GraphScore[relationship], relationship)]]
  BY DEF fetch_chunks_by_symbol
<1>3. /\ S \subseteq rows /\ S \in SUBSET Row
      /\ \A x \in S : SymbolOfRow(x) \in DOMAIN call.best
  BY DEF TypeInv, ChunksBySymbol
<1>4. IsFiniteSet(S)
  BY <1>3, FS_Subset DEF TypeInv
<1> DEFINE hits == [k \in DOMAIN s |-> f[s[k]]]
<1>5. \A k \in DOMAIN s : s[k] \in S
  <2> HIDE DEF S
  <2> QED
    BY <1>4, OrdersAre
<1>6. call' = [call EXCEPT !.graph_hits = hits]
  BY <1>2, <1>5 DEF GraphHit
<1>7. \A x \in S : f[x] \in HitType /\ f[x].row = x /\ f[x] = GraphHit(x, call.best[SymbolOfRow(x)])
  <2>1. \A x \in S : call.best[SymbolOfRow(x)] \in Relationship
    BY <1>3, BestIs DEF TypeInv, CallType
  <2> QED
    BY <1>3, <2>1, HitTypes
<1>8. hits \in Seq(HitType) /\ ElementsOf(hits) = {f[x] : x \in S}
  <2> HIDE DEF f, S
  <2> QED
    BY <1>3, <1>4, <1>7, HitsInOrder
<1>9. ASSUME NEW h
      PROVE  h \in ElementsOf(hits) <=>
               \E x \in rows : /\ x.repository_id = Asked.repository_id
                               /\ SymbolOfRow(x) \in DOMAIN call.best
                               /\ h = GraphHit(x, call.best[SymbolOfRow(x)])
  <2>1. h \in ElementsOf(hits) <=> \E x \in S : h = GraphHit(x, call.best[SymbolOfRow(x)])
    BY <1>7, <1>8
  <2> QED
    BY <2>1 DEF ChunksBySymbol
<1> HIDE DEF hits
<1> QED
  BY <1>1, <1>6, <1>8, <1>9

\* Answer ranks all hits and takes its sources from the front of the ranking.
LEMMA AnswerIs ==
  ASSUME TypeInv, Answer
  PROVE  \E hits, ranked :
           /\ hits = call.vector_hits \o call.keyword_hits \o call.graph_hits
           /\ hits \in Seq(HitType)
           /\ ElementsOf(hits) = ElementsOf(call.vector_hits) \cup ElementsOf(call.keyword_hits)
                                   \cup ElementsOf(call.graph_hits)
           /\ ranked = merge_and_rank(Weights, hits, FinalTopK)
           /\ Weights \in WeightsType /\ FinalTopK \in Nat
           /\ ranked \in Seq(CandidateType)
           /\ build_context(ranked) \in 0 .. Len(ranked)
           /\ call' = [call EXCEPT !.ranked = ranked,
                                   !.sources = SubSeq(ranked, 1, build_context(ranked))]
           /\ SubSeq(ranked, 1, build_context(ranked)) \in Seq(CandidateType)
           /\ Len(SubSeq(ranked, 1, build_context(ranked))) = build_context(ranked)
           /\ \A n \in 1 .. build_context(ranked) :
                SubSeq(ranked, 1, build_context(ranked))[n] = ranked[n]
<1> DEFINE front == call.vector_hits \o call.keyword_hits
           hits == front \o call.graph_hits
           ranked == merge_and_rank(Weights, hits, FinalTopK)
           n == build_context(ranked)
<1>1. /\ call.vector_hits \in Seq(HitType) /\ call.keyword_hits \in Seq(HitType)
      /\ call.graph_hits \in Seq(HitType)
  BY DEF TypeInv, CallType
<1>2. /\ front \in Seq(HitType)
      /\ ElementsOf(front) = ElementsOf(call.vector_hits) \cup ElementsOf(call.keyword_hits)
  BY <1>1, ConcatProperties, ElementsOfConcat
<1>3. /\ hits \in Seq(HitType)
      /\ ElementsOf(hits) = ElementsOf(front) \cup ElementsOf(call.graph_hits)
  <2> HIDE DEF front
  <2> QED
    BY <1>1, <1>2, ConcatProperties, ElementsOfConcat
<1>4. Weights \in WeightsType /\ FinalTopK \in Nat
  BY LimitsAssumption DEF Weights, RagWeights, HybridWeights, WeightsType
<1>5. ranked \in Seq(CandidateType)
  <2> HIDE DEF hits
  <2> QED
    BY <1>3, <1>4, Merged
<1>6. n \in 0 .. Len(ranked)
  <2> HIDE DEF ranked
  <2> QED
    BY <1>5, ContextFits
<1>7. /\ SubSeq(ranked, 1, n) \in Seq(CandidateType)
      /\ Len(SubSeq(ranked, 1, n)) = n
      /\ \A k \in 1 .. n : SubSeq(ranked, 1, n)[k] = ranked[k]
  <2> HIDE DEF ranked, n
  <2>1. Len(ranked) \in Nat /\ n \in Nat /\ \A k \in 1 .. n : k \in 1 .. Len(ranked)
    BY <1>5, <1>6, LenProperties
  <2>2. 1 \in 1 .. Len(ranked) + 1 /\ n \in 1 - 1 .. Len(ranked)
    BY <1>6, <2>1
  <2> QED
    BY <1>5, <2>1, <2>2, SubSeqProperties
<1>8. call' = [call EXCEPT !.ranked = ranked, !.sources = SubSeq(ranked, 1, n)]
  BY DEF Answer
<1> HIDE DEF n
<1>9. ElementsOf(hits) = ElementsOf(call.vector_hits) \cup ElementsOf(call.keyword_hits)
                           \cup ElementsOf(call.graph_hits)
  BY <1>2, <1>3
<1>10. /\ n = build_context(ranked)
       /\ hits = call.vector_hits \o call.keyword_hits \o call.graph_hits
  BY DEF n
<1> HIDE DEF ranked
<1>11. ranked = merge_and_rank(Weights, hits, FinalTopK)
  BY DEF ranked
<1> HIDE DEF hits
<1> QED
  BY <1>3, <1>4, <1>5, <1>6, <1>7, <1>8, <1>9, <1>10, <1>11
-----------------------------------------------------------------------------
(* Types are kept. *)

LEMMA TypeStep == TypeInv /\ [Next]_vars => TypeInv'
<1> SUFFICES ASSUME TypeInv, [Next]_vars PROVE TypeInv'
  OBVIOUS
<1>1. /\ rows \subseteq Row /\ IsFiniteSet(rows) /\ edges \in [Repository -> SUBSET Drawn]
      /\ pc \in {"idle", "vector", "keyword", "expand", "rank", "answered", "failed"}
      /\ call \in CallType
      /\ pc = "expand" => Asked.kind = "hybrid"
  BY DEF TypeInv
<1>2. ASSUME rows' = rows, edges' = edges, call' \in CallType,
             pc' \in {"idle", "vector", "keyword", "rank", "answered", "failed"}
      PROVE  TypeInv'
  BY <1>1, <1>2 DEF TypeInv
<1>3. ASSUME NEW q \in Questions, Ask(q) PROVE TypeInv'
  BY <1>2, <1>3, NewCallType DEF Ask
<1>4. CASE similarity_search
  <2>1. call' \in CallType
    BY <1>1, <1>4, SimilarityFinds DEF CallType
  <2> QED
    BY <1>2, <1>4, <2>1 DEF similarity_search
<1>5. CASE keyword_search
  <2>1. PICK hits \in Seq(HitType) :
          \/ /\ Asked.kind = "rag" /\ pc' = "rank"
             /\ call' = [call EXCEPT !.keyword_hits = hits]
          \/ /\ Asked.kind = "hybrid" /\ pc' = "expand"
             /\ \E seeds :
                  /\ seeds = merge_and_rank(RagWeights, call.vector_hits \o hits, SeedLimit)
                  /\ call' = [call EXCEPT !.keyword_hits = hits, !.seeds = seeds,
                                          !.pending = Expansion(seeds)]
    BY <1>5, KeywordFinds
  <2>2. rows' = rows /\ edges' = edges
    BY <1>5 DEF keyword_search
  <2>3. CASE pc' = "rank" /\ call' = [call EXCEPT !.keyword_hits = hits]
    <3>1. call' \in CallType
      BY <1>1, <2>1, <2>3 DEF CallType
    <3> QED
      BY <1>2, <2>2, <2>3, <3>1
  <2>4. ASSUME Asked.kind = "hybrid", pc' = "expand", NEW seeds,
               seeds = merge_and_rank(RagWeights, call.vector_hits \o hits, SeedLimit),
               call' = [call EXCEPT !.keyword_hits = hits, !.seeds = seeds,
                                    !.pending = Expansion(seeds)]
        PROVE  TypeInv'
    <3>1. call.vector_hits \in Seq(HitType)
      BY <1>1 DEF CallType
    <3>2. seeds \in Seq(CandidateType)
      BY <2>4, <3>1, SeedsAre
    <3>3. Expansion(seeds) \in Seq(StatementType)
      BY <3>2, ExpansionIsAll
    <3>4. call' \in CallType /\ Asked' = Asked
      BY <1>1, <2>4, <3>2, <3>3 DEF CallType, Asked
    <3> QED
      BY <1>1, <2>2, <2>4, <3>4 DEF TypeInv
  <2> QED
    BY <2>1, <2>3, <2>4
<1>6. CASE find_related_symbols
  <2>1. PICK best :
          /\ call' = [call EXCEPT !.pending = Tail(call.pending), !.best = best]
          /\ best \in BestType
    BY <1>6, StatementFinds DEF Recalls
  <2>2. Tail(call.pending) \in Seq(StatementType)
    BY <1>1, <1>6, StatementFinds, HeadTailProperties DEF CallType
  <2>3. call' \in CallType /\ Asked' = Asked
    BY <1>1, <2>1, <2>2 DEF CallType, Asked
  <2>4. rows' = rows /\ edges' = edges /\ pc' = pc
    BY <1>6 DEF find_related_symbols
  <2> QED
    BY <1>1, <2>3, <2>4 DEF TypeInv
<1>7. CASE fetch_chunks_by_symbol
  <2>1. call' \in CallType
    BY <1>1, <1>7, FetchFinds DEF CallType
  <2> QED
    BY <1>2, <1>7, <2>1 DEF fetch_chunks_by_symbol
<1>8. CASE Answer
  <2>1. call' \in CallType
    BY <1>1, <1>8, AnswerIs DEF CallType
  <2> QED
    BY <1>2, <1>8, <2>1 DEF Answer
<1>9. CASE Fail
  BY <1>1, <1>2, <1>9 DEF Fail
<1>10. ASSUME NEW b \in Batches, CommitChunks(b) PROVE TypeInv'
  <2>1. rows' = rows \cup b /\ b \subseteq Row /\ IsFiniteSet(b)
    BY <1>10, BatchesAssumption DEF CommitChunks
  <2>2. rows' \subseteq Row /\ IsFiniteSet(rows')
    BY <1>1, <2>1, FS_Union
  <2>3. call' \in CallType /\ Asked' = Asked
    BY <1>1, <1>10 DEF CommitChunks, CallType, Asked
  <2> QED
    BY <1>1, <1>10, <2>2, <2>3 DEF CommitChunks, TypeInv
<1>11. ASSUME NEW g \in Growths, GrowGraph(g) PROVE TypeInv'
  <2>1. g.repository_id \in Repository /\ g.edges \in SUBSET Drawn
    BY GrowthsAssumption
  <2>2. edges' = [edges EXCEPT ![g.repository_id] = edges[g.repository_id] \cup g.edges]
    BY <1>11 DEF GrowGraph
  <2>3. edges' \in [Repository -> SUBSET Drawn]
    BY <1>1, <2>1, <2>2
  <2>4. call' \in CallType /\ Asked' = Asked
    BY <1>1, <1>11 DEF GrowGraph, CallType, Asked
  <2> QED
    BY <1>1, <1>11, <2>3, <2>4 DEF GrowGraph, TypeInv
<1>12. CASE UNCHANGED vars
  BY <1>1, <1>12 DEF vars, TypeInv, Asked
<1> QED
  BY <1>3, <1>4, <1>5, <1>6, <1>7, <1>8, <1>9, <1>10, <1>11, <1>12 DEF Next

LEMMA TypeInvImplies == TypeInv => TypeOK
<1> SUFFICES ASSUME TypeInv PROVE TypeOK
  OBVIOUS
<1>1. call \in CallType /\ Drawn \subseteq EdgeType
  BY DEF TypeInv, Drawn
<1>2. DOMAIN call = DOMAIN NewCall(Asked)
  BY <1>1 DEF CallType, NewCall
<1>3. \A y \in DOMAIN call.best : y \in Path \X QualifiedName /\ call.best[y] \in Relationship
  <2>1. call.best \in BestType
    BY <1>1 DEF CallType
  <2> QED
    BY <2>1, BestIs DEF Symbol
<1>4. /\ Asked \in Questions
      /\ {call.vector_hits, call.keyword_hits, call.graph_hits} \subseteq Seq(HitType)
      /\ {call.seeds, call.ranked, call.sources} \subseteq Seq(CandidateType)
      /\ call.pending \in Seq(StatementType)
      /\ call.quiet \in BOOLEAN
  BY <1>1 DEF CallType, Asked
<1>5. edges \in [Repository -> SUBSET EdgeType]
  BY <1>1 DEF TypeInv
<1> QED
  BY <1>2, <1>3, <1>4, <1>5 DEF TypeInv, TypeOK

LEMMA TypeAlways == Spec => []TypeInv
BY TypeInit, TypeStep, PTL DEF Spec

\* The variables have their types: what a call has found are finite sequences of
\* stored chunks with scores in their range, and what it remembers of a symbol
\* is one relationship.
THEOREM TypeCorrect == Spec => []TypeOK
BY TypeAlways, TypeInvImplies, PTL
-----------------------------------------------------------------------------
(* The context. *)

SourcesInv ==
  pc = "answered" => /\ call.sources = SubSeq(call.ranked, 1, build_context(call.ranked))
                     /\ Len(call.ranked) <= FinalTopK

\* Chunks and edges that are stored leave what a call has found as it is.
LEMMA StoringKeeps ==
  ASSUME TypeInv, (\E b \in Batches : CommitChunks(b)) \/ (\E g \in Growths : GrowGraph(g))
                  \/ UNCHANGED vars
  PROVE  /\ pc' = pc /\ Asked' = Asked
         /\ call'.vector_hits = call.vector_hits /\ call'.keyword_hits = call.keyword_hits
         /\ call'.seeds = call.seeds /\ call'.pending = call.pending
         /\ call'.best = call.best /\ call'.graph_hits = call.graph_hits
         /\ call'.ranked = call.ranked /\ call'.sources = call.sources
         /\ call'.quiet => call.quiet /\ rows' = rows /\ edges' = edges
BY DEF TypeInv, CallType, CommitChunks, GrowGraph, Asked, vars

LEMMA SourcesStep == TypeInv /\ SourcesInv /\ [Next]_vars => SourcesInv'
<1> SUFFICES ASSUME TypeInv, SourcesInv, [Next]_vars PROVE SourcesInv'
  OBVIOUS
<1>1. CASE \/ \E q \in Questions : Ask(q)
           \/ similarity_search \/ find_related_symbols \/ fetch_chunks_by_symbol \/ Fail
  BY <1>1 DEF SourcesInv, Ask, similarity_search, find_related_symbols,
              fetch_chunks_by_symbol, Fail
<1>2. CASE keyword_search
  <2>1. pc' \in {"rank", "expand"}
    BY <1>2, KeywordFinds
  <2> QED
    BY <2>1 DEF SourcesInv
<1>3. CASE Answer
  <2>1. PICK hits, ranked :
             /\ hits \in Seq(HitType) /\ Weights \in WeightsType /\ FinalTopK \in Nat
             /\ ranked = merge_and_rank(Weights, hits, FinalTopK)
             /\ call' = [call EXCEPT !.ranked = ranked,
                                     !.sources = SubSeq(ranked, 1, build_context(ranked))]
    BY <1>3, AnswerIs
  <2>2. call'.ranked = ranked /\ call'.sources = SubSeq(ranked, 1, build_context(ranked))
    BY <2>1 DEF TypeInv, CallType
  <2>3. /\ Cardinality(RowsOf(hits)) \in Nat
        /\ Len(ranked) = Least(FinalTopK, Cardinality(RowsOf(hits)))
    BY <2>1, Merged
  <2>4. Len(ranked) <= FinalTopK
    BY <2>1, <2>3 DEF Least
  <2> QED
    BY <2>2, <2>4, SMTT(30) DEF SourcesInv
<1>4. CASE (\E b \in Batches : CommitChunks(b)) \/ (\E g \in Growths : GrowGraph(g))
           \/ UNCHANGED vars
  BY <1>4, StoringKeeps DEF SourcesInv
<1> QED
  BY <1>1, <1>2, <1>3, <1>4 DEF Next

LEMMA SourcesFit == TypeInv /\ SourcesInv => ContextIsBounded
<1> DEFINE Within(n) ==
             /\ call.sources = SubSeq(call.ranked, 1, n)
             /\ n > 1 => /\ SizeOf(call.ranked, n) + SeparatorLength * (n - 1)
                            <= MaxContextChars + SeparatorLength * (n - 1)
                         /\ n <= FinalTopK
             /\ n < Len(call.ranked) =>
                  /\ n > 0
                  /\ SizeOf(call.ranked, n + 1) + SeparatorLength * (n + 1 - 1)
                       > MaxContextChars + SeparatorLength * n
<1> SUFFICES ASSUME TypeInv, SourcesInv, pc = "answered"
             PROVE  Within(Len(call.sources))
  BY DEF ContextIsBounded, SizeOf
<1> DEFINE n == build_context(call.ranked)
<1>1. /\ call.ranked \in Seq(CandidateType) /\ call.sources = SubSeq(call.ranked, 1, n)
      /\ Len(call.ranked) <= FinalTopK
  BY DEF TypeInv, CallType, SourcesInv
<1>2. /\ n \in 0 .. Len(call.ranked)
      /\ n > 1 => SizeOf(call.ranked, n) \in Nat /\ SizeOf(call.ranked, n) <= MaxContextChars
      /\ n < Len(call.ranked) => /\ n > 0 /\ SizeOf(call.ranked, n + 1) \in Nat
                                 /\ SizeOf(call.ranked, n + 1) > MaxContextChars
  BY <1>1, ContextFits
<1> HIDE DEF n
<1>3. Len(call.ranked) \in Nat /\ FinalTopK \in Nat /\ MaxContextChars \in Nat
  BY <1>1, LenProperties, LimitsAssumption
<1>4. Len(SubSeq(call.ranked, 1, n)) = n
  <2>1. 1 \in 1 .. Len(call.ranked) + 1 /\ n \in 1 - 1 .. Len(call.ranked)
    BY <1>2, <1>3
  <2> QED
    BY <1>1, <2>1, SubSeqProperties
<1>5. Within(n)
  <2>1. n \in Nat /\ n <= FinalTopK
    BY <1>1, <1>2, <1>3
  <2>2. ASSUME NEW size \in Nat, size <= MaxContextChars
        PROVE  size + SeparatorLength * (n - 1) <= MaxContextChars + SeparatorLength * (n - 1)
    BY <1>3, <2>1, <2>2 DEF SeparatorLength
  <2>3. ASSUME NEW size \in Nat, size > MaxContextChars
        PROVE  size + SeparatorLength * (n + 1 - 1) > MaxContextChars + SeparatorLength * n
    BY <1>3, <2>1, <2>3 DEF SeparatorLength
  <2> QED
    BY <1>1, <1>2, <2>1, <2>2, <2>3
<1> HIDE DEF Within
<1> QED
  BY <1>1, <1>4, <1>5

\* The text sent exceeds max_chars only by the separators between its sections,
\* of which there are fewer than FinalTopK, or because it is a single chunk that
\* is too long; no chunk is left out whose section would have fitted, and the
\* chunks of the context are the first of the ranking.
THEOREM ContextBounded == Spec => []ContextIsBounded
<1>1. Init => SourcesInv
  BY DEF Init, SourcesInv
<1> QED
  BY <1>1, TypeAlways, SourcesStep, SourcesFit, PTL DEF Spec
-----------------------------------------------------------------------------
(* What is cited. *)

\* A seed is related in this way to the symbol y.
Related(relationship, y) ==
  \E k \in DOMAIN call.seeds :
    OneHop(edges[Asked.repository_id], call.seeds[k].row, relationship, y)

\* What the searches have found passes the filter.
VectorGrounded ==
  \A h \in ElementsOf(call.vector_hits) :
    h.row \in rows /\ Matching(h.row) /\ h = VectorHit(h.row)

KeywordGrounded ==
  \A h \in ElementsOf(call.keyword_hits) :
    h.row \in rows /\ Matching(h.row) /\ h.row.rank > 0 /\ h = KeywordHit(h.row)

\* So do the seeds, and there are none before the searches or without a graph.
SeedsGrounded ==
  /\ \A k \in DOMAIN call.seeds : Matching(call.seeds[k].row)
  /\ pc \in {"vector", "keyword"} \/ Asked.kind = "rag" => call.seeds = <<>>

\* The graph is asked about seeds, and what it has led to is related to one.
PendingGrounded ==
  \A p \in ElementsOf(call.pending) :
    /\ p.statement \in ElementsOf(StatementsFor(p.seed))
    /\ \E k \in DOMAIN call.seeds : call.seeds[k].row = p.seed

BestGrounded == \A y \in DOMAIN call.best : Related(call.best[y], y)

GraphGrounded ==
  \A h \in ElementsOf(call.graph_hits) :
    \E x \in rows, r \in Relationship :
      /\ h = GraphHit(x, r)
      /\ x.repository_id = Asked.repository_id /\ Related(r, SymbolOfRow(x))

GroundedInv ==
  /\ VectorGrounded
  /\ KeywordGrounded
  /\ SeedsGrounded
  /\ PendingGrounded
  /\ BestGrounded
  /\ GraphGrounded

\* More edges relate more.
LEMMA HopsGrow ==
  ASSUME NEW E, NEW F, E \subseteq F, NEW x, NEW y, NEW r \in Relationship, OneHop(E, x, r, y)
  PROVE  OneHop(F, x, r, y)
<1>1. /\ class_methods(E, x) \subseteq class_methods(F, x)
      /\ ancestor_classes(E, x) \subseteq ancestor_classes(F, x)
      /\ descendant_classes(E, x) \subseteq descendant_classes(F, x)
  BY DEF class_methods, ancestor_classes, descendant_classes
<1>2. parents_and_siblings(E, x) \subseteq parents_and_siblings(F, x)
  BY DEF parents_and_siblings
<1>3. dependency_symbols(E, x) \subseteq dependency_symbols(F, x)
  BY DEF dependency_symbols
<1> QED
  BY <1>1, <1>2, <1>3, RelationshipsAre DEF OneHop

\* A hop is what a statement that the seed costs finds, and the other way round.
LEMMA HopsFound ==
  ASSUME NEW x \in Row, NEW statement \in ElementsOf(StatementsFor(x)),
         NEW r \in LookedFor(statement), NEW E, NEW y
  PROVE  r \in Relationship /\ (OneHop(E, x, r, y) <=> Finds(E, x, r, y))
<1>1. CASE x.chunk_type = "class"
  <2>1. statement \in {"class_methods", "ancestor_classes", "descendant_classes",
                       "dependency_symbols"}
    BY <1>1, StatementsType
  <2>2. r \in {"class_method", "ancestor_class", "descendant_class", "dependency_symbol"}
    BY <2>1 DEF LookedFor
  <2> QED
    BY <1>1, <2>2, RelationshipsAre DEF OneHop, Finds
<1>2. CASE x.chunk_type = "function"
  <2>1. statement \in {"parents_and_siblings", "dependency_symbols"}
    BY <1>2, StatementsType
  <2>2. r \in {"parent_class", "sibling_method", "dependency_symbol"}
    BY <2>1 DEF LookedFor
  <2> QED
    BY <1>2, <2>2, RelationshipsAre DEF OneHop, Finds
<1> QED
  BY <1>1, <1>2, StatementsType

LEMMA HopsLookedFor ==
  ASSUME NEW x \in Row, NEW r \in Relationship, NEW E, NEW y, OneHop(E, x, r, y)
  PROVE  \E statement \in ElementsOf(StatementsFor(x)) :
           r \in LookedFor(statement) /\ Finds(E, x, r, y)
<1>1. Finds(E, x, r, y)
  BY RelationshipsAre DEF OneHop, Finds
<1>2. CASE x.chunk_type = "class"
  <2>1. r \in {"class_method", "ancestor_class", "descendant_class", "dependency_symbol"}
    BY <1>2, RelationshipsAre DEF OneHop
  <2>2. \E statement \in {"class_methods", "ancestor_classes", "descendant_classes",
                          "dependency_symbols"} : r \in LookedFor(statement)
    BY <2>1 DEF LookedFor
  <2> QED
    BY <1>1, <1>2, <2>2, StatementsType
<1>3. CASE x.chunk_type = "function"
  <2>1. r \in {"parent_class", "sibling_method", "dependency_symbol"}
    BY <1>3, RelationshipsAre DEF OneHop
  <2>2. \E statement \in {"parents_and_siblings", "dependency_symbols"} :
          r \in LookedFor(statement)
    BY <2>1 DEF LookedFor
  <2> QED
    BY <1>1, <1>3, <2>2, StatementsType
<1>4. CASE x.chunk_type = "file"
  BY <1>4, RelationshipsAre DEF OneHop
<1> QED
  BY <1>2, <1>3, <1>4, StatementsType

\* As long as the seeds stay, what is related to one stays related to it.
LEMMA RelatedKept ==
  ASSUME TypeInv, GroundedInv, Asked' = Asked, call'.seeds = call.seeds,
         \A r \in Repository : edges[r] \subseteq edges'[r]
  PROVE  \A r \in Relationship : \A y : Related(r, y) => Related(r, y)'
<1> SUFFICES ASSUME NEW r \in Relationship, NEW y, Related(r, y) PROVE Related(r, y)'
  OBVIOUS
<1>1. PICK k \in DOMAIN call.seeds :
        OneHop(edges[Asked.repository_id], call.seeds[k].row, r, y)
  BY DEF Related
<1>2. Asked.repository_id \in Repository
  <2>1. call.seeds # <<>>
    BY <1>1
  <2> QED
    BY <2>1, AskedAbout DEF GroundedInv, SeedsGrounded
<1>3. OneHop(edges'[Asked.repository_id], call.seeds[k].row, r, y)
  BY <1>1, <1>2, HopsGrow
<1> QED
  BY <1>1, <1>3 DEF Related

LEMMA EdgesGrow ==
  ASSUME TypeInv, [Next]_vars
  PROVE  /\ rows \subseteq rows'
         /\ \A r \in Repository : edges[r] \subseteq edges'[r]
<1>1. CASE \/ \E q \in Questions : Ask(q)
           \/ similarity_search \/ keyword_search \/ find_related_symbols
           \/ fetch_chunks_by_symbol \/ Answer \/ Fail \/ UNCHANGED vars
  BY <1>1 DEF Ask, similarity_search, keyword_search, find_related_symbols,
              fetch_chunks_by_symbol, Answer, Fail, vars
<1>2. CASE \E b \in Batches : CommitChunks(b)
  BY <1>2 DEF CommitChunks
<1>3. CASE \E g \in Growths : GrowGraph(g)
  BY <1>3 DEF GrowGraph, TypeInv
<1> QED
  BY <1>1, <1>2, <1>3, SMTT(30) DEF Next

\* What was found stays grounded while nothing replaces it.
LEMMA GroundedKept ==
  ASSUME TypeInv, GroundedInv, [Next]_vars, Asked' = Asked
  PROVE  /\ call'.vector_hits = call.vector_hits => VectorGrounded'
         /\ call'.keyword_hits = call.keyword_hits => KeywordGrounded'
         /\ /\ call'.seeds = call.seeds
            /\ pc' \in {"vector", "keyword"} => pc \in {"vector", "keyword"}
            => SeedsGrounded'
         /\ call'.seeds = call.seeds /\ call'.pending = call.pending => PendingGrounded'
         /\ call'.seeds = call.seeds /\ call'.best = call.best => BestGrounded'
         /\ call'.seeds = call.seeds /\ call'.graph_hits = call.graph_hits => GraphGrounded'
<1>1. rows \subseteq rows' /\ \A x : Matching(x)' <=> Matching(x)
  BY EdgesGrow DEF Matching
<1>2. call'.vector_hits = call.vector_hits => VectorGrounded'
  BY <1>1 DEF GroundedInv, VectorGrounded
<1>3. call'.keyword_hits = call.keyword_hits => KeywordGrounded'
  BY <1>1 DEF GroundedInv, KeywordGrounded
<1>4. ASSUME call'.seeds = call.seeds, pc' \in {"vector", "keyword"} => pc \in {"vector", "keyword"}
      PROVE  SeedsGrounded'
  BY <1>1, <1>4 DEF GroundedInv, SeedsGrounded
<1>5. call'.seeds = call.seeds /\ call'.pending = call.pending => PendingGrounded'
  BY DEF GroundedInv, PendingGrounded
<1>6. ASSUME call'.seeds = call.seeds
      PROVE  \A r \in Relationship : \A y : Related(r, y) => Related(r, y)'
  BY <1>6, RelatedKept, EdgesGrow
<1>7. \A y \in DOMAIN call.best : call.best[y] \in Relationship
  BY BestIs DEF TypeInv, CallType
<1>8. ASSUME call'.seeds = call.seeds, call'.best = call.best PROVE BestGrounded'
  BY <1>6, <1>7, <1>8 DEF GroundedInv, BestGrounded
<1>9. ASSUME call'.seeds = call.seeds, call'.graph_hits = call.graph_hits PROVE GraphGrounded'
  <2> SUFFICES ASSUME NEW h \in ElementsOf(call.graph_hits)
               PROVE  \E x \in rows', r \in Relationship :
                        /\ h = GraphHit(x, r)
                        /\ x.repository_id = Asked.repository_id /\ Related(r, SymbolOfRow(x))'
    BY <1>9 DEF GraphGrounded
  <2>1. PICK x \in rows, r \in Relationship :
          /\ h = GraphHit(x, r)
          /\ x.repository_id = Asked.repository_id /\ Related(r, SymbolOfRow(x))
    BY DEF GroundedInv, GraphGrounded
  <2>2. Related(r, SymbolOfRow(x))'
    BY <1>6, <1>9, <2>1
  <2> QED
    BY <1>1, <2>1, <2>2
<1> QED
  BY <1>2, <1>3, <1>4, <1>5, <1>8, <1>9

LEMMA GroundedStep == TypeInv /\ GroundedInv /\ [Next]_vars => GroundedInv'
<1> SUFFICES ASSUME TypeInv, GroundedInv, [Next]_vars PROVE GroundedInv'
  OBVIOUS
<1>1. call \in CallType
  BY DEF TypeInv
<1>2. ElementsOf(<<>>) = {}
  BY DEF ElementsOf
<1>3. ASSUME NEW q \in Questions, Ask(q) PROVE GroundedInv'
  <2>1. /\ call'.vector_hits = <<>> /\ call'.keyword_hits = <<>> /\ call'.seeds = <<>>
        /\ call'.pending = <<>> /\ call'.graph_hits = <<>> /\ DOMAIN call'.best = {}
    BY <1>3 DEF Ask, NewCall, NoBest
  <2> QED
    BY <1>2, <2>1 DEF GroundedInv, VectorGrounded, KeywordGrounded, SeedsGrounded,
                      PendingGrounded, BestGrounded, GraphGrounded
<1>4. CASE similarity_search
  <2>1. PICK hits :
          /\ call' = [call EXCEPT !.vector_hits = hits]
          /\ \A h \in ElementsOf(hits) : h.row \in rows /\ Matching(h.row) /\ h = VectorHit(h.row)
    BY <1>4, SimilarityFinds
  <2>2. /\ call'.vector_hits = hits /\ call'.keyword_hits = call.keyword_hits
        /\ call'.seeds = call.seeds /\ call'.pending = call.pending /\ call'.best = call.best
        /\ call'.graph_hits = call.graph_hits /\ Asked' = Asked
    BY <1>1, <2>1 DEF CallType, Asked
  <2>3. pc = "vector" /\ rows' = rows
    BY <1>4 DEF similarity_search
  <2>4. VectorGrounded'
    BY <2>1, <2>2, <2>3 DEF VectorGrounded, Matching
  <2> QED
    BY <2>2, <2>3, <2>4, GroundedKept DEF GroundedInv
<1>5. CASE keyword_search
  <2>1. PICK hits \in Seq(HitType) :
          /\ \A h \in ElementsOf(hits) :
               h.row \in rows /\ Matching(h.row) /\ h.row.rank > 0 /\ h = KeywordHit(h.row)
          /\ \/ /\ Asked.kind = "rag" /\ pc' = "rank"
                /\ call' = [call EXCEPT !.keyword_hits = hits]
             \/ /\ Asked.kind = "hybrid" /\ pc' = "expand"
                /\ \E seeds :
                     /\ seeds = merge_and_rank(RagWeights, call.vector_hits \o hits, SeedLimit)
                     /\ call' = [call EXCEPT !.keyword_hits = hits, !.seeds = seeds,
                                             !.pending = Expansion(seeds)]
    BY <1>5, KeywordFinds
  <2>2. rows' = rows /\ pc = "keyword"
    BY <1>5 DEF keyword_search
  <2>3. call'.vector_hits = call.vector_hits /\ call'.keyword_hits = hits /\ Asked' = Asked
    BY <1>1, <2>1 DEF CallType, Asked
  <2>4. VectorGrounded' /\ KeywordGrounded'
    <3>1. KeywordGrounded'
      BY <2>1, <2>2, <2>3 DEF KeywordGrounded, Matching
    <3> QED
      BY <2>3, <3>1, GroundedKept
  <2>5. CASE pc' = "rank" /\ call' = [call EXCEPT !.keyword_hits = hits]
    <3>1. /\ call'.seeds = call.seeds /\ call'.pending = call.pending /\ call'.best = call.best
          /\ call'.graph_hits = call.graph_hits
      BY <1>1, <2>5 DEF CallType
    <3> QED
      BY <2>3, <2>4, <2>5, <3>1, GroundedKept DEF GroundedInv
  <2>6. ASSUME Asked.kind = "hybrid", pc' = "expand", NEW seeds,
               seeds = merge_and_rank(RagWeights, call.vector_hits \o hits, SeedLimit),
               call' = [call EXCEPT !.keyword_hits = hits, !.seeds = seeds,
                                    !.pending = Expansion(seeds)]
        PROVE  GroundedInv'
    <3>1. /\ call'.seeds = seeds /\ call'.pending = Expansion(seeds)
          /\ call'.best = call.best /\ call'.graph_hits = call.graph_hits
          /\ call.vector_hits \in Seq(HitType)
      BY <1>1, <2>6 DEF CallType
    <3>2. call.seeds = <<>>
      BY <2>2 DEF GroundedInv, SeedsGrounded
    <3>3. BestGrounded' /\ GraphGrounded'
      <4>1. \A r, y : ~ Related(r, y)
        BY <3>2 DEF Related
      <4>2. DOMAIN call.best = {} /\ ElementsOf(call.graph_hits) = {}
        BY <4>1 DEF GroundedInv, BestGrounded, GraphGrounded
      <4> QED
        BY <3>1, <4>2 DEF BestGrounded, GraphGrounded
    <3>4. /\ seeds \in Seq(CandidateType)
          /\ \A k \in DOMAIN seeds : seeds[k].row \in RowsOf(call.vector_hits) \cup RowsOf(hits)
      BY <2>6, <3>1, SeedsAre
    <3>5. PendingGrounded'
      BY <3>1, <3>4, ExpansionIsAll DEF PendingGrounded
    <3>6. \A k \in DOMAIN seeds : Matching(seeds[k].row)
      BY <2>1, <3>4 DEF GroundedInv, VectorGrounded, RowsOf
    <3>7. SeedsGrounded'
      BY <2>3, <2>6, <3>1, <3>6 DEF SeedsGrounded, Matching
    <3> QED
      BY <2>4, <3>3, <3>5, <3>7 DEF GroundedInv
  <2> QED
    BY <2>1, <2>5, <2>6
<1>6. CASE find_related_symbols
  <2> DEFINE next == Head(call.pending)
  <2>1. PICK best :
          /\ call' = [call EXCEPT !.pending = Tail(call.pending), !.best = best]
          /\ Recalls(best, call.best, edges[Asked.repository_id], next.seed, next.statement)
    BY <1>6, StatementFinds
  <2>2. /\ call'.vector_hits = call.vector_hits /\ call'.keyword_hits = call.keyword_hits
        /\ call'.seeds = call.seeds /\ call'.graph_hits = call.graph_hits
        /\ call'.pending = Tail(call.pending) /\ call'.best = best /\ Asked' = Asked
    BY <1>1, <2>1 DEF CallType, Asked
  <2>3. pc' = pc /\ edges' = edges /\ call.pending # <<>> /\ call.pending \in Seq(StatementType)
    BY <1>1, <1>6 DEF find_related_symbols, CallType
  <2>4. /\ next \in ElementsOf(call.pending) /\ next \in StatementType
        /\ ElementsOf(Tail(call.pending)) \subseteq ElementsOf(call.pending)
    <3>1. /\ Len(call.pending) \in Nat /\ Len(call.pending) # 0
          /\ DOMAIN call.pending = 1 .. Len(call.pending)
          /\ DOMAIN Tail(call.pending) = 1 .. Len(call.pending) - 1
          /\ \A i \in 1 .. Len(call.pending) - 1 : Tail(call.pending)[i] = call.pending[i + 1]
          /\ next = call.pending[1] /\ next \in StatementType
      BY <2>3, LenProperties, EmptySeq, HeadTailProperties
    <3>2. 1 \in DOMAIN call.pending
      BY <3>1
    <3>3. \A i \in 1 .. Len(call.pending) - 1 : i + 1 \in DOMAIN call.pending
      BY <3>1
    <3> QED
      BY <3>1, <3>2, <3>3 DEF ElementsOf
  <2>5. PendingGrounded'
    BY <2>2, <2>4 DEF GroundedInv, PendingGrounded
  <2>6. BestGrounded'
    <3>1. PICK k \in DOMAIN call.seeds : call.seeds[k].row = next.seed
      BY <2>4 DEF GroundedInv, PendingGrounded
    <3>2. next.seed \in Row /\ next.statement \in ElementsOf(StatementsFor(next.seed))
      BY <2>4 DEF GroundedInv, PendingGrounded, StatementType
    <3>3. ASSUME NEW y \in DOMAIN best, best[y] \in LookedFor(next.statement),
                 Finds(edges[Asked.repository_id], next.seed, best[y], y)
          PROVE  Related(best[y], y)
      <4>1. OneHop(edges[Asked.repository_id], next.seed, best[y], y)
        <5> HIDE DEF next
        <5> QED
          BY <3>2, <3>3, HopsFound
      <4> QED
        BY <3>1, <4>1 DEF Related
    <3>4. \A y \in DOMAIN best : Related(best[y], y)
      BY <2>1, <3>3 DEF Recalls, GroundedInv, BestGrounded
    <3> QED
      BY <2>2, <2>3, <3>4 DEF BestGrounded, Related
  <2> QED
    BY <2>2, <2>3, <2>5, <2>6, GroundedKept DEF GroundedInv
<1>7. CASE fetch_chunks_by_symbol
  <2>1. PICK hits :
          /\ call' = [call EXCEPT !.graph_hits = hits]
          /\ \A h : h \in ElementsOf(hits) <=>
               \E x \in rows : /\ x.repository_id = Asked.repository_id
                               /\ SymbolOfRow(x) \in DOMAIN call.best
                               /\ h = GraphHit(x, call.best[SymbolOfRow(x)])
    BY <1>7, FetchFinds
  <2>2. /\ call'.vector_hits = call.vector_hits /\ call'.keyword_hits = call.keyword_hits
        /\ call'.seeds = call.seeds /\ call'.pending = call.pending /\ call'.best = call.best
        /\ call'.graph_hits = hits /\ Asked' = Asked
    BY <1>1, <2>1 DEF CallType, Asked
  <2>3. pc' = "rank" /\ rows' = rows /\ edges' = edges
    BY <1>7 DEF fetch_chunks_by_symbol
  <2>4. GraphGrounded'
    <3>1. \A y \in DOMAIN call.best : call.best[y] \in Relationship /\ Related(call.best[y], y)
      BY <1>1, BestIs DEF CallType, GroundedInv, BestGrounded
    <3>2. ASSUME NEW h \in ElementsOf(hits)
          PROVE  \E x \in rows, r \in Relationship :
                   /\ h = GraphHit(x, r)
                   /\ x.repository_id = Asked.repository_id /\ Related(r, SymbolOfRow(x))
      BY <2>1, <3>1
    <3> QED
      BY <2>2, <2>3, <3>2 DEF GraphGrounded, Related
  <2> QED
    BY <2>2, <2>3, <2>4, GroundedKept DEF GroundedInv
<1>8. CASE Answer
  <2>1. PICK ranked, sources : call' = [call EXCEPT !.ranked = ranked, !.sources = sources]
    BY <1>8 DEF Answer
  <2>2. /\ call'.vector_hits = call.vector_hits /\ call'.keyword_hits = call.keyword_hits
        /\ call'.seeds = call.seeds /\ call'.pending = call.pending /\ call'.best = call.best
        /\ call'.graph_hits = call.graph_hits /\ Asked' = Asked
    BY <1>1, <2>1 DEF CallType, Asked
  <2> QED
    BY <1>8, <2>2, GroundedKept DEF GroundedInv, Answer
<1>9. CASE Fail
  <2>1. call' = call /\ Asked' = Asked /\ pc' = "failed"
    BY <1>9 DEF Fail, Asked
  <2> QED
    BY <2>1, GroundedKept DEF GroundedInv
<1>10. CASE (\E b \in Batches : CommitChunks(b)) \/ (\E g \in Growths : GrowGraph(g))
            \/ UNCHANGED vars
  BY <1>10, StoringKeeps, GroundedKept DEF GroundedInv
<1> QED
  BY <1>3, <1>4, <1>5, <1>6, <1>7, <1>8, <1>9, <1>10 DEF Next

LEMMA GroundedInit == Init => GroundedInv
<1> SUFFICES ASSUME Init PROVE GroundedInv
  OBVIOUS
<1>1. /\ call.vector_hits = <<>> /\ call.keyword_hits = <<>> /\ call.seeds = <<>>
      /\ call.pending = <<>> /\ call.graph_hits = <<>> /\ DOMAIN call.best = {}
  BY DEF Init, NewCall, NoBest
<1>2. ElementsOf(<<>>) = {}
  BY DEF ElementsOf
<1> QED
  BY <1>1, <1>2 DEF GroundedInv, VectorGrounded, KeywordGrounded, SeedsGrounded,
                    PendingGrounded, BestGrounded, GraphGrounded

\* The reasons for which a chunk is cited hold.
Cited(x, reasons) ==
  /\ x \in rows
  /\ Asked.repository_id \in {None, x.repository_id}
  /\ reasons # {}
  /\ "vector" \in reasons => Matching(x)
  /\ "keyword" \in reasons => Matching(x) /\ x.rank > 0
  /\ \A r \in reasons \cap Relationship : Related(r, SymbolOfRow(x))

CitedInv ==
  pc = "answered" =>
    \A n \in DOMAIN call.sources : Cited(call.sources[n].row, call.sources[n].found_via)

\* Whatever the hits of a chunk are, they are reasons to cite it.
LEMMA HitsAreReasons ==
  ASSUME TypeInv, GroundedInv, NEW hits,
         ElementsOf(hits) = ElementsOf(call.vector_hits) \cup ElementsOf(call.keyword_hits)
                              \cup ElementsOf(call.graph_hits),
         NEW x \in RowsOf(hits)
  PROVE  Cited(x, {h.found_via : h \in Own(hits, x)})
<1>1. ASSUME NEW h \in Own(hits, x)
      PROVE  /\ x \in rows /\ Asked.repository_id \in {None, x.repository_id}
             /\ h.found_via = "vector" => Matching(x)
             /\ h.found_via = "keyword" => Matching(x) /\ x.rank > 0
             /\ h.found_via \in Relationship => Related(h.found_via, SymbolOfRow(x))
  <2>1. h \in ElementsOf(hits) /\ h.row = x
    BY DEF Own
  <2>2. "vector" \notin Relationship /\ "keyword" \notin Relationship
    BY RelationshipsAre
  <2>3. CASE h \in ElementsOf(call.vector_hits)
    <3>1. x \in rows /\ Matching(x) /\ h = VectorHit(x)
      BY <2>1, <2>3 DEF GroundedInv, VectorGrounded
    <3>2. h.found_via = "vector"
      BY <3>1 DEF VectorHit, Hit
    <3> QED
      BY <2>2, <3>1, <3>2 DEF Matching
  <2>4. CASE h \in ElementsOf(call.keyword_hits)
    <3>1. x \in rows /\ Matching(x) /\ x.rank > 0 /\ h = KeywordHit(x)
      BY <2>1, <2>4 DEF GroundedInv, KeywordGrounded
    <3>2. h.found_via = "keyword"
      BY <3>1 DEF KeywordHit, Hit
    <3> QED
      BY <2>2, <3>1, <3>2 DEF Matching
  <2>5. CASE h \in ElementsOf(call.graph_hits)
    <3>1. PICK y \in rows, r \in Relationship :
            /\ h = GraphHit(y, r)
            /\ y.repository_id = Asked.repository_id /\ Related(r, SymbolOfRow(y))
      BY <2>5 DEF GroundedInv, GraphGrounded
    <3>2. h.found_via = r /\ h.row = y
      BY <3>1 DEF GraphHit, Hit
    <3> QED
      BY <2>1, <2>2, <3>1, <3>2
  <2> QED
    BY <2>1, <2>3, <2>4, <2>5
<1>2. Own(hits, x) # {}
  BY DEF RowsOf, Own
<1> QED
  BY <1>1, <1>2 DEF Cited

LEMMA CitedStep == TypeInv /\ GroundedInv /\ CitedInv /\ [Next]_vars => CitedInv'
<1> SUFFICES ASSUME TypeInv, GroundedInv, CitedInv, [Next]_vars PROVE CitedInv'
  OBVIOUS
<1>1. CASE \/ \E q \in Questions : Ask(q)
           \/ similarity_search \/ find_related_symbols \/ fetch_chunks_by_symbol \/ Fail
  BY <1>1 DEF CitedInv, Ask, similarity_search, find_related_symbols,
              fetch_chunks_by_symbol, Fail
<1>2. CASE keyword_search
  <2>1. pc' \in {"rank", "expand"}
    BY <1>2, KeywordFinds
  <2> QED
    BY <2>1 DEF CitedInv
<1>3. CASE Answer
  <2>1. PICK hits, ranked :
          /\ hits \in Seq(HitType)
          /\ ElementsOf(hits) = ElementsOf(call.vector_hits) \cup ElementsOf(call.keyword_hits)
                                  \cup ElementsOf(call.graph_hits)
          /\ ranked = merge_and_rank(Weights, hits, FinalTopK)
          /\ Weights \in WeightsType /\ FinalTopK \in Nat
          /\ ranked \in Seq(CandidateType)
          /\ build_context(ranked) \in 0 .. Len(ranked)
          /\ call' = [call EXCEPT !.ranked = ranked,
                                  !.sources = SubSeq(ranked, 1, build_context(ranked))]
          /\ SubSeq(ranked, 1, build_context(ranked)) \in Seq(CandidateType)
          /\ Len(SubSeq(ranked, 1, build_context(ranked))) = build_context(ranked)
          /\ \A n \in 1 .. build_context(ranked) :
               SubSeq(ranked, 1, build_context(ranked))[n] = ranked[n]
    BY <1>3, AnswerIs
  <2> DEFINE sources == SubSeq(ranked, 1, build_context(ranked))
  <2>2. \A n \in 1 .. Len(ranked) :
          /\ ranked[n].row \in RowsOf(hits)
          /\ ranked[n].found_via = {h.found_via : h \in Own(hits, ranked[n].row)}
    BY <2>1, Merged
  <2>3. \A n \in 1 .. Len(ranked) : Cited(ranked[n].row, ranked[n].found_via)
    BY <2>1, <2>2, HitsAreReasons, SMTT(30)
  <2>4. \A n \in DOMAIN sources : n \in 1 .. Len(ranked) /\ sources[n] = ranked[n]
    <3>1. DOMAIN sources = 1 .. build_context(ranked) /\ Len(ranked) \in Nat
      BY <2>1, LenProperties
    <3> QED
      BY <2>1, <3>1
  <2>5. call'.sources = sources /\ call'.seeds = call.seeds /\ Asked' = Asked
    BY <2>1 DEF TypeInv, CallType, Asked
  <2>6. rows' = rows /\ edges' = edges
    BY <1>3 DEF Answer
  <2>7. \A x, reasons : Cited(x, reasons) => Cited(x, reasons)'
    BY <2>5, <2>6 DEF Cited, Related, Matching
  <2> HIDE DEF sources
  <2> QED
    BY <2>3, <2>4, <2>5, <2>7, SMTT(30) DEF CitedInv
<1>4. CASE (\E b \in Batches : CommitChunks(b)) \/ (\E g \in Growths : GrowGraph(g))
           \/ UNCHANGED vars
  <2>1. /\ pc' = pc /\ Asked' = Asked /\ call'.seeds = call.seeds
        /\ call'.sources = call.sources
    BY <1>4, StoringKeeps
  <2>2. /\ rows \subseteq rows'
        /\ \A r \in Relationship : \A y : Related(r, y) => Related(r, y)'
    BY <2>1, EdgesGrow, RelatedKept
  <2>3. ASSUME NEW x, NEW reasons, Cited(x, reasons) PROVE Cited(x, reasons)'
    BY <2>1, <2>2, <2>3 DEF Cited, Matching
  <2> QED
    BY <2>1, <2>3 DEF CitedInv
<1> QED
  BY <1>1, <1>2, <1>3, <1>4 DEF Next

\* Every source of an answer is a stored chunk of the repository that was asked
\* about, and each reason named for it holds when the answer is given, whatever
\* was stored while the call went on reading.
THEOREM CitationsGrounded == Spec => []CitationsAreGrounded
<1>1. Init => CitedInv
  BY DEF Init, CitedInv
<1>2. GroundedInv /\ CitedInv => CitationsAreGrounded
  BY DEF GroundedInv, SeedsGrounded, CitedInv, Cited, Related, CitationsAreGrounded
<1> QED
  BY <1>1, <1>2, TypeAlways, GroundedInit, GroundedStep, CitedStep, PTL DEF Spec
-----------------------------------------------------------------------------
(* What is ranked. *)

SeedsRanked ==
  pc \in {"expand", "rank", "answered"} /\ Asked.kind = "hybrid" =>
    call.seeds = merge_and_rank(RagWeights, call.vector_hits \o call.keyword_hits, SeedLimit)

\* All that a statement about the seed x can find is remembered.
Settled(x, statement) ==
  \A r \in LookedFor(statement) : \A y : Finds(edges[Asked.repository_id], x, r, y) =>
    y \in DOMAIN call.best /\ GraphScore[r] <= GraphScore[call.best[y]]

\* While nothing is stored, each statement is still to come or settled.
ExpansionComplete ==
  pc = "expand" /\ call.quiet =>
    \A k \in DOMAIN call.seeds : \A statement \in ElementsOf(StatementsFor(call.seeds[k].row)) :
      \/ [seed |-> call.seeds[k].row, statement |-> statement] \in ElementsOf(call.pending)
      \/ Settled(call.seeds[k].row, statement)

\* Then every chunk related to a seed is among the hits, with its best relationship.
GraphComplete ==
  pc \in {"rank", "answered"} /\ call.quiet /\ Asked.kind = "hybrid" =>
    \A x \in rows : \A r \in Relationship :
      x.repository_id = Asked.repository_id /\ Related(r, SymbolOfRow(x)) =>
        \E h \in ElementsOf(call.graph_hits) : h.row = x /\ GraphScore[r] <= h.graph_score

HitsRanked ==
  pc = "answered" =>
    call.ranked = merge_and_rank(Weights,
                                 call.vector_hits \o call.keyword_hits \o call.graph_hits, FinalTopK)

CompleteInv ==
  /\ SeedsRanked
  /\ ExpansionComplete
  /\ GraphComplete
  /\ HitsRanked

LEMMA SeedRows ==
  ASSUME TypeInv
  PROVE  \A k \in DOMAIN call.seeds : call.seeds[k].row \in Row
<1>1. call.seeds \in Seq(CandidateType)
  BY DEF TypeInv, CallType
<1>2. \A k \in DOMAIN call.seeds : call.seeds[k] \in CandidateType
  BY <1>1, ElementOfSeq, LenProperties
<1> QED
  BY <1>2 DEF CandidateType

LEMMA CompleteStep == TypeInv /\ GroundedInv /\ CompleteInv /\ [Next]_vars => CompleteInv'
<1> SUFFICES ASSUME TypeInv, GroundedInv, CompleteInv, [Next]_vars PROVE CompleteInv'
  OBVIOUS
<1>1. call \in CallType
  BY DEF TypeInv
<1>2. ASSUME pc' \in {"vector", "keyword", "failed"} PROVE CompleteInv'
  BY <1>2 DEF CompleteInv, SeedsRanked, ExpansionComplete, GraphComplete, HitsRanked
<1>3. CASE (\E q \in Questions : Ask(q)) \/ similarity_search \/ Fail
  BY <1>2, <1>3 DEF Ask, similarity_search, Fail
<1>4. CASE keyword_search
  <2>1. PICK hits \in Seq(HitType) :
          \/ /\ Asked.kind = "rag" /\ pc' = "rank"
             /\ call' = [call EXCEPT !.keyword_hits = hits]
          \/ /\ Asked.kind = "hybrid" /\ pc' = "expand"
             /\ \E seeds :
                  /\ seeds = merge_and_rank(RagWeights, call.vector_hits \o hits, SeedLimit)
                  /\ call' = [call EXCEPT !.keyword_hits = hits, !.seeds = seeds,
                                          !.pending = Expansion(seeds)]
    BY <1>4, KeywordFinds
  <2>2. CASE Asked.kind = "rag" /\ pc' = "rank" /\ call' = [call EXCEPT !.keyword_hits = hits]
    <3>1. Asked' = Asked
      BY <1>1, <2>2 DEF CallType, Asked
    <3> QED
      BY <2>2, <3>1 DEF CompleteInv, SeedsRanked, ExpansionComplete, GraphComplete, HitsRanked
  <2>3. ASSUME Asked.kind = "hybrid", pc' = "expand", NEW seeds,
               seeds = merge_and_rank(RagWeights, call.vector_hits \o hits, SeedLimit),
               call' = [call EXCEPT !.keyword_hits = hits, !.seeds = seeds,
                                    !.pending = Expansion(seeds)]
        PROVE  CompleteInv'
    <3>1. /\ call'.vector_hits = call.vector_hits /\ call'.keyword_hits = hits
          /\ call'.seeds = seeds /\ call'.pending = Expansion(seeds)
          /\ call.vector_hits \in Seq(HitType)
      BY <1>1, <2>3 DEF CallType
    <3>2. seeds \in Seq(CandidateType)
      BY <2>3, <3>1, SeedsAre
    <3>3. ExpansionComplete'
      BY <3>1, <3>2, ExpansionIsAll DEF ExpansionComplete
    <3>4. SeedsRanked'
      BY <2>3, <3>1 DEF SeedsRanked
    <3> QED
      BY <2>3, <3>3, <3>4 DEF CompleteInv, GraphComplete, HitsRanked
  <2> QED
    BY <2>1, <2>2, <2>3
<1>5. CASE find_related_symbols
  <2>0. PICK next, E : next = Head(call.pending) /\ E = edges[Asked.repository_id]
    OBVIOUS
  <2>1. PICK best :
          /\ call' = [call EXCEPT !.pending = Tail(call.pending), !.best = best]
          /\ Recalls(best, call.best, E, next.seed, next.statement)
    BY <1>5, <2>0, StatementFinds
  <2>2. /\ call'.vector_hits = call.vector_hits /\ call'.keyword_hits = call.keyword_hits
        /\ call'.seeds = call.seeds /\ call'.pending = Tail(call.pending)
        /\ call'.best = best /\ call'.quiet = call.quiet /\ Asked' = Asked
    BY <1>1, <2>1 DEF CallType, Asked
  <2>3. /\ pc = "expand" /\ pc' = "expand" /\ edges' = edges /\ call.pending # <<>>
        /\ call.pending \in Seq(StatementType)
    BY <1>1, <1>5 DEF find_related_symbols, CallType
  <2>4. \A p \in ElementsOf(call.pending) : p = next \/ p \in ElementsOf(Tail(call.pending))
    <3>1. /\ Len(call.pending) \in Nat
          /\ DOMAIN call.pending = 1 .. Len(call.pending)
          /\ DOMAIN Tail(call.pending) = 1 .. Len(call.pending) - 1
          /\ \A i \in 1 .. Len(call.pending) - 1 : Tail(call.pending)[i] = call.pending[i + 1]
          /\ next = call.pending[1]
      BY <2>0, <2>3, LenProperties, HeadTailProperties
    <3>2. ASSUME NEW i \in 1 .. Len(call.pending), i # 1
          PROVE  call.pending[i] \in ElementsOf(Tail(call.pending))
      <4>1. i - 1 \in 1 .. Len(call.pending) - 1 /\ (i - 1) + 1 = i
        BY <3>1, <3>2
      <4>2. i - 1 \in DOMAIN Tail(call.pending) /\ Tail(call.pending)[i - 1] = call.pending[i]
        BY <3>1, <4>1
      <4> QED
        BY <4>2 DEF ElementsOf
    <3> QED
      BY <3>1, <3>2 DEF ElementsOf
  <2>5. Settled(next.seed, next.statement)'
    BY <2>0, <2>1, <2>2, <2>3 DEF Settled, Recalls
  <2>6. ASSUME NEW x, NEW statement, Settled(x, statement),
               LookedFor(statement) \subseteq Relationship
        PROVE  Settled(x, statement)'
    <3> SUFFICES ASSUME NEW r \in LookedFor(statement), NEW y, Finds(E, x, r, y)
                 PROVE  y \in DOMAIN best /\ GraphScore[r] <= GraphScore[best[y]]
      BY <2>0, <2>2, <2>3 DEF Settled
    <3>1. y \in DOMAIN call.best /\ GraphScore[r] <= GraphScore[call.best[y]]
      BY <2>0, <2>6 DEF Settled
    <3>2. y \in DOMAIN best /\ GraphScore[call.best[y]] <= GraphScore[best[y]]
      BY <2>1, <3>1 DEF Recalls
    <3>3. /\ GraphScore[r] \in Nat /\ GraphScore[call.best[y]] \in Nat
          /\ GraphScore[best[y]] \in Nat
      <4>1. best \in BestType /\ call.best \in BestType
        BY <1>1, <2>1 DEF CallType, Recalls
      <4>2. best[y] \in Relationship /\ call.best[y] \in Relationship
        BY <3>1, <3>2, <4>1, BestIs
      <4> QED
        BY <2>6, <4>2, RelationshipsAre
    <3> QED
      BY <3>1, <3>2, <3>3
  <2>7. ExpansionComplete'
    <3> SUFFICES ASSUME call.quiet, NEW k \in DOMAIN call.seeds, NEW x, x = call.seeds[k].row,
                        NEW statement \in ElementsOf(StatementsFor(x))
                 PROVE  \/ [seed |-> x, statement |-> statement] \in ElementsOf(Tail(call.pending))
                        \/ Settled(x, statement)'
      BY <2>2 DEF ExpansionComplete
    <3>1. LookedFor(statement) \subseteq Relationship
      BY SeedRows, HopsFound
    <3>2. \/ [seed |-> x, statement |-> statement] \in ElementsOf(call.pending)
          \/ Settled(x, statement)
      BY <2>3 DEF CompleteInv, ExpansionComplete
    <3>3. CASE Settled(x, statement)
      BY <2>6, <3>1, <3>3
    <3>4. CASE [seed |-> x, statement |-> statement] = next
      <4>1. next.seed = x /\ next.statement = statement
        BY <3>4
      <4> QED
        BY <2>5, <4>1
    <3> QED
      BY <2>4, <3>2, <3>3, <3>4
  <2>8. SeedsRanked'
    BY <2>2, <2>3 DEF CompleteInv, SeedsRanked
  <2> QED
    BY <2>3, <2>7, <2>8 DEF CompleteInv, GraphComplete, HitsRanked
<1>6. CASE fetch_chunks_by_symbol
  <2>1. PICK hits :
          /\ call' = [call EXCEPT !.graph_hits = hits]
          /\ \A h : h \in ElementsOf(hits) <=>
               \E x \in rows : /\ x.repository_id = Asked.repository_id
                               /\ SymbolOfRow(x) \in DOMAIN call.best
                               /\ h = GraphHit(x, call.best[SymbolOfRow(x)])
    BY <1>6, FetchFinds
  <2>2. /\ call'.vector_hits = call.vector_hits /\ call'.keyword_hits = call.keyword_hits
        /\ call'.seeds = call.seeds /\ call'.graph_hits = hits
        /\ call'.quiet = call.quiet /\ Asked' = Asked
    BY <1>1, <2>1 DEF CallType, Asked
  <2>3. /\ pc = "expand" /\ pc' = "rank" /\ rows' = rows /\ edges' = edges
        /\ call.pending = <<>>
    BY <1>6 DEF fetch_chunks_by_symbol
  <2>4. ASSUME call.quiet, NEW x \in rows, NEW r \in Relationship,
               x.repository_id = Asked.repository_id, Related(r, SymbolOfRow(x))
        PROVE  \E h \in ElementsOf(hits) : h.row = x /\ GraphScore[r] <= h.graph_score
    <3> DEFINE y == SymbolOfRow(x)
    <3>1. PICK k \in DOMAIN call.seeds :
            OneHop(edges[Asked.repository_id], call.seeds[k].row, r, y)
      BY <2>4 DEF Related
    <3>2. call.seeds[k].row \in Row
      BY <3>1, SeedRows
    <3>3. PICK statement \in ElementsOf(StatementsFor(call.seeds[k].row)) :
            r \in LookedFor(statement)
            /\ Finds(edges[Asked.repository_id], call.seeds[k].row, r, y)
      BY <3>1, <3>2, HopsLookedFor
    <3>4. Settled(call.seeds[k].row, statement)
      <4>1. ElementsOf(call.pending) = {}
        BY <2>3 DEF ElementsOf
      <4> QED
        BY <2>3, <2>4, <4>1 DEF CompleteInv, ExpansionComplete
    <3>5. y \in DOMAIN call.best /\ GraphScore[r] <= GraphScore[call.best[y]]
      BY <3>3, <3>4 DEF Settled
    <3>6. GraphHit(x, call.best[y]) \in ElementsOf(hits)
      BY <2>1, <2>4, <3>5
    <3> QED
      BY <3>5, <3>6 DEF GraphHit, Hit
  <2>5. GraphComplete'
    BY <2>2, <2>3, <2>4 DEF GraphComplete, Related
  <2>6. SeedsRanked'
    BY <2>2, <2>3 DEF CompleteInv, SeedsRanked
  <2> QED
    BY <2>3, <2>5, <2>6 DEF CompleteInv, ExpansionComplete, HitsRanked
<1>7. CASE Answer
  <2> DEFINE hits == call.vector_hits \o call.keyword_hits \o call.graph_hits
             ranked == merge_and_rank(Weights, hits, FinalTopK)
  <2>1. /\ pc = "rank" /\ pc' = "answered" /\ rows' = rows /\ edges' = edges
        /\ call' = [call EXCEPT !.ranked = ranked,
                                !.sources = SubSeq(ranked, 1, build_context(ranked))]
    BY <1>7 DEF Answer
  <2> HIDE DEF ranked
  <2>2. /\ call'.vector_hits = call.vector_hits /\ call'.keyword_hits = call.keyword_hits
        /\ call'.seeds = call.seeds /\ call'.graph_hits = call.graph_hits
        /\ call'.quiet = call.quiet /\ call'.ranked = ranked /\ Asked' = Asked
    BY <1>1, <2>1 DEF CallType, Asked
  <2>3. HitsRanked'
    BY <2>2 DEF HitsRanked, Weights, ranked
  <2>4. SeedsRanked' /\ GraphComplete'
    BY <2>1, <2>2 DEF CompleteInv, SeedsRanked, GraphComplete, Related
  <2> QED
    BY <2>1, <2>3, <2>4 DEF CompleteInv, ExpansionComplete
<1>8. CASE (\E b \in Batches : CommitChunks(b)) \/ (\E g \in Growths : GrowGraph(g))
           \/ UNCHANGED vars
  <2>1. /\ pc' = pc /\ Asked' = Asked
        /\ call'.vector_hits = call.vector_hits /\ call'.keyword_hits = call.keyword_hits
        /\ call'.seeds = call.seeds /\ call'.pending = call.pending
        /\ call'.best = call.best /\ call'.graph_hits = call.graph_hits
        /\ call'.ranked = call.ranked
        /\ call'.quiet => call.quiet /\ rows' = rows /\ edges' = edges
    BY <1>8, StoringKeeps
  <2>2. SeedsRanked' /\ HitsRanked'
    BY <2>1 DEF CompleteInv, SeedsRanked, HitsRanked, Weights
  <2>3. ExpansionComplete'
    BY <2>1 DEF CompleteInv, ExpansionComplete, Settled
  <2>4. GraphComplete'
    BY <2>1 DEF CompleteInv, GraphComplete, Related
  <2> QED
    BY <2>2, <2>3, <2>4 DEF CompleteInv
<1> QED
  BY <1>3, <1>4, <1>5, <1>6, <1>7, <1>8 DEF Next

SimilarityOf(x) ==
  IF x \in RowsOf(call.vector_hits) /\ x.distance < 100 THEN 100 - x.distance ELSE 0

RankOf(x) == IF x \in RowsOf(call.keyword_hits) THEN x.rank ELSE 0

Ways(x) == {r \in Relationship : Asked.kind = "hybrid" /\ Related(r, SymbolOfRow(x))}

WayScores(x) == {0} \cup {GraphScore[r] : r \in Ways(x)}

\* The best scores of a chunk are its similarity and its rank, where a search has
\* found it.
LEMMA SearchScores ==
  ASSUME TypeInv, GroundedInv, NEW hits \in Seq(HitType), NEW others,
         others \subseteq ElementsOf(call.graph_hits),
         ElementsOf(hits) = ElementsOf(call.vector_hits) \cup ElementsOf(call.keyword_hits)
                              \cup others,
         NEW x \in RowsOf(hits)
  PROVE  /\ MaxOf({h.vector_similarity : h \in Own(hits, x)}) = SimilarityOf(x)
         /\ MaxOf({h.keyword_score : h \in Own(hits, x)}) = RankOf(x)
<1> DEFINE V == MaxOf({h.vector_similarity : h \in Own(hits, x)})
           K == MaxOf({h.keyword_score : h \in Own(hits, x)})
<1>1. /\ V \in Nat /\ K \in Nat
      /\ \E h \in Own(hits, x) : h.vector_similarity = V
      /\ \E h \in Own(hits, x) : h.keyword_score = K
      /\ \A h \in Own(hits, x) : h.vector_similarity <= V /\ h.keyword_score <= K
  BY BestScores
<1>2. x \in Row /\ x.distance \in 0 .. 200 /\ x.rank \in Nat
  BY HitsFinite DEF Row
<1>3. /\ VectorSimilarity(x.distance) \in Nat
      /\ x \in RowsOf(call.vector_hits) => VectorSimilarity(x.distance) = SimilarityOf(x)
      /\ x \notin RowsOf(call.vector_hits) => SimilarityOf(x) = 0
      /\ SimilarityOf(x) \in Nat /\ RankOf(x) \in Nat
  <2>1. x.distance \in Int /\ 0 <= x.distance
    <3>1. \A d \in 0 .. 200 : d \in Int /\ 0 <= d
      OBVIOUS
    <3> QED
      BY <1>2, <3>1, Zenon
  <2>2. VectorSimilarity(x.distance) = IF x.distance < 100 THEN 100 - x.distance ELSE 0
    BY DEF VectorSimilarity
  <2>3. VectorSimilarity(x.distance) \in Nat
    BY <2>1, <2>2
  <2>4. SimilarityOf(x) =
          IF x \in RowsOf(call.vector_hits) THEN VectorSimilarity(x.distance) ELSE 0
    BY <2>2 DEF SimilarityOf
  <2>5. RankOf(x) \in Nat
    BY <1>2 DEF RankOf
  <2> QED
    BY <2>3, <2>4, <2>5
<1>4. ASSUME NEW h \in Own(hits, x)
      PROVE  \/ /\ x \in RowsOf(call.vector_hits) /\ h.keyword_score = 0
                /\ h.vector_similarity = VectorSimilarity(x.distance)
             \/ /\ x \in RowsOf(call.keyword_hits) /\ h.keyword_score = x.rank
                /\ h.vector_similarity = 0
             \/ h.vector_similarity = 0 /\ h.keyword_score = 0
  <2>1. h \in ElementsOf(hits) /\ h.row = x
    BY DEF Own
  <2>2. CASE h \in ElementsOf(call.vector_hits)
    BY <2>1, <2>2 DEF GroundedInv, VectorGrounded, RowsOf, VectorHit, Hit
  <2>3. CASE h \in ElementsOf(call.keyword_hits)
    BY <2>1, <2>3 DEF GroundedInv, KeywordGrounded, RowsOf, KeywordHit, Hit
  <2>4. CASE h \in ElementsOf(call.graph_hits)
    BY <2>4 DEF GroundedInv, GraphGrounded, GraphHit, Hit
  <2> QED
    BY <2>1, <2>2, <2>3, <2>4
<1>5. ASSUME x \in RowsOf(call.vector_hits)
      PROVE  \E h \in Own(hits, x) : h.vector_similarity = VectorSimilarity(x.distance)
  <2>1. PICK h \in ElementsOf(call.vector_hits) : h.row = x
    BY <1>5 DEF RowsOf
  <2>2. h = VectorHit(x) /\ h \in Own(hits, x)
    BY <2>1 DEF GroundedInv, VectorGrounded, Own
  <2> QED
    BY <2>2 DEF VectorHit, Hit
<1>6. ASSUME x \in RowsOf(call.keyword_hits)
      PROVE  \E h \in Own(hits, x) : h.keyword_score = x.rank
  <2>1. PICK h \in ElementsOf(call.keyword_hits) : h.row = x
    BY <1>6 DEF RowsOf
  <2>2. h = KeywordHit(x) /\ h \in Own(hits, x)
    BY <2>1 DEF GroundedInv, KeywordGrounded, Own
  <2> QED
    BY <2>2 DEF KeywordHit, Hit
<1> HIDE DEF V, K
<1>7. V = SimilarityOf(x)
  <2>1. CASE x \in RowsOf(call.vector_hits)
    <3>1. VectorSimilarity(x.distance) <= V
      BY <1>1, <1>5, <2>1
    <3>2. V = VectorSimilarity(x.distance) \/ V = 0
      BY <1>1, <1>4
    <3> QED
      BY <1>1, <1>3, <2>1, <3>1, <3>2
  <2>2. CASE x \notin RowsOf(call.vector_hits)
    BY <1>1, <1>3, <1>4, <2>2
  <2> QED
    BY <2>1, <2>2
<1>8. K = RankOf(x)
  <2>1. CASE x \in RowsOf(call.keyword_hits)
    <3>1. x.rank <= K
      BY <1>1, <1>6, <2>1
    <3>2. K = x.rank \/ K = 0
      BY <1>1, <1>4
    <3> QED
      BY <1>1, <1>2, <2>1, <3>1, <3>2 DEF RankOf
  <2>2. CASE x \notin RowsOf(call.keyword_hits)
    <3>1. K = 0
      BY <1>1, <1>4, <2>2
    <3> QED
      BY <2>2, <3>1 DEF RankOf
  <2> QED
    BY <2>1, <2>2
<1> QED
  BY <1>7, <1>8 DEF V, K

LEMMA WayScoresType ==
  ASSUME NEW x
  PROVE  /\ WayScores(x) \subseteq 0 .. 60 /\ WayScores(x) \subseteq Nat
         /\ IsFiniteSet(WayScores(x)) /\ WayScores(x) # {}
         /\ MaxOf(WayScores(x)) \in WayScores(x) /\ MaxOf(WayScores(x)) \in Nat
         /\ \A n \in WayScores(x) : n <= MaxOf(WayScores(x))
<1>1. WayScores(x) \subseteq 0 .. 60 /\ WayScores(x) # {}
  BY RelationshipsAre DEF WayScores, Ways
<1>2. WayScores(x) \subseteq Nat
  BY <1>1
<1>3. IsFiniteSet(0 .. 60)
  <2>1. 0 \in Int /\ 60 \in Int
    OBVIOUS
  <2> QED
    BY <2>1, FS_Interval
<1>4. IsFiniteSet(WayScores(x))
  BY <1>1, <1>3, FS_Subset
<1>5. /\ MaxOf(WayScores(x)) \in WayScores(x)
      /\ \A n \in WayScores(x) : n <= MaxOf(WayScores(x))
  BY <1>1, <1>2, <1>4, Greatest
<1> QED
  BY <1>1, <1>2, <1>4, <1>5

\* With the hits of the graph, and if nothing was stored meanwhile, the best graph
\* score is that of the best way, and what the graph has added is what is related.
LEMMA GraphScores ==
  ASSUME TypeInv, GroundedInv, CompleteInv, pc = "answered", call.quiet,
         NEW hits \in Seq(HitType),
         ElementsOf(hits) = ElementsOf(call.vector_hits) \cup ElementsOf(call.keyword_hits)
                              \cup ElementsOf(call.graph_hits)
  PROVE  /\ RowsOf(call.graph_hits) =
              {x \in rows : x.repository_id = Asked.repository_id /\ Ways(x) # {}}
         /\ Asked.kind = "hybrid" => \A x \in RowsOf(hits) :
              x.repository_id = Asked.repository_id =>
                MaxOf({h.graph_score : h \in Own(hits, x)}) = MaxOf(WayScores(x))
<1>1. ASSUME NEW h \in ElementsOf(call.graph_hits)
      PROVE  /\ h.row \in rows /\ h.row.repository_id = Asked.repository_id
             /\ \E r \in Ways(h.row) : h.graph_score = GraphScore[r]
  <2>1. PICK x \in rows, r \in Relationship :
          /\ h = GraphHit(x, r)
          /\ x.repository_id = Asked.repository_id /\ Related(r, SymbolOfRow(x))
    BY DEF GroundedInv, GraphGrounded
  <2>2. h.row = x /\ h.graph_score = GraphScore[r]
    BY <2>1 DEF GraphHit, Hit
  <2>3. Asked.kind = "hybrid"
    <3>1. call.seeds # <<>>
      BY <2>1 DEF Related
    <3> QED
      BY <3>1, AskedAbout DEF GroundedInv, SeedsGrounded
  <2> QED
    BY <2>1, <2>2, <2>3 DEF Ways
<1>2. ASSUME NEW x \in rows, x.repository_id = Asked.repository_id, NEW r \in Ways(x)
      PROVE  \E h \in ElementsOf(call.graph_hits) : h.row = x /\ GraphScore[r] <= h.graph_score
  BY <1>2 DEF Ways, CompleteInv, GraphComplete
<1>3. RowsOf(call.graph_hits) =
        {x \in rows : x.repository_id = Asked.repository_id /\ Ways(x) # {}}
  BY <1>1, <1>2 DEF RowsOf
<1>4. ASSUME NEW x \in RowsOf(hits), x.repository_id = Asked.repository_id, x \in rows
      PROVE  MaxOf({h.graph_score : h \in Own(hits, x)}) = MaxOf(WayScores(x))
  <2> DEFINE G == MaxOf({h.graph_score : h \in Own(hits, x)})
             B == MaxOf(WayScores(x))
  <2>1. /\ G \in Nat
        /\ \E h \in Own(hits, x) : h.graph_score = G
        /\ \A h \in Own(hits, x) : h.graph_score <= G
    BY BestScores
  <2>2. B \in Nat /\ B \in WayScores(x) /\ \A n \in WayScores(x) : n <= B
    BY WayScoresType
  <2> HIDE DEF G, B
  <2>3. ASSUME NEW h \in Own(hits, x) PROVE h.graph_score \in WayScores(x)
    <3>1. h \in ElementsOf(hits) /\ h.row = x
      BY DEF Own
    <3>2. CASE h \in ElementsOf(call.vector_hits)
      BY <3>2 DEF GroundedInv, VectorGrounded, VectorHit, Hit, WayScores
    <3>3. CASE h \in ElementsOf(call.keyword_hits)
      BY <3>3 DEF GroundedInv, KeywordGrounded, KeywordHit, Hit, WayScores
    <3>4. CASE h \in ElementsOf(call.graph_hits)
      BY <1>1, <3>1, <3>4 DEF WayScores
    <3> QED
      BY <3>1, <3>2, <3>3, <3>4
  <2>4. G <= B
    BY <2>1, <2>2, <2>3
  <2>5. B <= G
    <3>1. CASE B = 0
      BY <2>1, <3>1
    <3>2. CASE B # 0
      <4>1. PICK r \in Ways(x) : B = GraphScore[r]
        BY <2>2, <3>2 DEF WayScores
      <4>2. PICK h \in ElementsOf(call.graph_hits) : h.row = x /\ GraphScore[r] <= h.graph_score
        BY <1>2, <1>4
      <4>3. h \in Own(hits, x)
        BY <4>2 DEF Own
      <4>4. h.graph_score \in Nat
        BY <2>3, <4>3, WayScoresType
      <4> QED
        BY <2>1, <2>2, <4>1, <4>2, <4>3, <4>4
    <3> QED
      BY <3>1, <3>2
  <2> QED
    BY <2>1, <2>2, <2>4, <2>5 DEF G, B
<1>5. ASSUME NEW x \in RowsOf(hits) PROVE x \in rows
  <2>1. PICK h \in ElementsOf(hits) : h.row = x
    BY DEF RowsOf
  <2> QED
    BY <1>1, <2>1 DEF GroundedInv, VectorGrounded, KeywordGrounded
<1> QED
  BY <1>3, <1>4, <1>5

\* The rows of a ranking are the best ones, as the score orders them.
LEMMA TopRows ==
  ASSUME NEW hits \in Seq(HitType), NEW weights \in WeightsType, NEW top_k \in Nat,
         NEW ranked, ranked = merge_and_rank(weights, hits, top_k),
         NEW score,
         \A x \in RowsOf(hits) : score[x] = CombinedScore(weights, hits, x),
         NEW s, s = [k \in DOMAIN ranked |-> ranked[k].row]
  PROVE  /\ ElementsOf(s) \subseteq RowsOf(hits)
         /\ Len(s) = Least(top_k, Cardinality(RowsOf(hits)))
         /\ \A i, j \in DOMAIN s : i < j => s[i] # s[j] /\ score[s[i]] >= score[s[j]]
         /\ \A x \in RowsOf(hits) \ ElementsOf(s), i \in DOMAIN s : score[x] <= score[s[i]]
<1>1. /\ Len(ranked) = Least(top_k, Cardinality(RowsOf(hits)))
      /\ ranked \in Seq(CandidateType)
      /\ \A n \in 1 .. Len(ranked) : ranked[n].row \in RowsOf(hits)
      /\ \A i, j \in 1 .. Len(ranked) : i < j =>
           /\ ranked[i].row # ranked[j].row
           /\ CombinedScore(weights, hits, ranked[i].row)
                >= CombinedScore(weights, hits, ranked[j].row)
      /\ \A x \in RowsOf(hits) : (\A n \in 1 .. Len(ranked) : ranked[n].row # x) =>
           \A n \in 1 .. Len(ranked) :
             CombinedScore(weights, hits, x) <= CombinedScore(weights, hits, ranked[n].row)
  BY Merged, SMTT(60)
<1>2. Len(ranked) \in Nat /\ DOMAIN ranked = 1 .. Len(ranked)
  BY <1>1, LenProperties
<1>3. /\ DOMAIN s = 1 .. Len(ranked)
      /\ \A k \in 1 .. Len(ranked) : s[k] = ranked[k].row
  BY <1>2
<1>4. Len(s) = Len(ranked)
  <2>1. s \in [1 .. Len(ranked) -> RowsOf(hits)]
    BY <1>1, <1>2, <1>3
  <2>2. s \in Seq(RowsOf(hits))
    BY <1>2, <2>1, SeqDef
  <2>3. Len(s) \in Nat /\ DOMAIN s = 1 .. Len(s)
    BY <2>2, LenProperties
  <2> QED
    BY <1>2, <1>3, <2>3
<1>5. ElementsOf(s) \subseteq RowsOf(hits)
  BY <1>1, <1>3 DEF ElementsOf
<1>6. ASSUME NEW i \in DOMAIN s, NEW j \in DOMAIN s, i < j
      PROVE  s[i] # s[j] /\ score[s[i]] >= score[s[j]]
  BY <1>1, <1>3, <1>6
<1>7. ASSUME NEW x \in RowsOf(hits) \ ElementsOf(s), NEW i \in DOMAIN s
      PROVE  score[x] <= score[s[i]]
  <2>1. \A n \in 1 .. Len(ranked) : ranked[n].row # x
    BY <1>3, <1>7 DEF ElementsOf
  <2> QED
    BY <1>1, <1>3, <2>1
<1> QED
  BY <1>1, <1>4, <1>5, <1>6, <1>7

\* What all hits of an answer are.
LEMMA AllHits ==
  ASSUME TypeInv, NEW hits,
         hits = call.vector_hits \o call.keyword_hits \o call.graph_hits
  PROVE  /\ hits \in Seq(HitType)
         /\ ElementsOf(hits) = ElementsOf(call.vector_hits) \cup ElementsOf(call.keyword_hits)
                                 \cup ElementsOf(call.graph_hits)
<1>1. /\ call.vector_hits \in Seq(HitType) /\ call.keyword_hits \in Seq(HitType)
      /\ call.graph_hits \in Seq(HitType)
  BY DEF TypeInv, CallType
<1> DEFINE front == call.vector_hits \o call.keyword_hits
<1>2. /\ front \in Seq(HitType)
      /\ ElementsOf(front) = ElementsOf(call.vector_hits) \cup ElementsOf(call.keyword_hits)
  BY <1>1, ConcatProperties, ElementsOfConcat
<1>3. hits = front \o call.graph_hits
  OBVIOUS
<1> HIDE DEF front
<1> QED
  BY <1>1, <1>2, <1>3, ConcatProperties, ElementsOfConcat

\* What a chunk counts for.
SeedScoreOf(x) == 7 * SimilarityOf(x) + 3 * RankOf(x)

ScoreOf(x) ==
  IF Asked.kind = "hybrid"
  THEN 5 * SimilarityOf(x) + 2 * RankOf(x) + 3 * MaxOf(WayScores(x))
  ELSE SeedScoreOf(x)

LEMMA SeedsAreTop ==
  ASSUME TypeInv, GroundedInv, NEW hits, hits = call.vector_hits \o call.keyword_hits
  PROVE  /\ hits \in Seq(HitType)
         /\ RowsOf(hits) = RowsOf(call.vector_hits) \cup RowsOf(call.keyword_hits)
         /\ \A x \in RowsOf(hits) : CombinedScore(RagWeights, hits, x) = SeedScoreOf(x)
<1>1. /\ call.vector_hits \in Seq(HitType) /\ call.keyword_hits \in Seq(HitType)
  BY DEF TypeInv, CallType
<1>2. /\ hits \in Seq(HitType)
      /\ ElementsOf(hits) = ElementsOf(call.vector_hits) \cup ElementsOf(call.keyword_hits)
  BY <1>1, ConcatProperties, ElementsOfConcat
<1>3. RowsOf(hits) = RowsOf(call.vector_hits) \cup RowsOf(call.keyword_hits)
  BY <1>2 DEF RowsOf
<1>4. ASSUME NEW x \in RowsOf(hits)
      PROVE  CombinedScore(RagWeights, hits, x) = SeedScoreOf(x)
  <2> DEFINE V == MaxOf({h.vector_similarity : h \in Own(hits, x)})
             K == MaxOf({h.keyword_score : h \in Own(hits, x)})
             G == MaxOf({h.graph_score : h \in Own(hits, x)})
  <2>1. V = SimilarityOf(x) /\ K = RankOf(x)
    <3>1. PICK others : others = {}
      OBVIOUS
    <3>2. /\ others \subseteq ElementsOf(call.graph_hits)
          /\ ElementsOf(hits) = ElementsOf(call.vector_hits) \cup ElementsOf(call.keyword_hits)
                                   \cup others
      BY <1>2, <3>1
    <3> QED
      BY <1>2, <3>2, SearchScores
  <2>2. V \in Nat /\ K \in Nat /\ G \in Nat
    BY <1>2, BestScores
  <2>3. CombinedScore(RagWeights, hits, x) = 7 * V + 3 * K + 0 * G
    BY DEF CombinedScore, RagWeights, Own
  <2> HIDE DEF V, K, G
  <2> QED
    BY <2>1, <2>2, <2>3 DEF SeedScoreOf
<1> QED
  BY <1>2, <1>3, <1>4

LEMMA AnswerIsTop ==
  ASSUME TypeInv, GroundedInv, CompleteInv, pc = "answered", call.quiet,
         NEW hits, hits = call.vector_hits \o call.keyword_hits \o call.graph_hits
  PROVE  /\ hits \in Seq(HitType) /\ Weights \in WeightsType
         /\ RowsOf(hits) =
              RowsOf(call.vector_hits) \cup RowsOf(call.keyword_hits)
              \cup {x \in rows : x.repository_id = Asked.repository_id /\ Ways(x) # {}}
         /\ \A x \in RowsOf(hits) : CombinedScore(Weights, hits, x) = ScoreOf(x)
<1>1. /\ hits \in Seq(HitType)
      /\ ElementsOf(hits) = ElementsOf(call.vector_hits) \cup ElementsOf(call.keyword_hits)
                              \cup ElementsOf(call.graph_hits)
  BY AllHits
<1>2. Weights \in WeightsType
  BY DEF Weights, RagWeights, HybridWeights, WeightsType
<1>3. /\ RowsOf(call.graph_hits) =
           {x \in rows : x.repository_id = Asked.repository_id /\ Ways(x) # {}}
      /\ Asked.kind = "hybrid" => \A x \in RowsOf(hits) :
           x.repository_id = Asked.repository_id =>
             MaxOf({h.graph_score : h \in Own(hits, x)}) = MaxOf(WayScores(x))
  BY <1>1, GraphScores
<1>4. RowsOf(hits) = RowsOf(call.vector_hits) \cup RowsOf(call.keyword_hits)
                       \cup RowsOf(call.graph_hits)
  BY <1>1 DEF RowsOf
<1>5. ASSUME NEW x \in RowsOf(hits)
      PROVE  CombinedScore(Weights, hits, x) = ScoreOf(x)
  <2> DEFINE V == MaxOf({h.vector_similarity : h \in Own(hits, x)})
             K == MaxOf({h.keyword_score : h \in Own(hits, x)})
             G == MaxOf({h.graph_score : h \in Own(hits, x)})
  <2>1. V = SimilarityOf(x) /\ K = RankOf(x)
    BY <1>1, SearchScores
  <2>2. V \in Nat /\ K \in Nat /\ G \in Nat
    BY <1>1, BestScores
  <2>3. CASE Asked.kind = "hybrid"
    <3>1. x.repository_id = Asked.repository_id
      <4>1. Asked.repository_id # None
        BY <2>3, AskedAbout, QuestionsAssumption
      <4>2. PICK h \in ElementsOf(hits) : h.row = x
        BY DEF RowsOf
      <4>3. CASE h \in ElementsOf(call.vector_hits) \cup ElementsOf(call.keyword_hits)
        BY <4>1, <4>2, <4>3 DEF GroundedInv, VectorGrounded, KeywordGrounded, Matching
      <4>4. CASE h \in ElementsOf(call.graph_hits)
        BY <1>3, <4>2, <4>4 DEF RowsOf
      <4> QED
        BY <1>1, <4>2, <4>3, <4>4
    <3>2. G = MaxOf(WayScores(x))
      BY <1>3, <2>3, <3>1
    <3>3. CombinedScore(Weights, hits, x) = 5 * V + 2 * K + 3 * G
      BY <2>3 DEF CombinedScore, Weights, HybridWeights, Own
    <3> HIDE DEF V, K, G
    <3> QED
      BY <2>1, <2>3, <3>2, <3>3 DEF ScoreOf
  <2>4. CASE Asked.kind = "rag"
    <3>1. CombinedScore(Weights, hits, x) = 7 * V + 3 * K + 0 * G
      BY <2>4 DEF CombinedScore, Weights, RagWeights, Own
    <3> HIDE DEF V, K, G
    <3> QED
      BY <2>1, <2>2, <2>4, <3>1 DEF ScoreOf, SeedScoreOf
  <2> QED
    BY <2>3, <2>4, AskedAbout
<1> QED
  BY <1>1, <1>2, <1>3, <1>4, <1>5

LEMMA CompleteIsExact == TypeInv /\ GroundedInv /\ CompleteInv => RankingIsExact
<1> SUFFICES ASSUME TypeInv, GroundedInv, CompleteInv, pc = "answered", call.quiet
             PROVE  RankingIsExact
  BY DEF RankingIsExact
<1> DEFINE found == RowsOf(call.vector_hits) \cup RowsOf(call.keyword_hits)
           related == {x \in rows : x.repository_id = Asked.repository_id /\ Ways(x) # {}}
           RowsIn(s) == [k \in DOMAIN s |-> s[k].row]
<1>1. /\ ElementsOf(RowsIn(call.ranked)) \subseteq found \cup related
      /\ Len(RowsIn(call.ranked)) = Least(FinalTopK, Cardinality(found \cup related))
      /\ \A i, j \in DOMAIN RowsIn(call.ranked) : i < j =>
           /\ RowsIn(call.ranked)[i] # RowsIn(call.ranked)[j]
           /\ ScoreOf(RowsIn(call.ranked)[i]) >= ScoreOf(RowsIn(call.ranked)[j])
      /\ \A x \in (found \cup related) \ ElementsOf(RowsIn(call.ranked)),
            i \in DOMAIN RowsIn(call.ranked) : ScoreOf(x) <= ScoreOf(RowsIn(call.ranked)[i])
  <2> DEFINE hits == call.vector_hits \o call.keyword_hits \o call.graph_hits
  <2>1. /\ hits \in Seq(HitType) /\ Weights \in WeightsType
        /\ RowsOf(hits) = found \cup related
        /\ \A x \in RowsOf(hits) : CombinedScore(Weights, hits, x) = ScoreOf(x)
    BY AnswerIsTop
  <2>2. call.ranked = merge_and_rank(Weights, hits, FinalTopK) /\ FinalTopK \in Nat
    BY LimitsAssumption DEF CompleteInv, HitsRanked
  <2> HIDE DEF hits, found, related
  <2>3. PICK score : score = [x \in RowsOf(hits) |-> ScoreOf(x)]
    OBVIOUS
  <2>4. \A x \in RowsOf(hits) : score[x] = ScoreOf(x)
    BY <2>3
  <2>5. PICK s : s = RowsIn(call.ranked)
    OBVIOUS
  <2>6. /\ ElementsOf(s) \subseteq RowsOf(hits)
        /\ Len(s) = Least(FinalTopK, Cardinality(RowsOf(hits)))
        /\ \A i, j \in DOMAIN s : i < j => s[i] # s[j] /\ score[s[i]] >= score[s[j]]
        /\ \A x \in RowsOf(hits) \ ElementsOf(s), i \in DOMAIN s : score[x] <= score[s[i]]
    <3>1. PICK weights : weights = Weights
      OBVIOUS
    <3>2. /\ weights \in WeightsType /\ call.ranked = merge_and_rank(weights, hits, FinalTopK)
          /\ \A x \in RowsOf(hits) : score[x] = CombinedScore(weights, hits, x)
      BY <2>1, <2>2, <2>4, <3>1
    <3>3. s = [k \in DOMAIN call.ranked |-> call.ranked[k].row]
      BY <2>5
    <3>4. hits \in Seq(HitType) /\ FinalTopK \in Nat
      BY <2>1, <2>2
    <3> HIDE DEF RowsIn
    <3> QED
      BY <3>2, <3>3, <3>4, TopRows
  <2>7. \A i \in DOMAIN s : s[i] \in RowsOf(hits)
    BY <2>6 DEF ElementsOf
  <2>8. /\ ElementsOf(s) \subseteq RowsOf(hits)
        /\ Len(s) = Least(FinalTopK, Cardinality(RowsOf(hits)))
        /\ \A i, j \in DOMAIN s : i < j => s[i] # s[j] /\ ScoreOf(s[i]) >= ScoreOf(s[j])
        /\ \A x \in RowsOf(hits) \ ElementsOf(s), i \in DOMAIN s : ScoreOf(x) <= ScoreOf(s[i])
    BY <2>4, <2>6, <2>7
  <2> HIDE DEF RowsIn
  <2> QED
    BY <2>1, <2>5, <2>8
<1>2. ASSUME Asked.kind = "hybrid"
      PROVE  /\ ElementsOf(RowsIn(call.seeds)) \subseteq found
             /\ Len(RowsIn(call.seeds)) = Least(SeedLimit, Cardinality(found))
             /\ \A i, j \in DOMAIN RowsIn(call.seeds) : i < j =>
                  /\ RowsIn(call.seeds)[i] # RowsIn(call.seeds)[j]
                  /\ SeedScoreOf(RowsIn(call.seeds)[i]) >= SeedScoreOf(RowsIn(call.seeds)[j])
             /\ \A x \in found \ ElementsOf(RowsIn(call.seeds)), i \in DOMAIN RowsIn(call.seeds) :
                  SeedScoreOf(x) <= SeedScoreOf(RowsIn(call.seeds)[i])
  <2> DEFINE hits == call.vector_hits \o call.keyword_hits
  <2>1. /\ hits \in Seq(HitType) /\ RowsOf(hits) = found
        /\ \A x \in RowsOf(hits) : CombinedScore(RagWeights, hits, x) = SeedScoreOf(x)
    BY SeedsAreTop
  <2>2. /\ call.seeds = merge_and_rank(RagWeights, hits, SeedLimit)
        /\ SeedLimit \in Nat /\ RagWeights \in WeightsType
    BY <1>2, LimitsAssumption DEF CompleteInv, SeedsRanked, RagWeights, WeightsType
  <2> HIDE DEF hits, found
  <2>3. PICK score : score = [x \in RowsOf(hits) |-> SeedScoreOf(x)]
    OBVIOUS
  <2>4. \A x \in RowsOf(hits) : score[x] = SeedScoreOf(x)
    BY <2>3
  <2>5. PICK s : s = RowsIn(call.seeds)
    OBVIOUS
  <2>6. /\ ElementsOf(s) \subseteq RowsOf(hits)
        /\ Len(s) = Least(SeedLimit, Cardinality(RowsOf(hits)))
        /\ \A i, j \in DOMAIN s : i < j => s[i] # s[j] /\ score[s[i]] >= score[s[j]]
        /\ \A x \in RowsOf(hits) \ ElementsOf(s), i \in DOMAIN s : score[x] <= score[s[i]]
    <3>1. PICK weights : weights = RagWeights
      OBVIOUS
    <3>2. /\ weights \in WeightsType /\ call.seeds = merge_and_rank(weights, hits, SeedLimit)
          /\ \A x \in RowsOf(hits) : score[x] = CombinedScore(weights, hits, x)
      BY <2>1, <2>2, <2>4, <3>1
    <3>3. s = [k \in DOMAIN call.seeds |-> call.seeds[k].row]
      BY <2>5
    <3>4. hits \in Seq(HitType) /\ SeedLimit \in Nat
      BY <2>1, <2>2
    <3> HIDE DEF RowsIn
    <3> QED
      BY <3>2, <3>3, <3>4, TopRows
  <2>7. \A i \in DOMAIN s : s[i] \in RowsOf(hits)
    BY <2>6 DEF ElementsOf
  <2>8. /\ ElementsOf(s) \subseteq RowsOf(hits)
        /\ Len(s) = Least(SeedLimit, Cardinality(RowsOf(hits)))
        /\ \A i, j \in DOMAIN s : i < j => s[i] # s[j] /\ SeedScoreOf(s[i]) >= SeedScoreOf(s[j])
        /\ \A x \in RowsOf(hits) \ ElementsOf(s), i \in DOMAIN s :
             SeedScoreOf(x) <= SeedScoreOf(s[i])
    BY <2>4, <2>6, <2>7
  <2> HIDE DEF RowsIn
  <2> QED
    BY <2>1, <2>5, <2>8
<1> QED
  BY <1>1, <1>2, Zenon DEF RankingIsExact, IsTop, ScoreOf, SeedScoreOf, SimilarityOf, RankOf,
                           WayScores, Ways, Related, RowsOf

\* If nothing is stored while a call reads, its ranking is that of all chunks the
\* searches have found and of all chunks related to the best of them, by the
\* similarity, the rank and the best relationship of each.
THEOREM RankingExact == Spec => []RankingIsExact
<1>1. Init => CompleteInv
  BY DEF Init, CompleteInv, SeedsRanked, ExpansionComplete, GraphComplete, HitsRanked
<1> QED
  BY <1>1, TypeAlways, GroundedInit, GroundedStep, CompleteStep, CompleteIsExact, PTL DEF Spec
=============================================================================
