---------------------------- MODULE RecordProofs ----------------------------
(***************************************************************************)
(* Theorems about the record a run leaves, and the lemmas on data they and *)
(* ConversationProofs rest on: induction over numbers and sequences,       *)
(* stated of sets so that a proof can use it (what holds of 0 and passes   *)
(* from each number to the next holds of every number), and from it what   *)
(* the recursive operators of the community modules compute for every      *)
(* input.                                                                  *)
(***************************************************************************)
EXTENDS RunRecord, SequenceTheorems, FiniteSetTheorems, TLAPS

\* Every set of natural numbers that is not empty has a least one.
LEMMA LeastNumber ==
    ASSUME NEW T, T \subseteq Nat, T # {}
    PROVE  \E x \in T : \A y \in T : x <= y
<1> DEFINE R == OpToRel(<, Nat)
<1>1. IsWellFoundedOn(R, Nat)
  BY NatLessThanWellFounded
<1>2. \A x, y \in Nat : <<y, x>> \notin R => x <= y
  BY DEF OpToRel
<1> HIDE DEF R
<1>3. PICK x \in T : \A y \in T : ~ (<<y, x>> \in R)
  BY <1>1, WFMin
<1> QED BY <1>2, <1>3

\* Induction up to a bound.
LEMMA InductionUpTo ==
    ASSUME NEW n \in Nat, NEW S, 0 \in S, \A k \in 0..(n - 1) : k \in S => k + 1 \in S
    PROVE  \A k \in 0..n : k \in S
<1> SUFFICES ASSUME NEW m \in 0..n, m \notin S PROVE FALSE
  OBVIOUS
<1> DEFINE T == {k \in 0..n : k \notin S}
<1>1. PICK x \in T : \A y \in T : x <= y
  <2>1. T \subseteq Nat /\ T # {}
    OBVIOUS
  <2> HIDE DEF T
  <2> QED BY <2>1, LeastNumber
<1>2. x # 0 /\ x - 1 \in 0..(n - 1) /\ x - 1 < x
  BY <1>1
<1>3. x - 1 \notin T
  BY <1>1, <1>2
<1>4. x - 1 \in S
  BY <1>2, <1>3
<1> QED BY <1>1, <1>2, <1>4

\* Induction over the natural numbers.
LEMMA Induction ==
    ASSUME NEW S, 0 \in S, \A k \in Nat : k \in S => k + 1 \in S
    PROVE  \A k \in Nat : k \in S
<1> SUFFICES ASSUME NEW m \in Nat PROVE m \in S
  OBVIOUS
<1> QED BY InductionUpTo

\* The greatest of some numbers up to a bound.
LEMMA MaxIs ==
    ASSUME NEW n \in Nat, NEW T, T \subseteq 0..n, T # {}
    PROVE  Max(T) \in T /\ \A y \in T : y <= Max(T)
<1> DEFINE U == {k \in 0..n : n - k \in T}
<1>1. U \subseteq Nat /\ U # {}
  <2>1. PICK y \in T : y \in 0..n
    OBVIOUS
  <2> DEFINE x == n - y
  <2>2. x \in 0..n /\ n - x = y
    BY <2>1
  <2> HIDE DEF x
  <2>3. x \in U
    BY <2>1, <2>2
  <2>4. U \subseteq Nat
    OBVIOUS
  <2> HIDE DEF U
  <2> QED BY <2>3, <2>4
<1>2. PICK m \in U : \A k \in U : m <= k
  <2> HIDE DEF U
  <2> QED BY <1>1, LeastNumber
<1> DEFINE x == n - m
<1>3. x \in T /\ m \in 0..n
  BY <1>2
<1>4. \A y \in T : y <= x
  <2> TAKE y \in T
  <2>1. y \in 0..n /\ n - y \in 0..n /\ n - (n - y) = y
    OBVIOUS
  <2>2. n - y \in U
    BY <2>1
  <2>3. m <= n - y
    BY <1>2, <2>2
  <2> QED BY <1>3, <2>1, <2>3
<1> HIDE DEF x
<1>5. \A y \in T : x >= y
  BY <1>3, <1>4
<1>6. Max(T) \in T /\ \A y \in T : Max(T) >= y
  BY <1>3, <1>5, Zenon DEF Max
<1> QED BY <1>6

-----------------------------------------------------------------------------
(* FlattenSeq *)

\* The prefixes FlattenSeq puts together.
Flattens(g, s) == g = [i \in 1..Len(s) |-> IF i = 1 THEN s[i] ELSE g[i - 1] \o s[i]]
FlattensUpTo(m, g, s) == \A i \in 1..m : g[i] = IF i = 1 THEN s[i] ELSE g[i - 1] \o s[i]

LEMMA FlattensExists ==
    ASSUME NEW A, NEW s \in Seq(Seq(A))
    PROVE  \E g \in [1..Len(s) -> Seq(A)] : Flattens(g, s)
<1> DEFINE S == {m \in 0..Len(s) : \E g \in [1..m -> Seq(A)] : FlattensUpTo(m, g, s)}
<1>0. Len(s) \in Nat /\ \A i \in 1..Len(s) : s[i] \in Seq(A)
  OBVIOUS
<1>1. 0 \in S
  <2> DEFINE g == [i \in 1..0 |-> <<>>]
  <2>1. g \in [1..0 -> Seq(A)] /\ FlattensUpTo(0, g, s)
    BY DEF FlattensUpTo
  <2>2. 0 \in 0..Len(s)
    BY <1>0
  <2> HIDE DEF g
  <2> QED BY <2>1, <2>2, Zenon
<1>2. ASSUME NEW m \in 0..(Len(s) - 1), m \in S
      PROVE  m + 1 \in S
  <2>1. PICK g \in [1..m -> Seq(A)] : FlattensUpTo(m, g, s)
    BY <1>2
  <2> DEFINE new == IF m + 1 = 1 THEN s[m + 1] ELSE g[m] \o s[m + 1]
             h == [i \in 1..(m + 1) |-> IF i <= m THEN g[i] ELSE new]
  <2>2. m + 1 \in 1..Len(s) /\ s[m + 1] \in Seq(A)
    BY <1>0
  <2>3. m # 0 => g[m] \in Seq(A) /\ g[m] \o s[m + 1] \in Seq(A)
    BY <2>2
  <2>4. new \in Seq(A)
    BY <2>2, <2>3
  <2>5. \A i \in 1..m : h[i] = g[i]
    OBVIOUS
  <2>6. h[m + 1] = new
    OBVIOUS
  <2>7. h \in [1..(m + 1) -> Seq(A)]
    BY <2>4
  <2> HIDE DEF h
  <2>8. ASSUME NEW i \in 1..(m + 1)
        PROVE  h[i] = IF i = 1 THEN s[i] ELSE h[i - 1] \o s[i]
    <3>1. CASE i = m + 1
      <4>1. m # 0 => h[i - 1] = g[m]
        BY <2>5, <3>1
      <4> QED BY <2>6, <3>1, <4>1
    <3>2. CASE i # m + 1
      <4>1. i \in 1..m /\ (i # 1 => i - 1 \in 1..m)
        BY <3>2
      <4> QED BY <2>1, <2>5, <4>1 DEF FlattensUpTo
    <3> QED BY <3>1, <3>2
  <2>9. FlattensUpTo(m + 1, h, s)
    BY <2>8 DEF FlattensUpTo
  <2>10. m + 1 \in 0..Len(s)
    BY <1>0
  <2> QED BY <2>7, <2>9, <2>10
<1> HIDE DEF S
<1>3. Len(s) \in S
  <2>1. \A k \in 0..Len(s) : k \in S
    BY <1>0, <1>1, <1>2, InductionUpTo
  <2> QED BY <1>0, <2>1
<1>4. PICK g \in [1..Len(s) -> Seq(A)] : FlattensUpTo(Len(s), g, s)
  BY <1>3 DEF S
<1>5. Flattens(g, s)
  BY <1>4 DEF Flattens, FlattensUpTo
<1> QED BY <1>4, <1>5

\* There is only one.
Agree(n, s, t) == \A i \in 1..n : s[i] = t[i]

LEMMA FlattensUnique ==
    ASSUME NEW s, NEW g, Flattens(g, s), NEW t, NEW h, Flattens(h, t), Len(s) \in Nat, Len(t) \in Nat,
           NEW n \in Nat, n <= Len(s), n <= Len(t), Agree(n, s, t)
    PROVE  Agree(n, g, h)
<1> USE DEF Agree
<1> DEFINE S == {m \in 0..n : m # 0 => g[m] = h[m]}
<1>1. 0 \in S
  OBVIOUS
<1>2. ASSUME NEW m \in 0..(n - 1), m \in S
      PROVE  m + 1 \in S
  <2>1. m + 1 \in 1..Len(s) /\ m + 1 \in 1..Len(t) /\ s[m + 1] = t[m + 1]
    OBVIOUS
  <2> DEFINE k == m + 1
  <2>2. k \in 1..Len(s) /\ k \in 1..Len(t) /\ k - 1 = m
    BY <2>1
  <2> HIDE DEF k
  <2>3. g[k] = IF k = 1 THEN s[k] ELSE g[k - 1] \o s[k]
    BY <2>2, Zenon DEF Flattens
  <2>4. h[k] = IF k = 1 THEN t[k] ELSE h[k - 1] \o t[k]
    BY <2>2, Zenon DEF Flattens
  <2>5. g[k] = h[k]
    BY <1>2, <2>1, <2>2, <2>3, <2>4 DEF k
  <2> QED BY <2>1, <2>5 DEF k
<1> HIDE DEF S
<1>3. \A m \in 0..n : m \in S
  BY <1>1, <1>2, InductionUpTo
<1> QED BY <1>3 DEF S

\* FlattenSeq is its last prefix.
LEMMA FlattenIs ==
    ASSUME NEW A, NEW s \in Seq(Seq(A)), s # <<>>, NEW g, Flattens(g, s)
    PROVE  FlattenSeq(s) = g[Len(s)]
<1> DEFINE f == CHOOSE f : f = [i \in 1..Len(s) |-> IF i = 1 THEN s[i] ELSE f[i - 1] \o s[i]]
<1>1. Len(s) \in Nat \ {0}
  OBVIOUS
<1>2. f = [i \in 1..Len(s) |-> IF i = 1 THEN s[i] ELSE f[i - 1] \o s[i]]
  BY Zenon DEF Flattens
<1>3. FlattenSeq(s) = f[Len(s)]
  BY <1>1, Zenon DEF FlattenSeq
<1> HIDE DEF f
<1>4. Flattens(f, s)
  BY <1>2 DEF Flattens
<1>5. Agree(Len(s), s, s)
  BY DEF Agree
<1>6. Agree(Len(s), f, g)
  BY <1>1, <1>4, <1>5, FlattensUnique
<1> QED BY <1>1, <1>3, <1>6 DEF Agree

\* One more sequence.
LEMMA FlattenAppended ==
    ASSUME NEW A, NEW s \in Seq(Seq(A)), NEW t \in Seq(A)
    PROVE  FlattenSeq(Append(s, t)) = FlattenSeq(s) \o t
<1> DEFINE u == Append(s, t)
<1>1. u \in Seq(Seq(A)) /\ Len(u) = Len(s) + 1 /\ u # <<>> /\ u[Len(s) + 1] = t
      /\ \A i \in 1..Len(s) : u[i] = s[i]
  BY AppendProperties
<1> HIDE DEF u
<1>2. PICK g \in [1..Len(s) -> Seq(A)] : Flattens(g, s)
  BY FlattensExists
<1>3. PICK h \in [1..Len(u) -> Seq(A)] : Flattens(h, u)
  BY <1>1, FlattensExists
<1>4. FlattenSeq(u) = h[Len(u)]
  BY <1>1, <1>3, FlattenIs
<1>5. h[Len(s) + 1] = IF Len(s) + 1 = 1 THEN u[Len(s) + 1] ELSE h[Len(s)] \o u[Len(s) + 1]
  <2> DEFINE k == Len(s) + 1
  <2>1. k \in 1..Len(u) /\ k - 1 = Len(s)
    BY <1>1
  <2> HIDE DEF k
  <2>2. h[k] = IF k = 1 THEN u[k] ELSE h[k - 1] \o u[k]
    BY <1>3, <2>1, Zenon DEF Flattens
  <2> QED BY <2>1, <2>2 DEF k
<1>6. CASE s = <<>>
  <2>1. FlattenSeq(s) = <<>> /\ Len(s) = 0
    BY <1>6 DEF FlattenSeq
  <2>2. FlattenSeq(u) = t
    BY <1>1, <1>4, <1>5, <2>1
  <2>3. <<>> \o t = t
    BY ConcatEmptySeq
  <2> QED BY <2>1, <2>2, <2>3 DEF u
<1>7. CASE s # <<>>
  <2>1. Len(s) \in Nat \ {0}
    BY <1>7, EmptySeq
  <2>2. FlattenSeq(s) = g[Len(s)]
    BY <1>2, <1>7, FlattenIs
  <2>3. g[Len(s)] = h[Len(s)]
    <3> DEFINE n == Len(s)
    <3>1. /\ Len(s) \in Nat /\ Len(u) \in Nat /\ n \in Nat /\ n <= Len(s) /\ n <= Len(u)
          /\ Flattens(g, s) /\ Flattens(h, u) /\ Agree(n, s, u)
      BY <1>1, <1>2, <1>3, <2>1 DEF Agree
    <3> HIDE DEF n
    <3>2. Agree(n, g, h)
      BY <3>1, FlattensUnique
    <3> USE DEF n, Agree
    <3> QED BY <2>1, <3>2
  <2> QED BY <1>1, <1>4, <1>5, <2>1, <2>2, <2>3 DEF u
<1> QED BY <1>6, <1>7

\* What it is.
LEMMA FlattenType ==
    ASSUME NEW A, NEW s \in Seq(Seq(A))
    PROVE  FlattenSeq(s) \in Seq(A)
<1>1. CASE s = <<>>
  <2>1. FlattenSeq(s) = <<>>
    BY <1>1 DEF FlattenSeq
  <2> QED BY <2>1
<1>2. CASE s # <<>>
  <2>1. PICK g \in [1..Len(s) -> Seq(A)] : Flattens(g, s)
    BY FlattensExists
  <2>2. FlattenSeq(s) = g[Len(s)]
    BY <1>2, <2>1, FlattenIs
  <2>3. Len(s) \in 1..Len(s)
    BY <1>2, EmptySeq
  <2>4. g[Len(s)] \in Seq(A)
    BY <2>3
  <2> QED BY <2>2, <2>4
<1> QED BY <1>1, <1>2

LEMMA FlattenEmpty == FlattenSeq(<<>>) = <<>>
  BY DEF FlattenSeq

LEMMA FlattenOne ==
    ASSUME NEW A, NEW t \in Seq(A)
    PROVE  FlattenSeq(<<t>>) = t
<1>1. <<t>> = Append(<<>>, t) /\ <<>> \in Seq(Seq(A))
  OBVIOUS
<1>2. FlattenSeq(<<t>>) = <<>> \o t
  BY <1>1, FlattenAppended, FlattenEmpty
<1> QED BY <1>2, ConcatEmptySeq

\* The rest of a sequence of sequences.
LEMMA FlattenConcat ==
    ASSUME NEW A, NEW s \in Seq(Seq(A)), NEW t \in Seq(Seq(A))
    PROVE  FlattenSeq(s \o t) = FlattenSeq(s) \o FlattenSeq(t)
<1> DEFINE front(m) == SubSeq(t, 1, m)
           S == {m \in 0..Len(t) : FlattenSeq(s \o front(m)) = FlattenSeq(s) \o FlattenSeq(front(m))}
<1>0. Len(t) \in Nat /\ FlattenSeq(s) \in Seq(A)
  BY FlattenType
<1>1. 0 \in S
  <2>1. front(0) = <<>>
    BY SubSeqEmpty
  <2>2. s \o <<>> = s /\ FlattenSeq(s) \o <<>> = FlattenSeq(s)
    BY <1>0, ConcatEmptySeq
  <2>3. FlattenSeq(s \o front(0)) = FlattenSeq(s) \o FlattenSeq(front(0))
    BY <2>1, <2>2, FlattenEmpty
  <2>4. 0 \in 0..Len(t)
    BY <1>0
  <2> QED BY <2>3, <2>4
<1>2. ASSUME NEW m \in 0..(Len(t) - 1), m \in S
      PROVE  m + 1 \in S
  <2>1. m + 1 \in 1..Len(t) /\ m \in 0..Len(t) /\ t[m + 1] \in Seq(A)
    BY <1>0
  <2>2. front(m + 1) = Append(front(m), t[m + 1]) /\ front(m) \in Seq(Seq(A))
    <3>1. \A n \in 0..Len(t) : /\ front(n) \in Seq(Seq(A)) /\ Len(front(n)) = n
                              /\ \A i \in 1..n : front(n)[i] = t[i]
      <4> SUFFICES ASSUME NEW n \in 0..Len(t)
                   PROVE  /\ front(n) \in Seq(Seq(A)) /\ Len(front(n)) = n
                          /\ \A i \in 1..n : front(n)[i] = t[i]
        OBVIOUS
      <4>1. \A i \in 1..n : t[i] \in Seq(A)
        OBVIOUS
      <4>2. 1 \in Int /\ n \in Int
        OBVIOUS
      <4> QED BY <4>1, <4>2, SubSeqProperties
    <3> DEFINE a == front(m)
               b == front(m + 1)
    <3>2. a \in Seq(Seq(A)) /\ b \in Seq(Seq(A)) /\ Len(a) = m /\ Len(b) = m + 1
          /\ b[m + 1] = t[m + 1] /\ \A i \in 1..m : a[i] = b[i]
      BY <2>1, <3>1
    <3> HIDE DEF a, b
    <3> DEFINE c == Append(a, t[m + 1])
    <3>3. c \in Seq(Seq(A)) /\ Len(c) = m + 1 /\ c[m + 1] = t[m + 1] /\ \A i \in 1..m : c[i] = a[i]
      BY <2>1, <3>2, AppendProperties
    <3> HIDE DEF c
    <3>4. \A i \in 1..(m + 1) : c[i] = b[i]
      <4> TAKE i \in 1..(m + 1)
      <4>1. i = m + 1 \/ i \in 1..m
        OBVIOUS
      <4> QED BY <3>2, <3>3, <4>1
    <3>5. b = c
      BY <3>2, <3>3, <3>4, SeqEqual
    <3> QED BY <3>2, <3>5 DEF a, b, c
  <2> DEFINE a == front(m)
             x == t[m + 1]
  <2>3. a \in Seq(Seq(A)) /\ x \in Seq(A)
    BY <2>1, <2>2
  <2>4. s \o Append(a, x) = Append(s \o a, x)
    BY <2>3
  <2>5. FlattenSeq(Append(a, x)) = FlattenSeq(a) \o x /\ FlattenSeq(a) \in Seq(A)
    BY <2>3, FlattenAppended, FlattenType
  <2>6. s \o a \in Seq(Seq(A))
    BY <2>3
  <2>7. FlattenSeq(Append(s \o a, x)) = FlattenSeq(s \o a) \o x
    BY <2>3, <2>6, FlattenAppended
  <2>8. FlattenSeq(s \o a) = FlattenSeq(s) \o FlattenSeq(a)
    BY <1>2
  <2>9. (FlattenSeq(s) \o FlattenSeq(a)) \o x = FlattenSeq(s) \o (FlattenSeq(a) \o x)
    <3>1. \A p, q, r \in Seq(A) : (p \o q) \o r = p \o (q \o r)
      BY ConcatAssociative, SMTT(60)
    <3> QED BY <1>0, <2>3, <2>5, <3>1
  <2>10. FlattenSeq(s \o front(m + 1)) = FlattenSeq(s) \o FlattenSeq(front(m + 1))
    BY <2>2, <2>4, <2>5, <2>7, <2>8, <2>9
  <2>11. m + 1 \in 0..Len(t)
    BY <2>1
  <2> QED BY <2>10, <2>11
<1> HIDE DEF S
<1>3. Len(t) \in S
  <2>1. \A k \in 0..Len(t) : k \in S
    BY <1>0, <1>1, <1>2, InductionUpTo
  <2> QED BY <1>0, <2>1
<1>4. front(Len(t)) = t
  BY SubSeqFull
<1> QED BY <1>3, <1>4 DEF S

-----------------------------------------------------------------------------
(* MapThenSumSet *)

AnyOf(s) == CHOOSE x \in s : TRUE

\* The sums over all subsets of U, the way MapThenSumSet puts them together.
Sums(it, w, U) ==
    it = [s \in SUBSET U |-> IF s = {} THEN 0 ELSE w[AnyOf(s)] + it[s \ {AnyOf(s)}]]

\* What is shown of them.
SameSums(it, other, V) == \A s \in SUBSET V : other[s] = it[s]
SumsAdd(it, w, U) == \A s \in SUBSET U : \A i \in s : it[s] = w[i] + it[s \ {i}]
SumsRise(it, U) == \A t \in SUBSET U : \A s \in SUBSET t : it[s] <= it[t]

LEMMA AnyIn ==
    ASSUME NEW s, s # {}
    PROVE  AnyOf(s) \in s
  BY DEF AnyOf

\* Subsets of a finite set, and what is left of one without a member.
LEMMA Lessened ==
    ASSUME NEW U, IsFiniteSet(U), NEW s \in SUBSET U
    PROVE  /\ IsFiniteSet(s) /\ Cardinality(s) \in 0..Cardinality(U) /\ Cardinality(U) \in Nat
           /\ s = {} <=> Cardinality(s) = 0
           /\ \A x \in s : s \ {x} \in SUBSET U /\ Cardinality(s \ {x}) = Cardinality(s) - 1
<1>1. IsFiniteSet(s) /\ Cardinality(s) <= Cardinality(U)
  BY FS_Subset
<1>2. Cardinality(s) \in Nat /\ Cardinality(U) \in Nat
  BY <1>1, FS_CardinalityType
<1>3. s = {} <=> Cardinality(s) = 0
  BY <1>1, FS_EmptySet
<1>4. \A x \in s : Cardinality(s \ {x}) = Cardinality(s) - 1
  BY <1>1, FS_RemoveElement
<1> QED BY <1>1, <1>2, <1>3, <1>4

LEMMA SumsExist ==
    ASSUME NEW U, IsFiniteSet(U), NEW w \in [U -> Nat]
    PROVE  \E it \in [SUBSET U -> Nat] : Sums(it, w, U)
<1> DEFINE N == Cardinality(U)
           Below(n) == {s \in SUBSET U : Cardinality(s) <= n}
           Step(it, s) == IF s = {} THEN 0 ELSE w[AnyOf(s)] + it[s \ {AnyOf(s)}]
           S == {n \in 0..N : \E it \in [Below(n) -> Nat] : \A s \in Below(n) : it[s] = Step(it, s)}
<1>0. /\ N \in Nat
      /\ \A s \in SUBSET U : /\ Cardinality(s) \in 0..N /\ (s = {} <=> Cardinality(s) = 0)
                             /\ s # {} => /\ AnyOf(s) \in U
                                          /\ s \ {AnyOf(s)} \in SUBSET U
                                          /\ Cardinality(s \ {AnyOf(s)}) = Cardinality(s) - 1
  BY Lessened, AnyIn
<1>b. N \in Nat /\ \A s \in SUBSET U : Cardinality(s) \in 0..N
  BY Lessened
<1>1. 0 \in S
  <2> DEFINE it == [s \in Below(0) |-> 0]
  <2>1. it \in [Below(0) -> Nat] /\ \A s \in Below(0) : it[s] = Step(it, s)
    BY <1>0
  <2>2. 0 \in 0..N
    BY <1>0
  <2> HIDE DEF it, Below, Step, N
  <2> QED BY <2>1, <2>2
<1>2. ASSUME NEW n \in 0..(N - 1), n \in S
      PROVE  n + 1 \in S
  <2>1. PICK it \in [Below(n) -> Nat] : \A s \in Below(n) : it[s] = Step(it, s)
    BY <1>2
  <2> DEFINE h == [s \in Below(n + 1) |-> IF Cardinality(s) <= n THEN it[s] ELSE Step(it, s)]
  <2>2. \A s \in Below(n + 1) : s # {} => /\ AnyOf(s) \in U /\ s \ {AnyOf(s)} \in Below(n)
    BY <1>0
  <2>3. \A s \in Below(n) : s \in Below(n + 1) /\ h[s] = it[s] /\ it[s] \in Nat
    <3> TAKE s \in Below(n)
    <3>1. s \in Below(n + 1) /\ Cardinality(s) <= n
      <4>1. s \in SUBSET U /\ Cardinality(s) <= n
        OBVIOUS
      <4> HIDE DEF N
      <4>2. Cardinality(s) \in 0..N /\ n \in Nat
        BY <1>b, <4>1
      <4>3. Cardinality(s) <= n + 1
        BY <4>1, <4>2, <1>b
      <4> QED BY <4>1, <4>3
    <3>2. it[s] \in Nat
      BY <2>1
    <3> HIDE DEF Step, Below
    <3> QED BY <3>1, <3>2
  <2>4. \A s \in Below(n + 1) : h[s] = Step(it, s)
    BY <2>1
  <2>5. \A s \in Below(n + 1) : Step(it, s) \in Nat /\ Step(h, s) = Step(it, s)
    <3> HIDE DEF h, Below
    <3> QED BY <2>2, <2>3
  <2>6. h \in [Below(n + 1) -> Nat]
    <3> HIDE DEF Step, Below
    <3>1. \A s \in Below(n + 1) : h[s] \in Nat
      BY <2>4, <2>5
    <3> QED BY <3>1
  <2>7. \A s \in Below(n + 1) : h[s] = Step(h, s)
    BY <2>4, <2>5
  <2>8. n + 1 \in 0..N
    BY <1>0
  <2> HIDE DEF h, Below, Step, N
  <2> QED BY <2>6, <2>7, <2>8
<1>3. N \in S
  <2> HIDE DEF S
  <2>1. \A k \in 0..N : k \in S
    BY <1>0, <1>1, <1>2, InductionUpTo
  <2> QED BY <1>0, <2>1
<1>4. PICK it \in [Below(N) -> Nat] : \A s \in Below(N) : it[s] = Step(it, s)
  BY <1>3
<1>5. Below(N) = SUBSET U
  <2>1. \A s \in SUBSET U : Cardinality(s) <= N
    <3> HIDE DEF N
    <3> QED BY <1>b
  <2> QED BY <2>1, Zenon
<1>6. it \in [SUBSET U -> Nat] /\ \A s \in SUBSET U : it[s] = Step(it, s)
  BY <1>4, <1>5
<1>7. Sums(it, w, U)
  BY <1>6 DEF Sums
<1> QED BY <1>6, <1>7

\* A sum does not depend on the set it was taken in.
LEMMA SumsUnique ==
    ASSUME NEW U, IsFiniteSet(U), NEW V, V \in SUBSET U, NEW w, NEW it, NEW other,
           Sums(it, w, U), Sums(other, w, V)
    PROVE  SameSums(it, other, V)
<1> DEFINE N == Cardinality(U)
           S == {n \in 0..N : \A s \in SUBSET V : Cardinality(s) = n => other[s] = it[s]}
<1>0. /\ N \in Nat
      /\ \A s \in SUBSET V : /\ Cardinality(s) \in 0..N /\ (s = {} <=> Cardinality(s) = 0)
                             /\ s # {} => /\ s \ {AnyOf(s)} \in SUBSET V
                                          /\ Cardinality(s \ {AnyOf(s)}) = Cardinality(s) - 1
  <2>1. \A s \in SUBSET V : s \in SUBSET U
    OBVIOUS
  <2> QED BY <2>1, Lessened, AnyIn
<1>a. \A s \in SUBSET V :
        /\ it[s] = IF s = {} THEN 0 ELSE w[AnyOf(s)] + it[s \ {AnyOf(s)}]
        /\ other[s] = IF s = {} THEN 0 ELSE w[AnyOf(s)] + other[s \ {AnyOf(s)}]
  <2> TAKE s \in SUBSET V
  <2>1. s \in SUBSET U
    OBVIOUS
  <2>2. it[s] = IF s = {} THEN 0 ELSE w[AnyOf(s)] + it[s \ {AnyOf(s)}]
    BY <2>1, Zenon DEF Sums
  <2>3. other[s] = IF s = {} THEN 0 ELSE w[AnyOf(s)] + other[s \ {AnyOf(s)}]
    BY Zenon DEF Sums
  <2> QED BY <2>2, <2>3
<1>1. 0 \in S
  <2>1. \A s \in SUBSET V : Cardinality(s) = 0 => other[s] = it[s]
    BY <1>0, <1>a
  <2>2. 0 \in 0..N
    BY <1>0
  <2> QED BY <2>1, <2>2
<1>2. ASSUME NEW n \in 0..(N - 1), n \in S
      PROVE  n + 1 \in S
  <2>1. \A s \in SUBSET V : Cardinality(s) = n => other[s] = it[s]
    BY <1>2
  <2>2. ASSUME NEW s \in SUBSET V, Cardinality(s) = n + 1
        PROVE  other[s] = it[s]
    <3>1. s # {} /\ s \ {AnyOf(s)} \in SUBSET V /\ Cardinality(s \ {AnyOf(s)}) = n
      BY <1>0, <2>2
    <3> QED BY <1>a, <2>1, <3>1
  <2>3. n + 1 \in 0..N
    BY <1>0
  <2> QED BY <2>2, <2>3
<1>3. \A n \in 0..N : n \in S
  <2> HIDE DEF S, N
  <2> QED BY <1>0, <1>1, <1>2, InductionUpTo
<1>4. ASSUME NEW s \in SUBSET V PROVE other[s] = it[s]
  BY <1>0, <1>3
<1> QED BY <1>4 DEF SameSums

\* AnyOf member may be counted first.
LEMMA SumsSplit ==
    ASSUME NEW U, IsFiniteSet(U), NEW w, w \in [U -> Nat],
           NEW it, it \in [SUBSET U -> Nat], Sums(it, w, U)
    PROVE  SumsAdd(it, w, U)
<1> DEFINE N == Cardinality(U)
           Holds(s) == \A i \in s : it[s] = w[i] + it[s \ {i}]
           S == {n \in 0..N : \A s \in SUBSET U : Cardinality(s) = n => Holds(s)}
<1>0. /\ N \in Nat
      /\ \A s \in SUBSET U : /\ Cardinality(s) \in 0..N /\ (s = {} <=> Cardinality(s) = 0)
                             /\ \A x \in s : /\ s \ {x} \in SUBSET U
                                             /\ Cardinality(s \ {x}) = Cardinality(s) - 1
  BY Lessened
<1>1. 0 \in S
  <2>1. \A s \in SUBSET U : Cardinality(s) = 0 => Holds(s)
    BY <1>0
  <2>2. 0 \in 0..N
    BY <1>0
  <2> HIDE DEF Holds
  <2> QED BY <2>1, <2>2
<1>2. ASSUME NEW n \in 0..(N - 1), n \in S
      PROVE  n + 1 \in S
  <2>1. \A s \in SUBSET U : Cardinality(s) = n => Holds(s)
    BY <1>2
  <2>2. ASSUME NEW s \in SUBSET U, Cardinality(s) = n + 1, NEW i \in s
        PROVE  it[s] = w[i] + it[s \ {i}]
    <3> DEFINE x == AnyOf(s)
    <3>1. x \in s /\ it[s] = w[x] + it[s \ {x}]
      <4>1. s # {}
        OBVIOUS
      <4>2. it[s] = IF s = {} THEN 0 ELSE w[AnyOf(s)] + it[s \ {AnyOf(s)}]
        BY Zenon DEF Sums
      <4> QED BY <4>1, <4>2, AnyIn
    <3> HIDE DEF x
    <3>2. CASE i # x
      <4> DEFINE both == (s \ {x}) \ {i}
      <4>1. /\ s \ {x} \in SUBSET U /\ Cardinality(s \ {x}) = n /\ i \in s \ {x}
            /\ s \ {i} \in SUBSET U /\ Cardinality(s \ {i}) = n /\ x \in s \ {i}
        BY <1>0, <2>2, <3>1, <3>2
      <4>2. it[s \ {x}] = w[i] + it[both]
        BY <2>1, <4>1
      <4>3. it[s \ {i}] = w[x] + it[(s \ {i}) \ {x}]
        BY <2>1, <4>1
      <4>4. (s \ {i}) \ {x} = both /\ both \in SUBSET U
        OBVIOUS
      <4>5. w[i] \in Nat /\ w[x] \in Nat /\ it[both] \in Nat
        BY <3>1, <4>4
      <4> HIDE DEF both
      <4>6. it[s] = w[x] + (w[i] + it[both]) /\ it[s \ {i}] = w[x] + it[both]
        BY <3>1, <4>2, <4>3, <4>4, Zenon
      <4> DEFINE p == it[s]
                 q == it[s \ {i}]
                 r == it[both]
      <4>7. p = w[x] + (w[i] + r) /\ q = w[x] + r /\ r \in Nat
        BY <4>5, <4>6
      <4> HIDE DEF p, q, r
      <4>8. p = w[i] + q
        BY <4>5, <4>7
      <4> QED BY <4>8 DEF p, q
    <3> QED BY <3>1, <3>2
  <2>3. n + 1 \in 0..N
    BY <1>0
  <2> QED BY <2>2, <2>3
<1>3. \A n \in 0..N : n \in S
  <2> HIDE DEF S, N
  <2> QED BY <1>0, <1>1, <1>2, InductionUpTo
<1>4. ASSUME NEW s \in SUBSET U PROVE Holds(s)
  BY <1>0, <1>3
<1> QED BY <1>4 DEF SumsAdd

\* A part has no more than the whole.
LEMMA SumsGrow ==
    ASSUME NEW U, IsFiniteSet(U), NEW w, w \in [U -> Nat],
           NEW it, it \in [SUBSET U -> Nat], Sums(it, w, U)
    PROVE  SumsRise(it, U)
<1> DEFINE N == Cardinality(U)
           Holds(t) == \A s \in SUBSET t : it[s] <= it[t]
           S == {n \in 0..N : \A t \in SUBSET U : Cardinality(t) = n => Holds(t)}
<1>0. /\ N \in Nat
      /\ \A s \in SUBSET U : /\ Cardinality(s) \in 0..N /\ (s = {} <=> Cardinality(s) = 0)
                             /\ \A x \in s : /\ s \ {x} \in SUBSET U
                                             /\ Cardinality(s \ {x}) = Cardinality(s) - 1
  BY Lessened
<1>1. 0 \in S
  <2>1. \A s \in SUBSET U : Cardinality(s) = 0 => Holds(s)
    <3> SUFFICES ASSUME NEW s \in SUBSET U, Cardinality(s) = 0 PROVE Holds(s)
      OBVIOUS
    <3>1. s = {} /\ it[s] \in Nat
      BY <1>0
    <3>2. \A x \in SUBSET s : x = s
      BY <3>1
    <3>3. it[s] <= it[s]
      BY <3>1
    <3> QED BY <3>2, <3>3, Zenon
  <2>2. 0 \in 0..N
    BY <1>0
  <2> HIDE DEF Holds
  <2> QED BY <2>1, <2>2
<1>2. ASSUME NEW n \in 0..(N - 1), n \in S
      PROVE  n + 1 \in S
  <2>1. \A s \in SUBSET U : Cardinality(s) = n => Holds(s)
    BY <1>2
  <2>2. ASSUME NEW t \in SUBSET U, Cardinality(t) = n + 1, NEW s \in SUBSET t
        PROVE  it[s] <= it[t]
    <3>1. CASE s = t
      BY <3>1
    <3>2. CASE s # t
      <4>1. PICK i \in t : i \notin s
        BY <3>2
      <4>2. t \ {i} \in SUBSET U /\ Cardinality(t \ {i}) = n /\ s \in SUBSET (t \ {i})
        BY <1>0, <2>2, <4>1
      <4>3. it[s] <= it[t \ {i}]
        BY <2>1, <4>2
      <4>4. it[t] = w[i] + it[t \ {i}]
        BY SumsSplit DEF SumsAdd
      <4>5. it[s] \in Nat /\ it[t \ {i}] \in Nat /\ w[i] \in Nat
        BY <4>2
      <4> QED BY <4>3, <4>4, <4>5
    <3> QED BY <3>1, <3>2
  <2>3. n + 1 \in 0..N
    BY <1>0
  <2> QED BY <2>2, <2>3
<1>3. \A n \in 0..N : n \in S
  <2> HIDE DEF S, N
  <2> QED BY <1>0, <1>1, <1>2, InductionUpTo
<1>4. ASSUME NEW s \in SUBSET U PROVE Holds(s)
  BY <1>0, <1>3
<1> QED BY <1>4 DEF SumsRise

-----------------------------------------------------------------------------
(* RunRecord: types and bounds *)

CallOutcomes == {"ok", "error", "rejected", "interrupted"}
RunStatuses == {"running", "completed", "stopped", "failed"}
RunReasons ==
    {"", "final_answer_returned", "step_limit_reached", "retry_limit_reached", "interrupted",
     "model_error", "persistence_error", "runtime_error"}

\* A call is under way at the second, tells in the trace only after the third,
\* and the turn is over at the last.
BeforeCall ==
    {"request", "guard", "model", "decoded", "turn", "checked", "act", "open tool", "run tool"}
Untold == {"prepare result", "commit tool", "close tool"}
EndPlaces ==
    {"terminal message", "last state", "checkpoint", "run finished", "report", "done", "dead"}
RunPlaces ==
    {"start", "attempt", "model failed", "finish tool", "commit"} \cup BeforeCall \cup Untold
    \cup EndPlaces

ModelKinds == {"model_requested", "action_decoded", "model_turn", "model_failed"}
ToolKinds == {"tool_started", "tool_executed", "tool_interrupted", "tool_finished"}
Numbers == 0..(MaxCalls + MaxAux)
Entries ==
    [event : ModelKinds \cup ToolKinds \cup {"run_finished", "torn"}, of : Numbers,
     status : {""} \cup CallOutcomes \cup RunStatuses, committed : BOOLEAN]

Runs_ ==
    [at : RunPlaces, stream : BOOLEAN, attempts : Nat, aux : Nat, steps : Nat, malformed : Nat,
     status : RunStatuses, reason : RunReasons, calls : Seq(CallOutcomes), committed : BOOLEAN,
     tool : {""} \cup CallOutcomes, then : {"", "retry"} \cup RunReasons,
     raised : BOOLEAN, blocked : BOOLEAN, errors : Nat, faults : Nat]
TaskFiles ==
    {NoRecordFile}
    \cup [present : {TRUE}, status : RunStatuses, reason : RunReasons, attempts : Nat]
ReportFiles ==
    {NoRecordFile}
    \cup [present : {TRUE}, status : RunStatuses, reason : RunReasons, attempts : Nat,
          calls : Seq(CallOutcomes), complete : BOOLEAN]
Records == [task : TaskFiles, trace : Seq(Entries), report : ReportFiles, raw : SUBSET ResultContents]
PastRuns ==
    [carriedOut : Seq(CallOutcomes), recoverable : SUBSET ResultContents, swallowed : BOOLEAN,
     cut : BOOLEAN]

RunCounts ==
    /\ run.aux <= MaxAux /\ run.aux <= run.attempts /\ run.attempts - run.aux <= MaxCalls
    /\ run.steps <= MaxRunSteps
    /\ run.at \in BeforeCall \cup {"prepare result", "commit tool"} => run.steps < MaxRunSteps
    /\ Len(run.calls) <= run.attempts - run.aux
    /\ run.at \in BeforeCall => Len(run.calls) < run.attempts - run.aux
    /\ run.at \in Untold \cup {"finish tool"} => run.tool \in {"ok", "error", "rejected"}
    /\ run.at \in Untold \cup {"finish tool"} => run.calls # <<>>
    /\ run.at = "model failed" => run.then # ""

RecordTyped == run \in Runs_ /\ record \in Records /\ history \in PastRuns /\ RunCounts

-----------------------------------------------------------------------------
(* RunRecord: what is tells *)

\* The trace tells of every call, but for the last one while its events are
\* to be written or when that was cut off.
RecordTold ==
    LET tells == ToldCalls(record.trace)
        allButLast == run.calls = Append(tells, run.tool)
    IN /\ run.calls = history.carriedOut
       /\ run.at \in Untold => allButLast
       /\ run.at \in EndPlaces => tells = run.calls \/ allButLast
       /\ run.at \notin Untold \cup EndPlaces => tells = run.calls

ReportAsRun ==
    record.report.present =>
        /\ run.at = "done" /\ record.report.status = run.status
        /\ record.report.reason = run.reason /\ record.report.attempts = run.attempts
        /\ record.report.calls = run.calls /\ record.report.complete = (run.errors = 0)

\* What is called recoverable was retained, within the limit.
RecordRetained ==
    /\ history.recoverable \subseteq record.raw
    /\ IsFiniteSet(record.raw) /\ Cardinality(record.raw) <= MaxRetained

\* A turn that is over has a reason.
StoppedForReason ==
    run.at \in (EndPlaces \ {"dead"}) \cup {"commit"} =>
        run.reason \in RunReasons \ {""} /\ run.status = StatusFor(run.reason)

-----------------------------------------------------------------------------
(* RunRecord: the lives in the trace *)

Asks == {"model_requested"}
Decodings == {"action_decoded"}
ModelEnds == {"model_turn", "model_failed"}
Starts == {"tool_started"}
ToolEnds == {"tool_executed", "tool_interrupted"}
Finishes == {"tool_finished"}

\* Where the attempt was asked for, and its answer not yet taken.
AwaitingAnswer == {"guard", "model", "model failed", "decoded"}

\* A streamed attempt that is not in the trace, that was requested, decoded, or
\* has ended.
ModelUnasked(t, n) == Positions(t, ModelKinds, n) = {}
ModelAsked(t, n) ==
    \E r \in DOMAIN t :
        /\ Positions(t, Asks, n) = {r} /\ ~t[r].committed
        /\ Positions(t, Decodings, n) = {}
        /\ Positions(t, ModelEnds, n) = {}
ModelDecoded(t, n) ==
    \E r, d \in DOMAIN t :
        /\ Positions(t, Asks, n) = {r} /\ ~t[r].committed
        /\ Positions(t, Decodings, n) = {d} /\ r < d /\ t[d].committed
        /\ Positions(t, ModelEnds, n) = {}
ModelEnded(t, n) ==
    \E r, e \in DOMAIN t :
        /\ Positions(t, Asks, n) = {r} /\ ~t[r].committed
        /\ Positions(t, ModelEnds, n) = {e} /\ r < e
        /\ \/ Positions(t, Decodings, n) = {} /\ t[e].event = "model_failed"
           \/ \E d \in DOMAIN t :
                  /\ Positions(t, Decodings, n) = {d} /\ r < d /\ d < e
                  /\ t[d].committed /\ t[e].committed

\* A tool call that is not in the trace, that was started, that was executed but
\* not finished, and one the reader accepts.
ToolUnborn(t, n) == Positions(t, ToolKinds, n) = {}
ToolOpen(t, n) ==
    \E s \in DOMAIN t :
        /\ Positions(t, Starts, n) = {s}
        /\ Positions(t, ToolEnds, n) = {}
        /\ Positions(t, Finishes, n) = {}
ToolExecuted(t, n, status) ==
    \E s, e \in DOMAIN t :
        /\ Positions(t, Starts, n) = {s}
        /\ Positions(t, ToolEnds, n) = {e} /\ s < e
        /\ t[e].event = "tool_executed" /\ t[e].status = status /\ status # "interrupted"
        /\ Positions(t, Finishes, n) = {}
ToolClosed(t, n) ==
    \E s, e \in DOMAIN t :
        /\ Positions(t, Starts, n) = {s}
        /\ Positions(t, ToolEnds, n) = {e} /\ s < e
        /\ t[e].event = "tool_interrupted" <=> t[e].status = "interrupted"
        /\ \/ Positions(t, Finishes, n) = {}
           \/ \E f \in DOMAIN t :
                  /\ Positions(t, Finishes, n) = {f} /\ e < f
                  /\ t[e].event = "tool_executed" /\ t[f].status = t[e].status

ModelLives ==
    \A n \in Numbers :
        /\ ~run.stream \/ n > run.attempts => ModelUnasked(record.trace, n)
        /\ run.stream /\ n = run.attempts =>
              /\ run.at = "request" => ModelUnasked(record.trace, n)
              /\ run.at \in AwaitingAnswer => ModelAsked(record.trace, n)
              /\ run.at = "turn" => ModelDecoded(record.trace, n)
              /\ run.at \in {"decoded", "turn"} => run.committed
        /\ n < run.attempts \/ run.at \notin AwaitingAnswer \cup {"turn"} =>
              ModelUnasked(record.trace, n) \/ ModelEnded(record.trace, n)

ToolLives ==
    \A n \in Numbers :
        /\ n = 0 \/ n > Len(run.calls) + 1 => ToolUnborn(record.trace, n)
        /\ n = Len(run.calls) + 1 =>
              IF run.at = "run tool" THEN ToolOpen(record.trace, n) ELSE ToolUnborn(record.trace, n)
        /\ n = Len(run.calls) /\ n # 0 =>
              /\ run.at \in Untold => ToolOpen(record.trace, n)
              /\ run.at = "finish tool" => ToolExecuted(record.trace, n, run.tool)
        /\ n \in 1..Len(run.calls) /\ (n < Len(run.calls) \/ run.at \notin Untold) =>
              ToolClosed(record.trace, n)

NotTorn(t) == \A i \in DOMAIN t : t[i].event # "torn"
RunEnds(t) == {i \in DOMAIN t : t[i].event = "run_finished"}
RunFinishes ==
    IF run.at \in {"report", "done"}
    THEN Len(record.trace) > 0 /\ RunEnds(record.trace) = {Len(record.trace)}
    ELSE RunEnds(record.trace) = {}
TaskTold == run.at \in {"checkpoint", "run finished", "report", "done"} => record.task = TaskState
AllTold == run.at \in EndPlaces => ToldCalls(record.trace) = run.calls

\* As long as nothing was cut off and no write failed, the trace is one the
\* reader accepts but for what is still going on.
Orderly == run.at # "dead" /\ run.errors = 0 /\ ~history.cut /\ ~history.swallowed
Lives == NotTorn(record.trace) /\ RunFinishes /\ ModelLives /\ ToolLives
RecordOrderly == Orderly => Lives /\ TaskTold /\ AllTold

RecordInv ==
    /\ RecordTyped /\ RecordTold /\ ReportAsRun /\ RecordRetained /\ StoppedForReason
    /\ RecordOrderly
-----------------------------------------------------------------------------
(* RunRecord: what the steps are made of *)

\* What most steps leave alone.
Kept(r, s) ==
    /\ s.stream = r.stream /\ s.attempts = r.attempts /\ s.aux = r.aux /\ s.steps = r.steps
    /\ s.calls = r.calls /\ s.tool = r.tool /\ s.errors = r.errors
Settled(r, s) == Kept(r, s) /\ s.reason = r.reason /\ s.status = r.status

LEMMA RunFields ==
    ASSUME NEW r \in Runs_
    PROVE  /\ r.at \in RunPlaces /\ r.stream \in BOOLEAN /\ r.attempts \in Nat /\ r.aux \in Nat
           /\ r.steps \in Nat /\ r.malformed \in Nat /\ r.status \in RunStatuses
           /\ r.reason \in RunReasons /\ r.calls \in Seq(CallOutcomes) /\ Len(r.calls) \in Nat
           /\ r.committed \in BOOLEAN /\ r.tool \in {""} \cup CallOutcomes
           /\ r.then \in {"", "retry"} \cup RunReasons /\ r.raised \in BOOLEAN
           /\ r.blocked \in BOOLEAN /\ r.errors \in Nat /\ r.faults \in Nat
<1>1. r.calls \in Seq(CallOutcomes)
  BY DEF Runs_
<1>2. Len(r.calls) \in Nat
  BY <1>1
<1> QED BY <1>1, <1>2 DEF Runs_

LEMMA StoppedRun ==
    ASSUME NEW r \in Runs_, NEW reason \in RunReasons \ {""}, NEW raised \in BOOLEAN
    PROVE  /\ Stopped(r, reason, raised) \in Runs_ /\ Kept(r, Stopped(r, reason, raised))
           /\ Stopped(r, reason, raised).at = "terminal message"
           /\ Stopped(r, reason, raised).reason = reason
           /\ Stopped(r, reason, raised).status = StatusFor(reason)
<1>1. StatusFor(reason) \in RunStatuses
  BY DEF StatusFor, RunStatuses
<1>2. "terminal message" \in RunPlaces
  BY DEF RunPlaces, EndPlaces
<1> QED BY <1>1, <1>2 DEF Stopped, Runs_, Kept

LEMMA FaultedRun ==
    ASSUME NEW r \in Runs_
    PROVE  /\ Faulted(r) \in Runs_ /\ Settled(r, Faulted(r))
           /\ Faulted(r).at = r.at /\ Faulted(r).committed = r.committed
<1>1. r.faults \in Nat
  BY DEF Runs_
<1>2. r.faults + 1 \in Nat
  BY <1>1
<1> QED BY <1>2 DEF Faulted, Runs_, Settled, Kept

LEMMA PlacedRun ==
    ASSUME NEW r \in Runs_, NEW p \in RunPlaces
    PROVE  /\ [r EXCEPT !.at = p] \in Runs_ /\ Settled(r, [r EXCEPT !.at = p])
           /\ [r EXCEPT !.at = p].at = p /\ [r EXCEPT !.at = p].committed = r.committed
  BY DEF Runs_, Settled, Kept

LEMMA BlockedRun ==
    ASSUME NEW r \in Runs_, NEW b \in BOOLEAN
    PROVE  /\ [r EXCEPT !.blocked = b] \in Runs_ /\ Settled(r, [r EXCEPT !.blocked = b])
           /\ [r EXCEPT !.blocked = b].at = r.at
  BY DEF Runs_, Settled, Kept

LEMMA CountedRun ==
    ASSUME NEW r \in Runs_, NEW status \in CallOutcomes
    PROVE  /\ Counted(r, status) \in Runs_ /\ Counted(r, status).calls = Append(r.calls, status)
           /\ Counted(r, status).tool = status /\ Counted(r, status).at = r.at
           /\ Counted(r, status).stream = r.stream /\ Counted(r, status).attempts = r.attempts
           /\ Counted(r, status).aux = r.aux /\ Counted(r, status).steps = r.steps
           /\ Counted(r, status).errors = r.errors
<1>1. r.calls \in Seq(CallOutcomes)
  BY DEF Runs_
<1>2. Append(r.calls, status) \in Seq(CallOutcomes)
  BY <1>1
<1> QED BY <1>2 DEF Counted, Runs_

LEMMA LimitTypes ==
    MaxRetained \in Nat /\ MaxRunSteps \in Nat /\ MaxCalls \in Nat /\ MaxAux \in Nat
  BY RunRecordAssumption

Torn == [event |-> "torn", of |-> 0, status |-> "", committed |-> FALSE]

LEMMA EntryType ==
    ASSUME NEW kind \in ModelKinds \cup ToolKinds \cup {"run_finished", "torn"}, NEW n \in Numbers,
           NEW status \in {""} \cup CallOutcomes \cup RunStatuses, NEW committed \in BOOLEAN
    PROVE  [event |-> kind, of |-> n, status |-> status, committed |-> committed] \in Entries
  BY DEF Entries

LEMMA NumbersTaken ==
    ASSUME RecordTyped
    PROVE  /\ 0 \in Numbers /\ run.attempts \in Numbers /\ Len(run.calls) \in Numbers
           /\ run.at \in BeforeCall => Len(run.calls) + 1 \in Numbers
<1>1. run \in Runs_ /\ RunCounts
  BY DEF RecordTyped
<1>2. /\ run.attempts \in Nat /\ run.aux \in Nat /\ Len(run.calls) \in Nat
      /\ MaxCalls \in Nat /\ MaxAux \in Nat
  BY <1>1, RunFields, LimitTypes
<1>3. /\ run.aux <= MaxAux /\ run.attempts - run.aux <= MaxCalls
      /\ Len(run.calls) <= run.attempts - run.aux
      /\ run.at \in BeforeCall => Len(run.calls) < run.attempts - run.aux
  BY <1>1 DEF RunCounts
<1> QED BY <1>2, <1>3 DEF Numbers

\* The line of the trace a place writes is none or one entry.
LEMMA LineType ==
    ASSUME RecordTyped
    PROVE  Line \in Seq(Entries)
<1>1. run \in Runs_
  BY DEF RecordTyped
<1>2. Line = <<>> \/ \E e \in Entries : Line = <<e>>
  <2>1. /\ run.at \in {"request", "decoded", "turn", "model failed"}
           => Line = <<>> \/ \E kind \in ModelKinds, committed \in BOOLEAN :
                 Line = <<[event |-> kind, of |-> run.attempts, status |-> "", committed |-> committed]>>
    BY <1>1, RunFields DEF Line, ModelEvent, ModelKinds
  <2>2. CASE run.at \in {"request", "decoded", "turn", "model failed"}
    BY <2>1, <2>2, NumbersTaken, EntryType
  <2>3. CASE run.at = "open tool"
    <3>1. Len(run.calls) + 1 \in Numbers
      BY <2>3, NumbersTaken DEF BeforeCall
    <3>2. Line = <<[event |-> "tool_started", of |-> Len(run.calls) + 1, status |-> "", committed |-> FALSE]>>
      BY <2>3 DEF Line, ToolEvent
    <3> QED BY <3>1, <3>2, EntryType DEF ToolKinds
  <2>4. CASE run.at \in {"close tool", "finish tool"}
    <3>1. run.tool \in {""} \cup CallOutcomes \cup RunStatuses
      BY <1>1, RunFields
    <3>2. \E kind \in ToolKinds :
             Line = <<[event |-> kind, of |-> Len(run.calls), status |-> run.tool, committed |-> FALSE]>>
      BY <2>4 DEF Line, ToolEvent, ToolKinds
    <3> QED BY <3>1, <3>2, NumbersTaken, EntryType
  <2>5. CASE run.at = "run finished"
    <3>1. run.status \in {""} \cup CallOutcomes \cup RunStatuses
      BY <1>1, RunFields
    <3>2. Line = <<[event |-> "run_finished", of |-> 0, status |-> run.status, committed |-> FALSE]>>
      BY <2>5 DEF Line, ToolEvent
    <3> QED BY <3>1, <3>2, NumbersTaken, EntryType
  <2>6. CASE run.at \notin {"request", "decoded", "turn", "model failed", "open tool", "close tool",
                            "finish tool", "run finished"}
    BY <2>6 DEF Line
  <2> QED BY <2>2, <2>3, <2>4, <2>5, <2>6
<1>3. <<>> \in Seq(Entries) /\ \A e \in Entries : <<e>> \in Seq(Entries)
  OBVIOUS
<1> QED BY <1>2, <1>3

LEMMA TracedType ==
    ASSUME record \in Records, NEW events \in Seq(Entries), Traced(events)
    PROVE  /\ record' \in Records /\ record'.trace = record.trace \o events
           /\ record'.task = record.task /\ record'.report = record.report /\ record'.raw = record.raw
<1>1. record.trace \o events \in Seq(Entries)
  BY DEF Records
<1> QED BY <1>1 DEF Traced, Records

LEMMA TornType == Torn \in Entries /\ <<Torn>> \in Seq(Entries) /\ ToolEvent("torn", 0, "") = <<Torn>>
<1>1. 0 \in Numbers
  BY LimitTypes DEF Numbers
<1>2. Torn \in Entries
  BY <1>1, EntryType DEF Torn
<1>3. <<Torn>> \in Seq(Entries)
  BY <1>2
<1>4. ToolEvent("torn", 0, "") = <<Torn>>
  BY DEF ToolEvent, Torn
<1> QED BY <1>2, <1>3, <1>4

LEMMA LeftType ==
    ASSUME RecordTyped, LeftByAppend
    PROVE  /\ record' \in Records
           /\ \/ record'.trace = record.trace
              \/ Line # <<>> /\ record'.trace = record.trace \o Line
              \/ Line # <<>> /\ record'.trace = record.trace \o <<Torn>>
           /\ record'.task = record.task /\ record'.report = record.report /\ record'.raw = record.raw
<1>1. record \in Records
  BY DEF RecordTyped
<1>2. CASE UNCHANGED record
  BY <1>1, <1>2
<1>3. CASE Line # <<>> /\ Traced(Line)
  BY <1>1, <1>3, LineType, TracedType
<1>4. CASE Line # <<>> /\ Traced(ToolEvent("torn", 0, ""))
  BY <1>1, <1>4, TornType, TracedType
<1> QED BY <1>2, <1>3, <1>4 DEF LeftByAppend

LEMMA TaskStateType ==
    ASSUME run \in Runs_
    PROVE  TaskState \in TaskFiles
  BY RunFields DEF TaskState, TaskFiles
LEMMA PlacesAre ==
    RunPlaces =
        {"start", "attempt", "request", "guard", "model", "model failed", "decoded", "turn", "checked",
         "act", "open tool", "run tool", "prepare result", "commit tool", "close tool", "finish tool",
         "commit", "terminal message", "last state", "checkpoint", "run finished", "report", "done",
         "dead"}
  BY DEF RunPlaces, BeforeCall, Untold, EndPlaces

-----------------------------------------------------------------------------
(* RunRecord: what each step does *)

FilesKept ==
    record'.task = record.task /\ record'.report = record.report /\ record'.raw = record.raw
TypesKept == run' \in Runs_ /\ record' \in Records /\ history' \in PastRuns
HistoryCut ==
    /\ history'.cut /\ history'.carriedOut = history.carriedOut
    /\ history'.recoverable = history.recoverable

\* The files change, the trace does not.
TaskWritten ==
    /\ record'.trace = record.trace /\ record'.report = record.report /\ record'.raw = record.raw

LEMMA TaskWrittenType ==
    ASSUME record \in Records, NEW task \in TaskFiles, record' = [record EXCEPT !.task = task]
    PROVE  record' \in Records /\ TaskWritten /\ record'.task = task
  BY DEF Records, TaskWritten

LEMMA StartRunDoes ==
    ASSUME RecordTyped, StartRun
    PROVE  /\ TypesKept /\ Settled(run, run') /\ run.at = "start" /\ run'.at = "attempt"
           /\ TaskWritten /\ UNCHANGED history
<1>1. /\ run' = [run EXCEPT !.at = "attempt"] /\ record' = [record EXCEPT !.task = TaskState]
      /\ run.at = "start" /\ UNCHANGED history
  BY DEF StartRun, Reaches
<1>2. run \in Runs_ /\ record \in Records /\ history \in PastRuns
  BY DEF RecordTyped
<1>3. record' \in Records /\ TaskWritten
  BY <1>1, <1>2, TaskStateType, TaskWrittenType
<1> QED BY <1>1, <1>2, <1>3, PlacedRun, PlacesAre DEF TypesKept

LEMMA CompactFirstDoes ==
    ASSUME RecordTyped, CompactFirst
    PROVE  /\ TypesKept /\ run.at = "attempt" /\ run.aux < MaxAux /\ run.attempts - run.aux < MaxCalls
           /\ run'.attempts = run.attempts + 1 /\ run'.aux = run.aux + 1
           /\ run'.stream = run.stream /\ run'.steps = run.steps /\ run'.calls = run.calls
           /\ run'.tool = run.tool /\ run'.errors = run.errors
           /\ \/ run'.at = "attempt"
              \/ /\ run'.at = "terminal message" /\ run'.reason = "runtime_error"
                 /\ run'.status = StatusFor("runtime_error")
           /\ TaskWritten /\ UNCHANGED history
<1> DEFINE counted == [run EXCEPT !.attempts = @ + 1, !.aux = @ + 1]
           task == [TaskState EXCEPT !.attempts = counted.attempts]
<1>1. /\ record' = [record EXCEPT !.task = task]
      /\ run' = counted \/ run' = Stopped(counted, "runtime_error", TRUE)
      /\ run.at = "attempt" /\ run.aux < MaxAux /\ run.attempts - run.aux < MaxCalls /\ UNCHANGED history
  BY DEF CompactFirst, MayAttempt
<1>2. run \in Runs_ /\ record \in Records /\ history \in PastRuns
  BY DEF RecordTyped
<1>3. run.attempts \in Nat /\ run.aux \in Nat /\ run.attempts + 1 \in Nat /\ run.aux + 1 \in Nat
  <2>1. run.attempts \in Nat /\ run.aux \in Nat
    BY <1>2, RunFields
  <2> QED BY <2>1
<1>4. /\ counted \in Runs_ /\ counted.attempts = run.attempts + 1 /\ counted.aux = run.aux + 1
      /\ counted.stream = run.stream /\ counted.steps = run.steps /\ counted.calls = run.calls
      /\ counted.tool = run.tool /\ counted.errors = run.errors /\ counted.at = run.at
  BY <1>2, <1>3 DEF Runs_
<1>5. task \in TaskFiles
  BY <1>2, <1>3, <1>4, RunFields DEF TaskState, TaskFiles
<1> HIDE DEF counted, task
<1>6. record' \in Records /\ TaskWritten
  BY <1>1, <1>2, <1>5, TaskWrittenType
<1>7. CASE run' = counted
  BY <1>1, <1>2, <1>4, <1>6, <1>7 DEF TypesKept
<1>8. CASE run' = Stopped(counted, "runtime_error", TRUE)
  <2>1. "runtime_error" \in RunReasons \ {""}
    BY DEF RunReasons
  <2>2. /\ run' \in Runs_ /\ Kept(counted, run') /\ run'.at = "terminal message"
        /\ run'.reason = "runtime_error" /\ run'.status = StatusFor("runtime_error")
    BY <1>4, <1>8, <2>1, StoppedRun
  <2> QED BY <1>1, <1>2, <1>4, <1>6, <2>2 DEF TypesKept, Kept
<1> QED BY <1>1, <1>7, <1>8

\* A run that was stopped, and then perhaps put to its last message or blocked.
LEMMA StoppedAt ==
    ASSUME NEW r \in Runs_, NEW reason \in RunReasons \ {""}, NEW raised \in BOOLEAN,
           run' = [Stopped(r, reason, raised) EXCEPT !.at = "commit"]
    PROVE  /\ run' \in Runs_ /\ Kept(r, run') /\ run'.at = "commit" /\ run'.reason = reason
           /\ run'.status = StatusFor(reason)
<1> DEFINE stopped == Stopped(r, reason, raised)
<1>1. /\ stopped \in Runs_ /\ Kept(r, stopped) /\ stopped.reason = reason
      /\ stopped.status = StatusFor(reason)
  BY StoppedRun
<1>2. run' = [stopped EXCEPT !.at = "commit"] /\ "commit" \in RunPlaces
  BY PlacesAre
<1> HIDE DEF stopped
<1>3. run' \in Runs_ /\ Settled(stopped, run') /\ run'.at = "commit"
  BY <1>1, <1>2 DEF Runs_, Settled, Kept
<1> QED BY <1>1, <1>3 DEF Settled, Kept

LEMMA StoppedBlocked ==
    ASSUME NEW r \in Runs_, NEW reason \in RunReasons \ {""}, NEW raised \in BOOLEAN,
           NEW b \in BOOLEAN, run' = [Stopped(r, reason, raised) EXCEPT !.blocked = b]
    PROVE  /\ run' \in Runs_ /\ Kept(r, run') /\ run'.at = "terminal message"
           /\ run'.reason = reason /\ run'.status = StatusFor(reason)
<1> DEFINE stopped == Stopped(r, reason, raised)
<1>1. /\ stopped \in Runs_ /\ Kept(r, stopped) /\ stopped.reason = reason
      /\ stopped.status = StatusFor(reason) /\ stopped.at = "terminal message"
  BY StoppedRun
<1>2. run' = [stopped EXCEPT !.blocked = b]
  OBVIOUS
<1> HIDE DEF stopped
<1>3. run' \in Runs_ /\ Settled(stopped, run') /\ run'.at = stopped.at
  BY <1>1, <1>2 DEF Runs_, Settled, Kept
<1> QED BY <1>1, <1>3 DEF Settled, Kept

Reasons == RunReasons \ {""}
LEMMA ReasonsAre ==
    /\ {"final_answer_returned", "step_limit_reached", "retry_limit_reached", "interrupted",
        "model_error", "persistence_error", "runtime_error"} = Reasons
    /\ Reasons = RunReasons \ {""}
  BY DEF RunReasons, Reasons

LEMMA EndLoopDoes ==
    ASSUME RecordTyped, EndLoop
    PROVE  /\ TypesKept /\ Kept(run, run') /\ run.at = "attempt" /\ run'.at = "commit"
           /\ run'.reason \in Reasons /\ run'.status = StatusFor(run'.reason)
           /\ UNCHANGED <<record, history>>
<1> DEFINE reason == IF run.steps < MaxRunSteps THEN "retry_limit_reached" ELSE "step_limit_reached"
<1>1. /\ run' = [Stopped(run, reason, FALSE) EXCEPT !.at = "commit"]
      /\ run.at = "attempt" /\ UNCHANGED <<record, history>>
  BY DEF EndLoop
<1>2. reason \in Reasons
  BY ReasonsAre
<1> HIDE DEF reason
<1>3. run \in Runs_ /\ record \in Records /\ history \in PastRuns
  BY DEF RecordTyped
<1>4. run' \in Runs_ /\ Kept(run, run') /\ run'.at = "commit" /\ run'.reason = reason
      /\ run'.status = StatusFor(reason)
  BY <1>1, <1>2, <1>3, StoppedAt, ReasonsAre
<1> QED BY <1>1, <1>2, <1>3, <1>4 DEF TypesKept

LEMMA CountAttemptDoes ==
    ASSUME RecordTyped, CountAttempt
    PROVE  /\ TypesKept /\ run.at = "attempt" /\ run'.at = "request"
           /\ run.steps < MaxRunSteps /\ run.attempts - run.aux < MaxCalls
           /\ run'.attempts = run.attempts + 1 /\ run'.aux = run.aux
           /\ run'.stream = run.stream /\ run'.steps = run.steps /\ run'.calls = run.calls
           /\ run'.tool = run.tool /\ run'.errors = run.errors
           /\ TaskWritten /\ UNCHANGED history
<1> DEFINE task == [TaskState EXCEPT !.attempts = run.attempts + 1]
<1>1. /\ record' = [record EXCEPT !.task = task]
      /\ run' = [run EXCEPT !.at = "request", !.attempts = @ + 1, !.committed = FALSE]
      /\ run.at = "attempt" /\ run.steps < MaxRunSteps /\ run.attempts - run.aux < MaxCalls
      /\ UNCHANGED history
  BY DEF CountAttempt, MayAttempt
<1>2. run \in Runs_ /\ record \in Records /\ history \in PastRuns
  BY DEF RecordTyped
<1>3. run.attempts + 1 \in Nat
  <2>1. run.attempts \in Nat
    BY <1>2, RunFields
  <2> QED BY <2>1
<1>4. task \in TaskFiles
  BY <1>2, <1>3, RunFields DEF TaskState, TaskFiles
<1> HIDE DEF task
<1>5. record' \in Records /\ TaskWritten
  BY <1>1, <1>2, <1>4, TaskWrittenType
<1>6. "request" \in RunPlaces
  BY PlacesAre
<1>7. /\ run' \in Runs_ /\ run'.at = "request"
      /\ run'.attempts = run.attempts + 1 /\ run'.aux = run.aux
      /\ run'.stream = run.stream /\ run'.steps = run.steps /\ run'.calls = run.calls
      /\ run'.tool = run.tool /\ run'.errors = run.errors
  BY <1>1, <1>2, <1>3, <1>6 DEF Runs_
<1> QED BY <1>1, <1>2, <1>5, <1>7 DEF TypesKept
\* A step that only moves to another place.
LEMMA ReachesType ==
    ASSUME RecordTyped, NEW p \in RunPlaces, Reaches(p)
    PROVE  run' \in Runs_ /\ Settled(run, run') /\ run'.at = p /\ run'.committed = run.committed
<1>1. run \in Runs_ /\ run' = [run EXCEPT !.at = p]
  BY DEF RecordTyped, Reaches
<1> QED BY <1>1, PlacedRun

LEMMA TypedFields == RecordTyped => run \in Runs_ /\ record \in Records /\ history \in PastRuns
  BY DEF RecordTyped

\* A line is written, nothing else.
LEMMA LineWritten ==
    ASSUME RecordTyped, Traced(Line)
    PROVE  record' \in Records /\ record'.trace = record.trace \o Line /\ FilesKept
  BY LineType, TracedType, TypedFields DEF FilesKept

LEMMA TraceRequestDoes ==
    ASSUME RecordTyped, TraceRequest
    PROVE  /\ TypesKept /\ Settled(run, run') /\ run.at = "request" /\ run'.at = "guard"
           /\ record'.trace = record.trace \o Line /\ FilesKept /\ UNCHANGED history
<1>1. run.at = "request" /\ Traced(Line) /\ Reaches("guard") /\ UNCHANGED history
  BY DEF TraceRequest
<1> QED BY <1>1, ReachesType, LineWritten, PlacesAre, TypedFields DEF TypesKept

LEMMA CheckSessionDoes ==
    ASSUME RecordTyped, CheckSession
    PROVE  /\ TypesKept /\ Kept(run, run') /\ UNCHANGED record
           /\ run.at \in {"guard", "checked"}
           /\ \/ run'.at = (IF run.at = "guard" THEN "model" ELSE "act") /\ UNCHANGED history
              \/ /\ run'.at = "terminal message" /\ run'.reason = "runtime_error"
                 /\ run'.status = StatusFor("runtime_error")
                 /\ history'.carriedOut = history.carriedOut
                 /\ history'.recoverable = history.recoverable
                 /\ history'.swallowed = history.swallowed
                 /\ history'.cut = (history.cut \/ run.at = "guard")
<1> DEFINE p == IF run.at = "guard" THEN "model" ELSE "act"
<1>1. run.at \in {"guard", "checked"} /\ UNCHANGED record
  BY DEF CheckSession
<1>2. CASE Reaches(p) /\ UNCHANGED history
  <2>1. p \in RunPlaces
    BY PlacesAre
  <2>2. run' \in Runs_ /\ Settled(run, run') /\ run'.at = p
    BY <1>2, <2>1, ReachesType
  <2> QED BY <1>1, <1>2, <2>2, TypedFields DEF TypesKept, Settled
<1>3. CASE /\ run' = [Stopped(Faulted(run), "runtime_error", TRUE) EXCEPT !.blocked = TRUE]
           /\ history' = [history EXCEPT !.cut = @ \/ run.at = "guard"]
  <2>1. Faulted(run) \in Runs_ /\ Settled(run, Faulted(run))
    BY FaultedRun, TypedFields
  <2>2. /\ run' \in Runs_ /\ Kept(Faulted(run), run') /\ run'.at = "terminal message"
        /\ run'.reason = "runtime_error" /\ run'.status = StatusFor("runtime_error")
    BY <1>3, <2>1, StoppedBlocked, ReasonsAre
  <2>3. /\ history' \in PastRuns /\ history'.cut = (history.cut \/ run.at = "guard")
        /\ history'.carriedOut = history.carriedOut /\ history'.recoverable = history.recoverable
        /\ history'.swallowed = history.swallowed
    BY <1>3, TypedFields DEF PastRuns
  <2>4. Kept(run, run')
    BY <2>1, <2>2 DEF Settled, Kept
  <2> QED BY <1>1, <2>2, <2>3, <2>4, TypedFields DEF TypesKept
<1> QED BY <1>2, <1>3 DEF CheckSession

LEMMA ModelFailsDoes ==
    ASSUME RecordTyped, ModelFails
    PROVE  /\ TypesKept /\ Settled(run, run') /\ run.at = "model" /\ run'.at = "model failed"
           /\ run'.then # "" /\ UNCHANGED <<record, history>>
<1>1. PICK committed \in {FALSE, run.stream}, then \in {"retry", "model_error", "interrupted"} :
          run' = [(IF then = "interrupted" THEN Faulted(run) ELSE run)
                      EXCEPT !.at = "model failed", !.committed = committed, !.then = then]
  BY DEF ModelFails
<1> DEFINE r == IF then = "interrupted" THEN Faulted(run) ELSE run
<1>2. run \in Runs_ /\ r \in Runs_ /\ Settled(run, r)
  BY FaultedRun, TypedFields DEF Settled, Kept
<1>3. run' = [r EXCEPT !.at = "model failed", !.committed = committed, !.then = then]
  BY <1>1
<1>4. /\ committed \in BOOLEAN /\ then \in {"", "retry"} \cup RunReasons
      /\ "model failed" \in RunPlaces
  BY <1>2, RunFields, PlacesAre DEF RunReasons
<1> HIDE DEF r
<1>5. run' \in Runs_ /\ Settled(r, run') /\ run'.at = "model failed" /\ run'.then # ""
  BY <1>2, <1>3, <1>4 DEF Runs_, Settled, Kept
<1> QED BY <1>2, <1>5, TypedFields DEF ModelFails, TypesKept, Settled, Kept

LEMMA ModelAnswersDoes ==
    ASSUME RecordTyped, ModelAnswers
    PROVE  /\ TypesKept /\ Settled(run, run') /\ run.at = "model"
           /\ \/ run'.at = "model failed" /\ run'.then # ""
              \/ run'.at = "decoded" /\ run'.committed = run.stream
           /\ UNCHANGED <<record, history>>
<1>1. run \in Runs_ /\ run.stream \in BOOLEAN /\ {"model failed", "decoded"} \subseteq RunPlaces
      /\ "runtime_error" \in {"", "retry"} \cup RunReasons
  BY RunFields, TypedFields, PlacesAre DEF RunReasons
<1>2. CASE run' = [run EXCEPT !.at = "decoded", !.committed = run.stream]
  <2>1. run' \in Runs_ /\ Settled(run, run') /\ run'.at = "decoded" /\ run'.committed = run.stream
    BY <1>1, <1>2 DEF Runs_, Settled, Kept
  <2> QED BY <2>1, TypedFields DEF ModelAnswers, TypesKept
<1>3. CASE run' = [run EXCEPT !.at = "model failed", !.committed = run.stream, !.then = "runtime_error"]
  <2>1. run' \in Runs_ /\ Settled(run, run') /\ run'.at = "model failed" /\ run'.then # ""
    BY <1>1, <1>3 DEF Runs_, Settled, Kept
  <2> QED BY <2>1, TypedFields DEF ModelAnswers, TypesKept
<1> QED BY <1>2, <1>3 DEF ModelAnswers

LEMMA TraceAnswerDoes ==
    ASSUME RecordTyped, TraceAnswer
    PROVE  /\ TypesKept /\ Settled(run, run') /\ run.at \in {"decoded", "turn"}
           /\ run'.at = (IF run.at = "decoded" THEN "turn" ELSE "checked")
           /\ run'.committed = run.committed
           /\ record'.trace = record.trace \o Line /\ FilesKept /\ UNCHANGED history
<1> DEFINE p == IF run.at = "decoded" THEN "turn" ELSE "checked"
<1>1. run.at \in {"decoded", "turn"} /\ Traced(Line) /\ Reaches(p) /\ UNCHANGED history
  BY DEF TraceAnswer
<1>2. p \in RunPlaces
  BY PlacesAre
<1>3. run' \in Runs_ /\ Settled(run, run') /\ run'.at = p /\ run'.committed = run.committed
  BY <1>1, <1>2, ReachesType
<1> QED BY <1>1, <1>3, LineWritten, TypedFields DEF TypesKept

LEMMA TraceFailureDoes ==
    ASSUME RecordTyped, TraceFailure
    PROVE  /\ TypesKept /\ Kept(run, run') /\ run.at = "model failed" /\ FilesKept
           /\ \/ run'.at = "attempt"
              \/ /\ run'.at = "terminal message" /\ run'.reason \in Reasons
                 /\ run'.status = StatusFor(run'.reason)
           /\ \/ record'.trace = record.trace \o Line /\ UNCHANGED history
              \/ /\ \/ record'.trace = record.trace
                    \/ Line # <<>> /\ record'.trace = record.trace \o Line
                    \/ Line # <<>> /\ record'.trace = record.trace \o <<Torn>>
                 /\ history'.carriedOut = history.carriedOut
                 /\ history'.recoverable = history.recoverable
                 /\ history'.cut = history.cut
                 /\ history'.swallowed = (history.swallowed \/ run.stream)
<1> DEFINE r == IF run.then = "retry" THEN [run EXCEPT !.at = "attempt"]
                ELSE Stopped(run, run.then, TRUE)
           Over(s) == \/ s.at = "attempt"
                      \/ /\ s.at = "terminal message" /\ s.reason \in Reasons
                         /\ s.status = StatusFor(s.reason)
<1>0. run.at = "model failed" /\ run \in Runs_ /\ run.stream \in BOOLEAN
  BY TypedFields, RunFields DEF TraceFailure
<1>1. r \in Runs_ /\ Kept(run, r) /\ Over(r)
  <2>1. CASE run.then = "retry"
    BY <1>0, <2>1, PlacedRun, PlacesAre DEF Settled
  <2>2. CASE run.then # "retry"
    <3>1. run.then \in Reasons
      BY <1>0, <2>2, RunFields DEF RecordTyped, RunCounts, Reasons
    <3>2. r = Stopped(run, run.then, TRUE)
      BY <2>2
    <3>3. /\ Stopped(run, run.then, TRUE) \in Runs_ /\ Kept(run, Stopped(run, run.then, TRUE))
          /\ Stopped(run, run.then, TRUE).at = "terminal message"
          /\ Stopped(run, run.then, TRUE).reason = run.then
          /\ Stopped(run, run.then, TRUE).status = StatusFor(run.then)
      BY <1>0, <3>1, StoppedRun DEF Reasons
    <3> HIDE DEF r
    <3> QED BY <3>1, <3>2, <3>3
  <2> QED BY <2>1, <2>2
<1>2. CASE Traced(Line) /\ run' = r /\ UNCHANGED history
  BY <1>0, <1>1, <1>2, LineWritten, TypedFields DEF TypesKept
<1>3. CASE /\ run' = Faulted(r) /\ history' = [history EXCEPT !.swallowed = @ \/ run.stream]
           /\ LeftByAppend
  <2> HIDE DEF r
  <2>1. run' \in Runs_ /\ Settled(r, run') /\ run'.at = r.at
    BY <1>1, <1>3, FaultedRun
  <2>2. /\ history' \in PastRuns /\ history'.swallowed = (history.swallowed \/ run.stream)
        /\ history'.carriedOut = history.carriedOut /\ history'.recoverable = history.recoverable
        /\ history'.cut = history.cut
    BY <1>0, <1>3, TypedFields DEF PastRuns
  <2>3. Kept(run, run') /\ Over(run')
    BY <1>1, <2>1 DEF Settled, Kept
  <2> QED BY <1>0, <1>3, <2>1, <2>2, <2>3, LeftType DEF TypesKept, FilesKept
<1> QED BY <1>2, <1>3 DEF TraceFailure

LEMMA ActDoes ==
    ASSUME RecordTyped, Act
    PROVE  /\ TypesKept /\ Kept(run, run') /\ run.at = "act" /\ UNCHANGED <<record, history>>
           /\ \/ run'.at \in {"attempt", "open tool"}
              \/ /\ run'.at = "commit" /\ run'.reason \in Reasons
                 /\ run'.status = StatusFor(run'.reason)
<1>0. run.at = "act" /\ UNCHANGED <<record, history>> /\ run \in Runs_
  BY TypedFields DEF Act
<1>1. CASE run' = [Stopped(run, "final_answer_returned", FALSE) EXCEPT !.at = "commit"]
  BY <1>0, <1>1, StoppedAt, ReasonsAre, TypedFields DEF TypesKept
<1>2. CASE run' = [Stopped(run, "retry_limit_reached", FALSE) EXCEPT !.at = "commit"]
  BY <1>0, <1>2, StoppedAt, ReasonsAre, TypedFields DEF TypesKept
<1>3. CASE run' = [run EXCEPT !.at = "attempt", !.malformed = @ + 1]
  <2>1. run.malformed \in Nat
    BY <1>0, RunFields
  <2>2. run.malformed + 1 \in Nat
    BY <2>1
  <2>3. run' \in Runs_ /\ Kept(run, run') /\ run'.at = "attempt"
    BY <1>0, <1>3, <2>2, PlacesAre DEF Runs_, Kept
  <2> QED BY <1>0, <2>3, TypedFields DEF TypesKept
<1>4. CASE Reaches("open tool")
  BY <1>0, <1>4, ReachesType, PlacesAre, TypedFields DEF TypesKept, Settled
<1> QED BY <1>1, <1>2, <1>3, <1>4 DEF Act

LEMMA CommitLastDoes ==
    ASSUME RecordTyped, CommitLast
    PROVE  /\ TypesKept /\ Kept(run, run') /\ run.at = "commit" /\ UNCHANGED <<record, history>>
           /\ run'.at = "terminal message"
           /\ \/ Settled(run, run')
              \/ run'.reason = "persistence_error" /\ run'.status = StatusFor("persistence_error")
<1>0. run.at = "commit" /\ UNCHANGED <<record, history>> /\ run \in Runs_
  BY TypedFields DEF CommitLast
<1>1. CASE Reaches("terminal message")
  BY <1>0, <1>1, ReachesType, PlacesAre, TypedFields DEF TypesKept, Settled
<1>2. ASSUME NEW blocked \in BOOLEAN,
             run' = [Stopped(Faulted(run), "persistence_error", TRUE) EXCEPT !.blocked = blocked]
      PROVE  /\ TypesKept /\ Kept(run, run') /\ run'.at = "terminal message"
             /\ run'.reason = "persistence_error" /\ run'.status = StatusFor("persistence_error")
  <2>1. Faulted(run) \in Runs_ /\ Settled(run, Faulted(run))
    BY <1>0, FaultedRun
  <2>2. /\ run' \in Runs_ /\ Kept(Faulted(run), run') /\ run'.at = "terminal message"
        /\ run'.reason = "persistence_error" /\ run'.status = StatusFor("persistence_error")
    BY <1>2, <2>1, StoppedBlocked, ReasonsAre
  <2>3. Kept(run, run')
    BY <2>1, <2>2 DEF Settled, Kept
  <2> QED BY <1>0, <2>2, <2>3, TypedFields DEF TypesKept
<1> QED BY <1>0, <1>1, <1>2 DEF CommitLast

LEMMA OpenToolDoes ==
    ASSUME RecordTyped, OpenTool
    PROVE  /\ TypesKept /\ Settled(run, run') /\ run.at = "open tool" /\ run'.at = "run tool"
           /\ record'.trace = record.trace \o Line /\ FilesKept /\ UNCHANGED history
<1>1. run.at = "open tool" /\ Traced(Line) /\ Reaches("run tool") /\ UNCHANGED history
  BY DEF OpenTool
<1> QED BY <1>1, ReachesType, LineWritten, PlacesAre, TypedFields DEF TypesKept
\* A call was carried out: it is counted, and remembered in the order.
CallCounted(status) ==
    /\ run'.calls = Append(run.calls, status) /\ run'.tool = status
    /\ run'.stream = run.stream /\ run'.attempts = run.attempts /\ run'.aux = run.aux
    /\ run'.steps = run.steps /\ run'.errors = run.errors
    /\ history'.carriedOut = Append(history.carriedOut, status)
    /\ history'.recoverable = history.recoverable /\ history'.swallowed = history.swallowed

LEMMA RunToolDoes ==
    ASSUME RecordTyped, RunTool
    PROVE  /\ TypesKept /\ run.at = "run tool" /\ run'.at = "prepare result" /\ UNCHANGED record
           /\ \E status \in {"ok", "error", "rejected"} : CallCounted(status)
           /\ history'.cut = history.cut
<1>1. PICK status \in {"ok", "error", "rejected"} :
          /\ run' = [Counted(run, status) EXCEPT !.at = "prepare result"]
          /\ history' = [history EXCEPT !.carriedOut = Append(@, status)]
  BY DEF RunTool
<1>2. run \in Runs_ /\ history \in PastRuns /\ status \in CallOutcomes
  BY TypedFields DEF CallOutcomes
<1> DEFINE r == Counted(run, status)
<1>3. /\ r \in Runs_ /\ r.calls = Append(run.calls, status) /\ r.tool = status
      /\ r.stream = run.stream /\ r.attempts = run.attempts /\ r.aux = run.aux
      /\ r.steps = run.steps /\ r.errors = run.errors
  BY <1>2, CountedRun
<1>4. run' = [r EXCEPT !.at = "prepare result"]
  BY <1>1
<1> HIDE DEF r
<1>5. run' \in Runs_ /\ Settled(r, run') /\ run'.at = "prepare result"
  BY <1>3, <1>4, PlacesAre DEF Runs_, Settled, Kept
<1>6. history.carriedOut \in Seq(CallOutcomes)
  BY <1>2 DEF PastRuns
<1>7. Append(history.carriedOut, status) \in Seq(CallOutcomes)
  BY <1>2, <1>6
<1>8. /\ history' \in PastRuns /\ history'.carriedOut = Append(history.carriedOut, status)
      /\ history'.recoverable = history.recoverable /\ history'.swallowed = history.swallowed
      /\ history'.cut = history.cut
  BY <1>1, <1>2, <1>7 DEF PastRuns
<1>9. CallCounted(status)
  BY <1>3, <1>5, <1>8 DEF CallCounted, Settled, Kept
<1> QED BY <1>5, <1>8, <1>9, TypedFields DEF RunTool, TypesKept

Interrupted(n, status) == [event |-> "tool_interrupted", of |-> n, status |-> status, committed |-> FALSE]

LEMMA InterruptToolDoes ==
    ASSUME RecordTyped, InterruptTool
    PROVE  /\ TypesKept /\ FilesKept /\ run.at = "run tool" /\ run'.at = "terminal message"
           /\ run'.reason = "interrupted" /\ run'.status = StatusFor("interrupted")
           /\ \/ \E status \in {"interrupted", "ok"} :
                     /\ CallCounted(status) /\ history'.cut = (history.cut \/ status = "ok")
                     /\ Interrupted(Len(run.calls) + 1, status) \in Entries
                     /\ record'.trace = record.trace \o <<Interrupted(Len(run.calls) + 1, status)>>
              \/ Kept(run, run') /\ HistoryCut /\ record'.trace = record.trace
<1>0. /\ run.at = "run tool" /\ run \in Runs_ /\ history \in PastRuns /\ record \in Records
      /\ "interrupted" \in RunReasons \ {""}
  BY TypedFields, ReasonsAre DEF InterruptTool
<1>1. Faulted(run) \in Runs_ /\ Settled(run, Faulted(run))
  BY <1>0, FaultedRun
<1>2. ASSUME NEW status \in {"interrupted", "ok"},
             run' = Stopped(Counted(Faulted(run), status), "interrupted", TRUE),
             history' = [history EXCEPT !.carriedOut = Append(@, status), !.cut = @ \/ status = "ok"],
             Traced(ToolEvent("tool_interrupted", Len(run.calls) + 1, status))
      PROVE  /\ TypesKept /\ FilesKept /\ run'.at = "terminal message"
             /\ run'.reason = "interrupted" /\ run'.status = StatusFor("interrupted")
             /\ CallCounted(status) /\ history'.cut = (history.cut \/ status = "ok")
             /\ Interrupted(Len(run.calls) + 1, status) \in Entries
             /\ record'.trace = record.trace \o <<Interrupted(Len(run.calls) + 1, status)>>
  <2> DEFINE f == Faulted(run)
             r == Counted(f, status)
  <2>1. status \in CallOutcomes
    BY DEF CallOutcomes
  <2>2. /\ r \in Runs_ /\ r.calls = Append(f.calls, status) /\ r.tool = status
        /\ r.stream = f.stream /\ r.attempts = f.attempts /\ r.aux = f.aux
        /\ r.steps = f.steps /\ r.errors = f.errors
    BY <1>1, <2>1, CountedRun
  <2>3. run' = Stopped(r, "interrupted", TRUE)
    BY <1>2
  <2> HIDE DEF r
  <2>4. /\ run' \in Runs_ /\ Kept(r, run') /\ run'.at = "terminal message"
        /\ run'.reason = "interrupted" /\ run'.status = StatusFor("interrupted")
    BY <1>0, <2>2, <2>3, StoppedRun
  <2>5. history.carriedOut \in Seq(CallOutcomes)
    BY <1>0 DEF PastRuns
  <2>6. Append(history.carriedOut, status) \in Seq(CallOutcomes)
    BY <2>1, <2>5
  <2>7. /\ history' \in PastRuns /\ history'.carriedOut = Append(history.carriedOut, status)
        /\ history'.recoverable = history.recoverable /\ history'.swallowed = history.swallowed
        /\ history'.cut = (history.cut \/ status = "ok")
    BY <1>0, <1>2, <2>6 DEF PastRuns
  <2>8. CallCounted(status)
    BY <1>1, <2>2, <2>4, <2>7 DEF CallCounted, Settled, Kept
  <2>9. Interrupted(Len(run.calls) + 1, status) \in Entries
    <3>1. Len(run.calls) + 1 \in Numbers
      BY <1>0, NumbersTaken DEF BeforeCall
    <3> QED BY <2>1, <3>1, EntryType DEF Interrupted, ToolKinds
  <2>10. <<Interrupted(Len(run.calls) + 1, status)>> \in Seq(Entries)
    BY <2>9
  <2>11. Traced(<<Interrupted(Len(run.calls) + 1, status)>>)
    BY <1>2 DEF ToolEvent, Interrupted
  <2>12. /\ record' \in Records /\ FilesKept
         /\ record'.trace = record.trace \o <<Interrupted(Len(run.calls) + 1, status)>>
    BY <1>0, <2>10, <2>11, TracedType DEF FilesKept
  <2> QED BY <2>4, <2>7, <2>8, <2>9, <2>12 DEF TypesKept
<1>3. CASE /\ run' = Stopped(Faulted(run), "interrupted", TRUE)
           /\ history' = [history EXCEPT !.cut = TRUE]
           /\ UNCHANGED record
  <2>1. /\ run' \in Runs_ /\ Kept(Faulted(run), run') /\ run'.at = "terminal message"
        /\ run'.reason = "interrupted" /\ run'.status = StatusFor("interrupted")
    BY <1>0, <1>1, <1>3, StoppedRun
  <2>2. Kept(run, run')
    BY <1>1, <2>1 DEF Settled, Kept
  <2>3. history' \in PastRuns /\ HistoryCut
    BY <1>0, <1>3 DEF PastRuns, HistoryCut
  <2> QED BY <1>0, <1>3, <2>1, <2>2, <2>3 DEF TypesKept, FilesKept
<1> QED BY <1>0, <1>2, <1>3 DEF InterruptTool

LEMMA PrepareResultDoes ==
    ASSUME RecordTyped, PrepareResult
    PROVE  /\ TypesKept /\ Settled(run, run') /\ run.at = "prepare result" /\ run'.at = "commit tool"
           /\ record'.trace = record.trace /\ record'.report = record.report
           /\ record'.task = record.task
           /\ history'.carriedOut = history.carriedOut /\ history'.cut = history.cut
           /\ history'.swallowed = history.swallowed
           /\ \/ record'.raw = record.raw /\ history'.recoverable = history.recoverable
              \/ \E content \in ResultContents :
                     /\ MayRetain(content) /\ record'.raw = record.raw \cup {content}
                     /\ history'.recoverable = history.recoverable \cup {content}
<1>0. run.at = "prepare result" /\ run \in Runs_ /\ record \in Records /\ history \in PastRuns
  BY TypedFields DEF PrepareResult
<1>1. ASSUME Reaches("commit tool")
      PROVE  run' \in Runs_ /\ Settled(run, run') /\ run'.at = "commit tool"
  BY <1>1, ReachesType, PlacesAre
<1>2. CASE Reaches("commit tool") /\ UNCHANGED <<record, history>>
  BY <1>0, <1>1, <1>2 DEF TypesKept
<1>3. CASE run' = [Faulted(run) EXCEPT !.at = "commit tool"] /\ UNCHANGED <<record, history>>
  <2> DEFINE f == Faulted(run)
  <2>1. f \in Runs_ /\ Settled(run, f)
    BY <1>0, FaultedRun
  <2>2. run' = [f EXCEPT !.at = "commit tool"]
    BY <1>3
  <2> HIDE DEF f
  <2>3. run' \in Runs_ /\ Settled(run, run') /\ run'.at = "commit tool"
    BY <2>1, <2>2, PlacesAre DEF Runs_, Settled, Kept
  <2> QED BY <1>0, <1>3, <2>3 DEF TypesKept
<1>4. ASSUME NEW content \in ResultContents, MayRetain(content),
             record' = [record EXCEPT !.raw = @ \cup {content}],
             history' = [history EXCEPT !.recoverable = @ \cup {content}],
             Reaches("commit tool")
      PROVE  /\ TypesKept /\ Settled(run, run') /\ run'.at = "commit tool"
             /\ record'.trace = record.trace /\ record'.report = record.report
             /\ record'.task = record.task
             /\ history'.carriedOut = history.carriedOut /\ history'.cut = history.cut
             /\ history'.swallowed = history.swallowed
             /\ record'.raw = record.raw \cup {content}
             /\ history'.recoverable = history.recoverable \cup {content}
  <2>1. /\ record' \in Records /\ record'.raw = record.raw \cup {content}
        /\ record'.trace = record.trace /\ record'.report = record.report
        /\ record'.task = record.task
    BY <1>0, <1>4 DEF Records
  <2>2. /\ history' \in PastRuns /\ history'.recoverable = history.recoverable \cup {content}
        /\ history'.carriedOut = history.carriedOut /\ history'.cut = history.cut
        /\ history'.swallowed = history.swallowed
    BY <1>0, <1>4 DEF PastRuns
  <2> QED BY <1>1, <1>4, <2>1, <2>2 DEF TypesKept
<1> QED BY <1>0, <1>2, <1>3, <1>4 DEF PrepareResult

LEMMA CommitToolDoes ==
    ASSUME RecordTyped, CommitTool
    PROVE  /\ TypesKept /\ run.at = "commit tool" /\ UNCHANGED record
           /\ run'.stream = run.stream /\ run'.attempts = run.attempts /\ run'.aux = run.aux
           /\ run'.calls = run.calls /\ run'.tool = run.tool /\ run'.errors = run.errors
           /\ run'.steps <= run.steps + 1 /\ run'.steps \in Nat
           /\ \/ run'.at = "close tool" /\ UNCHANGED history
              \/ /\ run'.at = "terminal message" /\ run'.reason = "persistence_error"
                 /\ run'.status = StatusFor("persistence_error") /\ HistoryCut
                 /\ run'.steps = run.steps
<1>0. run.at = "commit tool" /\ run \in Runs_ /\ record \in Records /\ history \in PastRuns
  BY TypedFields DEF CommitTool
<1>00. run.steps \in Nat /\ run.steps + 1 \in Nat
  <2>1. run.steps \in Nat
    BY <1>0, RunFields
  <2> QED BY <2>1
<1>1. CASE /\ run' = [run EXCEPT !.at = "close tool", !.steps = IF run.tool = "rejected" THEN @ ELSE @ + 1]
           /\ UNCHANGED history
  <2> DEFINE n == IF run.tool = "rejected" THEN run.steps ELSE run.steps + 1
  <2>1. n \in Nat /\ n <= run.steps + 1
    BY <1>00
  <2>2. run' = [run EXCEPT !.at = "close tool", !.steps = n]
    BY <1>1
  <2> HIDE DEF n
  <2>3. /\ run' \in Runs_ /\ run'.at = "close tool" /\ run'.steps = n
        /\ run'.stream = run.stream /\ run'.attempts = run.attempts /\ run'.aux = run.aux
        /\ run'.calls = run.calls /\ run'.tool = run.tool /\ run'.errors = run.errors
    BY <1>0, <2>1, <2>2, PlacesAre DEF Runs_
  <2> QED BY <1>0, <1>1, <2>1, <2>3 DEF TypesKept, CommitTool
<1>2. ASSUME NEW blocked \in BOOLEAN,
             run' = [Stopped(Faulted(run), "persistence_error", TRUE) EXCEPT !.blocked = blocked],
             history' = [history EXCEPT !.cut = TRUE]
      PROVE  /\ run' \in Runs_ /\ history' \in PastRuns /\ HistoryCut /\ Kept(run, run')
             /\ run'.at = "terminal message" /\ run'.reason = "persistence_error"
             /\ run'.status = StatusFor("persistence_error")
  <2>1. Faulted(run) \in Runs_ /\ Settled(run, Faulted(run))
    BY <1>0, FaultedRun
  <2>2. /\ run' \in Runs_ /\ Kept(Faulted(run), run') /\ run'.at = "terminal message"
        /\ run'.reason = "persistence_error" /\ run'.status = StatusFor("persistence_error")
    BY <1>2, <2>1, StoppedBlocked, ReasonsAre
  <2>3. history' \in PastRuns /\ HistoryCut
    BY <1>0, <1>2 DEF PastRuns, HistoryCut
  <2> QED BY <2>1, <2>2, <2>3 DEF Settled, Kept
<1>3. CASE /\ \E blocked \in BOOLEAN :
                  run' = [Stopped(Faulted(run), "persistence_error", TRUE) EXCEPT !.blocked = blocked]
           /\ history' = [history EXCEPT !.cut = TRUE]
  <2>1. PICK blocked \in BOOLEAN :
            run' = [Stopped(Faulted(run), "persistence_error", TRUE) EXCEPT !.blocked = blocked]
    BY <1>3
  <2>2. history' = [history EXCEPT !.cut = TRUE] /\ UNCHANGED record
    BY <1>3 DEF CommitTool
  <2>3. /\ run' \in Runs_ /\ history' \in PastRuns /\ HistoryCut /\ Kept(run, run')
        /\ run'.at = "terminal message" /\ run'.reason = "persistence_error"
        /\ run'.status = StatusFor("persistence_error")
    BY <1>2, <2>1, <2>2
  <2>4. run'.steps = run.steps
    BY <2>3 DEF Kept
  <2>5. run'.steps <= run.steps + 1
    BY <1>00, <2>4
  <2> QED BY <1>0, <1>00, <2>2, <2>3, <2>4, <2>5 DEF TypesKept, Kept
<1> QED BY <1>1, <1>3, Zenon DEF CommitTool
LEMMA CloseToolDoes ==
    ASSUME RecordTyped, CloseTool
    PROVE  /\ TypesKept /\ Settled(run, run') /\ run.at = "close tool" /\ run'.at = "finish tool"
           /\ record'.trace = record.trace \o Line /\ FilesKept /\ UNCHANGED history
<1>1. run.at = "close tool" /\ Traced(Line) /\ Reaches("finish tool") /\ UNCHANGED history
  BY DEF CloseTool
<1> QED BY <1>1, ReachesType, LineWritten, PlacesAre, TypedFields DEF TypesKept

LEMMA FinishToolDoes ==
    ASSUME RecordTyped, FinishTool
    PROVE  /\ TypesKept /\ Kept(run, run') /\ run.at = "finish tool"
           /\ record'.trace = record.trace \o Line /\ FilesKept /\ UNCHANGED history
           /\ \/ run'.at = "attempt"
              \/ /\ run'.at = "commit" /\ run'.reason \in Reasons
                 /\ run'.status = StatusFor(run'.reason)
<1>0. run.at = "finish tool" /\ UNCHANGED history /\ run \in Runs_ /\ Traced(Line)
  BY TypedFields DEF FinishTool
<1>1. CASE run' = [Stopped(run, "runtime_error", FALSE) EXCEPT !.at = "commit"]
  BY <1>0, <1>1, StoppedAt, ReasonsAre, TypedFields, LineWritten DEF TypesKept
<1>2. CASE run' = [Stopped(run, "retry_limit_reached", FALSE) EXCEPT !.at = "commit"]
  BY <1>0, <1>2, StoppedAt, ReasonsAre, TypedFields, LineWritten DEF TypesKept
<1>3. CASE Reaches("attempt")
  BY <1>0, <1>3, ReachesType, PlacesAre, TypedFields, LineWritten DEF TypesKept, Settled
<1> QED BY <1>1, <1>2, <1>3 DEF FinishTool

LineLeft ==
    \/ record'.trace = record.trace
    \/ Line # <<>> /\ record'.trace = record.trace \o Line
    \/ Line # <<>> /\ record'.trace = record.trace \o <<Torn>>

LEMMA CutType ==
    ASSUME history \in PastRuns, history' = [history EXCEPT !.cut = TRUE]
    PROVE  history' \in PastRuns /\ HistoryCut
  BY DEF PastRuns, HistoryCut

\* The turn is interrupted or ends with an error.
StopsFor(reason) ==
    /\ run' \in Runs_ /\ Kept(run, run') /\ run'.at = "terminal message" /\ run'.reason = reason
    /\ run'.status = StatusFor(reason)

LEMMA StopsFaulted ==
    ASSUME run \in Runs_, NEW reason \in Reasons, run' = Stopped(Faulted(run), reason, TRUE)
    PROVE  StopsFor(reason)
<1> DEFINE f == Faulted(run)
<1>1. f \in Runs_ /\ Settled(run, f)
  BY FaultedRun
<1>2. reason \in RunReasons \ {""} /\ run' = Stopped(f, reason, TRUE)
  BY ReasonsAre
<1> HIDE DEF f
<1> DEFINE g == Stopped(f, reason, TRUE)
<1>3. /\ g \in Runs_ /\ Kept(f, g) /\ g.at = "terminal message"
      /\ g.reason = reason /\ g.status = StatusFor(reason)
  BY <1>1, <1>2, StoppedRun
<1> HIDE DEF g
<1> QED BY <1>1, <1>2, <1>3 DEF StopsFor, Settled, Kept, g

LEMMA WriteFailsDoes ==
    ASSUME RecordTyped, WriteFails
    PROVE  /\ TypesKept /\ Kept(run, run') /\ FilesKept /\ LineLeft /\ HistoryCut
           /\ run.at \in {"start", "request", "decoded", "turn", "open tool", "close tool", "finish tool"}
           /\ \/ run'.at = "model failed" /\ run'.then # "" /\ run.at \in {"decoded", "turn"}
              \/ StopsFor("runtime_error")
<1>0. /\ run.at \in {"start", "request", "decoded", "turn", "open tool", "close tool", "finish tool"}
      /\ history' = [history EXCEPT !.cut = TRUE] /\ LeftByAppend
      /\ run \in Runs_ /\ record \in Records /\ history \in PastRuns
  BY TypedFields DEF WriteFails
<1>1. /\ history' \in PastRuns /\ HistoryCut /\ record' \in Records /\ FilesKept /\ LineLeft
  BY <1>0, CutType, LeftType DEF FilesKept, LineLeft
<1>2. CASE run.at \in {"decoded", "turn"}
  <2> DEFINE f == Faulted(run)
  <2>1. f \in Runs_ /\ Settled(run, f)
    BY <1>0, FaultedRun
  <2>2. run' = [f EXCEPT !.at = "model failed", !.then = "runtime_error"]
    BY <1>2 DEF WriteFails
  <2>3. "runtime_error" \in {"", "retry"} \cup RunReasons
    BY DEF RunReasons
  <2> HIDE DEF f
  <2>4. run' \in Runs_ /\ Kept(run, run') /\ run'.at = "model failed" /\ run'.then # ""
    BY <2>1, <2>2, <2>3, PlacesAre DEF Runs_, Settled, Kept
  <2> QED BY <1>0, <1>1, <1>2, <2>4 DEF TypesKept
<1>3. CASE run.at \notin {"decoded", "turn"}
  <2>1. run' = Stopped(Faulted(run), "runtime_error", TRUE)
    BY <1>3 DEF WriteFails
  <2>2. StopsFor("runtime_error")
    BY <1>0, <2>1, StopsFaulted, ReasonsAre
  <2> QED BY <1>0, <1>1, <2>2 DEF TypesKept, StopsFor
<1> QED BY <1>2, <1>3

LEMMA InterruptBetweenDoes ==
    ASSUME RecordTyped, InterruptBetween
    PROVE  /\ TypesKept /\ Kept(run, run') /\ UNCHANGED record /\ HistoryCut
           /\ run.at \notin EndPlaces /\ StopsFor("interrupted")
<1>0. /\ run.at \notin EndPlaces
      /\ history' = [history EXCEPT !.cut = TRUE] /\ UNCHANGED record
      /\ run' = Stopped(Faulted(run), "interrupted", TRUE)
      /\ run \in Runs_ /\ record \in Records /\ history \in PastRuns
  BY TypedFields DEF InterruptBetween, EndPlaces
<1>1. StopsFor("interrupted")
  BY <1>0, StopsFaulted, ReasonsAre
<1> QED BY <1>0, <1>1, CutType DEF TypesKept, StopsFor

\* What the steps at the end leave alone; a failure is counted.
Ending(r, s) ==
    /\ s.stream = r.stream /\ s.attempts = r.attempts /\ s.aux = r.aux /\ s.steps = r.steps
    /\ s.calls = r.calls /\ s.tool = r.tool /\ s.reason = r.reason /\ s.status = r.status
Counting(r, s) == r.errors \in Nat /\ s.errors \in {r.errors, r.errors + 1}

LEMMA FinalizeDoes ==
    ASSUME RecordTyped, NEW p, NEW q \in RunPlaces, Finalize(p, q)
    PROVE  /\ run' \in Runs_ /\ Ending(run, run') /\ Counting(run, run')
           /\ run.at = p /\ run'.at = q
<1>0. run.at = p /\ run \in Runs_ /\ run.errors \in Nat
  BY TypedFields, RunFields DEF Finalize
<1>1. CASE Reaches(q)
  BY <1>0, <1>1, ReachesType DEF Settled, Kept, Ending, Counting
<1>2. CASE run' = [Faulted(run) EXCEPT !.at = q, !.errors = @ + 1]
  <2> DEFINE f == Faulted(run)
  <2>1. f \in Runs_ /\ Settled(run, f)
    BY <1>0, FaultedRun
  <2>2. f.errors = run.errors /\ f.errors + 1 \in Nat
    BY <1>0, <2>1 DEF Settled, Kept
  <2>3. run' = [f EXCEPT !.at = q, !.errors = @ + 1]
    BY <1>2
  <2> HIDE DEF f
  <2>4. run' \in Runs_ /\ Ending(f, run') /\ run'.at = q /\ run'.errors = f.errors + 1
    BY <2>1, <2>2, <2>3 DEF Runs_, Ending
  <2> QED BY <1>0, <2>1, <2>2, <2>4 DEF Settled, Kept, Ending, Counting
<1> QED BY <1>1, <1>2 DEF Finalize

LEMMA CommitTerminalMessageDoes ==
    ASSUME RecordTyped, CommitTerminalMessage
    PROVE  /\ TypesKept /\ Ending(run, run') /\ Counting(run, run') /\ UNCHANGED <<record, history>>
           /\ run.at = "terminal message" /\ run'.at = "last state"
  BY FinalizeDoes, PlacesAre, TypedFields DEF CommitTerminalMessage, TypesKept

LEMMA MoreErrors ==
    ASSUME Counting(run, run')
    PROVE  run'.errors > run.errors <=> run'.errors # run.errors
<1>1. run.errors \in Nat /\ run'.errors \in {run.errors, run.errors + 1}
  BY DEF Counting
<1> QED BY <1>1

LEMMA WriteLastStateDoes ==
    ASSUME RecordTyped, WriteLastState
    PROVE  /\ TypesKept /\ Ending(run, run') /\ Counting(run, run') /\ UNCHANGED history
           /\ run.at = "last state" /\ run'.at = "checkpoint" /\ TaskWritten
           /\ run'.errors = run.errors => record'.task = TaskState
<1>1. /\ run' \in Runs_ /\ Ending(run, run') /\ Counting(run, run')
      /\ run.at = "last state" /\ run'.at = "checkpoint" /\ UNCHANGED history
  BY FinalizeDoes, PlacesAre DEF WriteLastState
<1>2. CASE run'.errors > run.errors
  <2>1. UNCHANGED record
    BY <1>2 DEF WriteLastState
  <2>2. run'.errors # run.errors
    BY <1>1, <1>2, MoreErrors
  <2> QED BY <1>1, <2>1, <2>2, TypedFields DEF TypesKept, TaskWritten
<1>3. CASE ~(run'.errors > run.errors)
  <2>1. record' = [record EXCEPT !.task = TaskState]
    BY <1>3 DEF WriteLastState
  <2> QED BY <1>1, <2>1, TypedFields, TaskStateType, TaskWrittenType DEF TypesKept
<1> QED BY <1>2, <1>3

LEMMA WriteCheckpointDoes ==
    ASSUME RecordTyped, WriteCheckpoint
    PROVE  /\ TypesKept /\ run.at = "checkpoint" /\ run'.at = "run finished"
           /\ run'.stream = run.stream /\ run'.attempts = run.attempts /\ run'.aux = run.aux
           /\ run'.steps = run.steps /\ run'.calls = run.calls /\ run'.tool = run.tool
           /\ TaskWritten /\ UNCHANGED history
           /\ \/ Settled(run, run') /\ UNCHANGED record
              \/ /\ run'.errors # 0
                 /\ \/ run'.reason = run.reason /\ run'.status = run.status
                    \/ /\ run'.reason = "persistence_error"
                       /\ run'.status = StatusFor("persistence_error")
<1> DEFINE f == Faulted(run)
           failed == [f EXCEPT !.at = "run finished", !.errors = @ + 1]
           tells == [failed EXCEPT !.status = "failed", !.reason = "persistence_error"]
           task == [TaskState EXCEPT !.status = "failed", !.reason = "persistence_error"]
           Same(r) == /\ r.stream = run.stream /\ r.attempts = run.attempts /\ r.aux = run.aux
                      /\ r.steps = run.steps /\ r.calls = run.calls /\ r.tool = run.tool
<1>0. /\ run.at = "checkpoint" /\ run \in Runs_ /\ record \in Records /\ history \in PastRuns
      /\ UNCHANGED history
  BY TypedFields DEF WriteCheckpoint
<1>1. CASE Reaches("run finished") /\ UNCHANGED record
  BY <1>0, <1>1, ReachesType, PlacesAre DEF TypesKept, Settled, Kept, TaskWritten
<1>2. f \in Runs_ /\ Settled(run, f)
  BY <1>0, FaultedRun
<1>3. f.errors \in Nat /\ f.errors + 1 \in Nat /\ f.errors + 1 # 0
  <2>1. f.errors \in Nat
    BY <1>2, RunFields
  <2> QED BY <2>1
<1>4. "failed" \in RunStatuses /\ "persistence_error" \in RunReasons
      /\ StatusFor("persistence_error") = "failed"
  BY ReasonsAre DEF RunStatuses, StatusFor
<1>5. /\ failed \in Runs_ /\ failed.at = "run finished" /\ failed.errors = f.errors + 1
      /\ failed.reason = run.reason /\ failed.status = run.status /\ Same(failed)
  <2> HIDE DEF f
  <2> QED BY <1>2, <1>3, PlacesAre DEF Runs_, Settled, Kept
<1>6. task \in TaskFiles
  BY <1>0, <1>4, RunFields DEF TaskState, TaskFiles
<1>7. CASE run' = failed /\ UNCHANGED record
  <2> HIDE DEF failed, f
  <2> QED BY <1>0, <1>3, <1>5, <1>7 DEF TypesKept, TaskWritten
<1>8. /\ tells \in Runs_ /\ tells.at = "run finished" /\ tells.errors = f.errors + 1
      /\ tells.reason = "persistence_error" /\ tells.status = "failed" /\ Same(tells)
  <2> HIDE DEF failed, f
  <2> QED BY <1>4, <1>5 DEF Runs_
<1>9. CASE run' = tells /\ record' = [record EXCEPT !.task = task]
  <2> HIDE DEF tells, failed, f, task
  <2>1. record' \in Records /\ TaskWritten
    BY <1>0, <1>6, <1>9, TaskWrittenType
  <2> QED BY <1>0, <1>3, <1>4, <1>8, <1>9, <2>1 DEF TypesKept
<1>10. CASE run' = [Faulted(tells) EXCEPT !.errors = @ + 1] /\ UNCHANGED record
  <2> DEFINE g == Faulted(tells)
  <2> HIDE DEF tells, failed, f, task
  <2>1. g \in Runs_ /\ Settled(tells, g) /\ g.at = tells.at
    BY <1>8, FaultedRun
  <2>2. run' = [g EXCEPT !.errors = @ + 1]
    BY <1>10
  <2>3. g.errors + 1 \in Nat /\ g.errors + 1 # 0
    <3>1. g.errors \in Nat
      BY <2>1, RunFields
    <3> QED BY <3>1
  <2> HIDE DEF g
  <2>4. /\ run' \in Runs_ /\ run'.at = g.at /\ run'.errors = g.errors + 1
        /\ run'.reason = g.reason /\ run'.status = g.status /\ Ending(g, run')
    BY <2>1, <2>2, <2>3 DEF Runs_, Ending
  <2> QED BY <1>0, <1>4, <1>8, <1>10, <2>1, <2>3, <2>4 DEF TypesKept, TaskWritten, Settled, Kept, Ending
<1>11. \/ Reaches("run finished") /\ UNCHANGED record
       \/ run' = failed /\ UNCHANGED record
       \/ run' = tells /\ record' = [record EXCEPT !.task = task]
       \/ run' = [Faulted(tells) EXCEPT !.errors = @ + 1] /\ UNCHANGED record
  <2>1. tells.status = "failed" /\ tells.reason = "persistence_error"
    BY <1>8
  <2> QED BY <2>1 DEF WriteCheckpoint
<1> QED BY <1>1, <1>7, <1>9, <1>10, <1>11

LEMMA TraceRunFinishedDoes ==
    ASSUME RecordTyped, TraceRunFinished
    PROVE  /\ TypesKept /\ Ending(run, run') /\ Counting(run, run') /\ FilesKept /\ LineLeft
           /\ run.at = "run finished" /\ run'.at = "report" /\ UNCHANGED history
           /\ run'.errors = run.errors => record'.trace = record.trace \o Line
<1>1. /\ run' \in Runs_ /\ Ending(run, run') /\ Counting(run, run')
      /\ run.at = "run finished" /\ run'.at = "report" /\ UNCHANGED history
  BY FinalizeDoes, PlacesAre DEF TraceRunFinished
<1>2. Line # <<>>
  BY <1>1 DEF Line, ToolEvent
<1>3. CASE run'.errors > run.errors
  <2>1. LeftByAppend
    BY <1>3 DEF TraceRunFinished
  <2>2. run'.errors # run.errors
    BY <1>1, <1>3, MoreErrors
  <2> QED BY <1>1, <2>1, <2>2, LeftType, TypedFields DEF TypesKept, FilesKept, LineLeft
<1>4. CASE ~(run'.errors > run.errors)
  <2>1. Traced(Line)
    BY <1>4 DEF TraceRunFinished
  <2> QED BY <1>1, <1>2, <2>1, LineWritten, TypedFields DEF TypesKept, LineLeft
<1> QED BY <1>3, <1>4

ReportOf ==
    [present |-> TRUE, status |-> run.status, reason |-> run.reason, attempts |-> run.attempts,
     calls |-> run.calls, complete |-> run.errors = 0]

LEMMA WriteReportDoes ==
    ASSUME RecordTyped, WriteReport
    PROVE  /\ TypesKept /\ Ending(run, run') /\ Counting(run, run')
           /\ run.at = "report" /\ run'.at = "done" /\ UNCHANGED history
           /\ record'.task = record.task /\ record'.trace = record.trace /\ record'.raw = record.raw
           /\ \/ record'.report = record.report
              \/ run'.errors = run.errors /\ record'.report = ReportOf
<1>1. /\ run' \in Runs_ /\ Ending(run, run') /\ Counting(run, run')
      /\ run.at = "report" /\ run'.at = "done" /\ UNCHANGED history
  BY FinalizeDoes, PlacesAre DEF WriteReport
<1>2. CASE run'.errors > run.errors
  <2>1. UNCHANGED record
    BY <1>2 DEF WriteReport
  <2> QED BY <1>1, <2>1, TypedFields DEF TypesKept
<1>3. CASE ~(run'.errors > run.errors)
  <2>1. record' = [record EXCEPT !.report = ReportOf]
    BY <1>3 DEF WriteReport, ReportOf
  <2>2. ReportOf \in ReportFiles
    BY RunFields, TypedFields DEF ReportOf, ReportFiles
  <2>3. run'.errors = run.errors
    BY <1>1, <1>3, MoreErrors
  <2>4. /\ record' \in Records /\ record'.report = ReportOf
        /\ record'.task = record.task /\ record'.trace = record.trace /\ record'.raw = record.raw
    BY <2>1, <2>2, TypedFields DEF Records
  <2> QED BY <1>1, <2>3, <2>4, TypedFields DEF TypesKept
<1> QED BY <1>2, <1>3

LEMMA CrashRunDoes ==
    ASSUME RecordTyped, CrashRun
    PROVE  /\ TypesKept /\ Settled(run, run') /\ FilesKept /\ LineLeft
           /\ run.at \notin {"done", "dead"} /\ run'.at = "dead" /\ UNCHANGED history
<1> DEFINE f == Faulted(run)
<1>1. f \in Runs_ /\ Settled(run, f)
  BY FaultedRun, TypedFields
<1>2. /\ run' = [f EXCEPT !.at = "dead"] /\ LeftByAppend /\ UNCHANGED history
      /\ run.at \notin {"done", "dead"}
  BY DEF CrashRun
<1> HIDE DEF f
<1>3. run' \in Runs_ /\ Settled(run, run') /\ run'.at = "dead"
  BY <1>1, <1>2, PlacesAre DEF Runs_, Settled, Kept
<1> QED BY <1>2, <1>3, LeftType, TypedFields DEF TypesKept, FilesKept, LineLeft

-----------------------------------------------------------------------------
(* RunRecord: the counts stay within their bounds *)

\* The counts are left alone, and the place is not one that says more of them.
SameCall(r, s) ==
    /\ s.stream = r.stream /\ s.attempts = r.attempts /\ s.aux = r.aux /\ s.steps = r.steps
    /\ s.calls = r.calls /\ s.tool = r.tool
NoBolder(r, s) ==
    /\ s.at \in BeforeCall => r.at \in BeforeCall
    /\ s.at \in {"prepare result", "commit tool"} => r.at \in {"prepare result", "commit tool"}
    /\ s.at \in Untold \cup {"finish tool"} => r.at \in Untold \cup {"finish tool"}
    /\ s.at = "model failed" => s.then # ""

LEMMA KeptSame ==
    /\ Kept(run, run') => SameCall(run, run')
    /\ Settled(run, run') => SameCall(run, run')
    /\ Ending(run, run') => SameCall(run, run')
  BY DEF Kept, Settled, Ending, SameCall

LEMMA CountsKept ==
    ASSUME RecordTyped, TypesKept, SameCall(run, run'), NoBolder(run, run')
    PROVE  RecordTyped'
<1>1. RunCounts /\ TypesKept
  BY DEF RecordTyped
<1>2. RunCounts'
  BY <1>1 DEF RunCounts, SameCall, NoBolder
<1> QED BY <1>1, <1>2 DEF RecordTyped, TypesKept

LEMMA CountsAre ==
    ASSUME RecordTyped
    PROVE  /\ run.attempts \in Nat /\ run.aux \in Nat /\ run.steps \in Nat /\ Len(run.calls) \in Nat
           /\ MaxAux \in Nat /\ MaxCalls \in Nat /\ MaxRunSteps \in Nat
           /\ run.aux <= MaxAux /\ run.aux <= run.attempts /\ run.attempts - run.aux <= MaxCalls
           /\ run.steps <= MaxRunSteps /\ Len(run.calls) <= run.attempts - run.aux
           /\ run.at \in BeforeCall => Len(run.calls) < run.attempts - run.aux
           /\ run.at \in BeforeCall \cup {"prepare result", "commit tool"} => run.steps < MaxRunSteps
<1>1. run \in Runs_ /\ RunCounts
  BY DEF RecordTyped
<1> QED BY <1>1, RunFields, LimitTypes DEF RunCounts

LEMMA CompactFirstTyped ==
    ASSUME RecordTyped, CompactFirst
    PROVE  RecordTyped'
<1>1. /\ TypesKept /\ run.aux < MaxAux /\ run.attempts - run.aux < MaxCalls
      /\ run'.attempts = run.attempts + 1 /\ run'.aux = run.aux + 1
      /\ run'.steps = run.steps /\ run'.calls = run.calls
      /\ run'.at \in {"attempt", "terminal message"}
  BY CompactFirstDoes
<1>2. /\ run.attempts \in Nat /\ run.aux \in Nat /\ Len(run.calls) \in Nat
      /\ run.aux <= MaxAux /\ run.aux <= run.attempts /\ run.attempts - run.aux <= MaxCalls
      /\ run.steps <= MaxRunSteps /\ Len(run.calls) <= run.attempts - run.aux
      /\ MaxAux \in Nat /\ MaxCalls \in Nat
  BY CountsAre
<1>3. /\ run'.aux <= MaxAux /\ run'.aux <= run'.attempts /\ run'.attempts - run'.aux <= MaxCalls
      /\ Len(run'.calls) <= run'.attempts - run'.aux /\ run'.steps <= MaxRunSteps
  <2> DEFINE a == run.attempts
             b == run.aux
             c == run'.attempts
             d == run'.aux
  <2>0. /\ a \in Nat /\ b \in Nat /\ MaxAux \in Nat /\ c = a + 1 /\ d = b + 1
        /\ b < MaxAux /\ b <= a
    BY <1>1, <1>2
  <2> HIDE DEF a, b, c, d
  <2>3. c - d = a - b /\ d <= MaxAux /\ d <= c
    BY <2>0
  <2>1. run'.attempts - run'.aux = run.attempts - run.aux
    BY <2>3 DEF a, b, c, d
  <2>2. run'.aux <= MaxAux /\ run'.aux <= run'.attempts
    BY <2>3 DEF c, d
  <2> QED BY <1>1, <1>2, <2>1, <2>2
<1>4. RunCounts'
  BY <1>1, <1>3 DEF RunCounts, BeforeCall, Untold
<1> QED BY <1>1, <1>4 DEF RecordTyped, TypesKept

LEMMA CountAttemptTyped ==
    ASSUME RecordTyped, CountAttempt
    PROVE  RecordTyped'
<1>1. /\ TypesKept /\ run.attempts - run.aux < MaxCalls /\ run.steps < MaxRunSteps
      /\ run'.attempts = run.attempts + 1 /\ run'.aux = run.aux
      /\ run'.steps = run.steps /\ run'.calls = run.calls /\ run'.at = "request"
  BY CountAttemptDoes
<1>2. /\ run.attempts \in Nat /\ run.aux \in Nat /\ Len(run.calls) \in Nat
      /\ run.aux <= MaxAux /\ run.aux <= run.attempts /\ run.attempts - run.aux <= MaxCalls
      /\ run.steps <= MaxRunSteps /\ Len(run.calls) <= run.attempts - run.aux
      /\ MaxAux \in Nat /\ MaxCalls \in Nat
  BY CountsAre
<1>3. /\ run'.aux <= MaxAux /\ run'.aux <= run'.attempts /\ run'.attempts - run'.aux <= MaxCalls
      /\ Len(run'.calls) < run'.attempts - run'.aux
      /\ Len(run'.calls) <= run'.attempts - run'.aux
  <2>1. run'.attempts - run'.aux = (run.attempts - run.aux) + 1
    BY <1>1, <1>2
  <2>2. run'.aux <= MaxAux /\ run'.aux <= run'.attempts
    BY <1>1, <1>2
  <2> QED BY <1>1, <1>2, <2>1, <2>2
<1>4. RunCounts'
  BY <1>1, <1>2, <1>3 DEF RunCounts, BeforeCall, Untold
<1> QED BY <1>1, <1>4 DEF RecordTyped, TypesKept

LEMMA OneMoreFits ==
    ASSUME NEW a \in Nat, NEW b \in Nat, NEW n \in Nat, n < a - b
    PROVE  n + 1 <= a - b
  OBVIOUS

\* A call more is counted.
LEMMA CallTyped ==
    ASSUME RecordTyped, TypesKept, run.at = "run tool", NEW status \in CallOutcomes, CallCounted(status),
           \/ run'.at = "prepare result" /\ status \in {"ok", "error", "rejected"}
           \/ run'.at = "terminal message"
    PROVE  RecordTyped' /\ Len(run'.calls) = Len(run.calls) + 1
<1>1. /\ run'.calls = Append(run.calls, status) /\ run'.tool = status
      /\ run'.attempts = run.attempts /\ run'.aux = run.aux /\ run'.steps = run.steps
  BY DEF CallCounted
<1>2. /\ run.attempts \in Nat /\ run.aux \in Nat /\ Len(run.calls) \in Nat
      /\ run.aux <= MaxAux /\ run.aux <= run.attempts /\ run.attempts - run.aux <= MaxCalls
      /\ run.steps < MaxRunSteps /\ run.steps <= MaxRunSteps
      /\ Len(run.calls) < run.attempts - run.aux
  BY CountsAre DEF BeforeCall
<1>3. Len(run'.calls) = Len(run.calls) + 1
  <2>1. run.calls \in Seq(CallOutcomes)
    BY RunFields, TypedFields
  <2>2. \A t \in Seq(CallOutcomes) : Len(Append(t, status)) = Len(t) + 1
    BY AppendProperties
  <2> QED BY <1>1, <2>1, <2>2
<1>4. Len(run'.calls) <= run.attempts - run.aux
  <2>1. /\ run.attempts \in Nat /\ run.aux \in Nat /\ Len(run.calls) \in Nat
        /\ Len(run.calls) < run.attempts - run.aux
    BY <1>2
  <2>2. Len(run.calls) + 1 <= run.attempts - run.aux
    BY <2>1, OneMoreFits
  <2> QED BY <1>3, <2>2, Zenon
<1>6. run'.calls # <<>>
  <2>1. run.calls \in Seq(CallOutcomes)
    BY RunFields, TypedFields
  <2>2. \A t \in Seq(CallOutcomes) : Append(t, status) # <<>>
    BY AppendProperties
  <2> QED BY <1>1, <2>1, <2>2
<1>5. RunCounts'
  BY <1>1, <1>2, <1>4, <1>6 DEF RunCounts, BeforeCall, Untold
<1> QED BY <1>3, <1>5 DEF RecordTyped, TypesKept

LEMMA CommitToolTyped ==
    ASSUME RecordTyped, CommitTool
    PROVE  RecordTyped'
<1>1. /\ TypesKept /\ run.at = "commit tool" /\ run'.at \in {"close tool", "terminal message"}
      /\ run'.attempts = run.attempts /\ run'.aux = run.aux /\ run'.calls = run.calls
      /\ run'.tool = run.tool /\ run'.steps <= run.steps + 1 /\ run'.steps \in Nat
  BY CommitToolDoes
<1>2. run.steps \in Nat /\ MaxRunSteps \in Nat /\ run.steps < MaxRunSteps
  BY <1>1, CountsAre
<1>3. run'.steps <= MaxRunSteps
  <2> DEFINE a == run.steps
             b == run'.steps
  <2>1. a \in Nat /\ b \in Nat /\ MaxRunSteps \in Nat /\ a < MaxRunSteps /\ b <= a + 1
    BY <1>1, <1>2
  <2> HIDE DEF a, b
  <2>2. b <= MaxRunSteps
    BY <2>1
  <2> QED BY <2>2 DEF b
<1>4. RunCounts
  BY DEF RecordTyped
<1>5. RunCounts'
  BY <1>1, <1>3, <1>4 DEF RunCounts, BeforeCall, Untold
<1> QED BY <1>1, <1>5 DEF RecordTyped, TypesKept

LEMMA RecordTypedNext ==
    ASSUME RecordTyped, RecordNext
    PROVE  RecordTyped'
<1>1. CASE StartRun
  <2>1. NoBolder(run, run')
    BY <1>1, StartRunDoes DEF NoBolder, BeforeCall, Untold
  <2> QED BY <1>1, <2>1, StartRunDoes, KeptSame, CountsKept
<1>2. CASE CompactFirst
  BY <1>2, CompactFirstTyped
<1>3. CASE EndLoop
  <2>1. NoBolder(run, run')
    BY <1>3, EndLoopDoes DEF NoBolder, BeforeCall, Untold
  <2> QED BY <1>3, <2>1, EndLoopDoes, KeptSame, CountsKept
<1>4. CASE CountAttempt
  BY <1>4, CountAttemptTyped
<1>5. CASE TraceRequest
  <2>1. NoBolder(run, run')
    BY <1>5, TraceRequestDoes DEF NoBolder, BeforeCall, Untold
  <2> QED BY <1>5, <2>1, TraceRequestDoes, KeptSame, CountsKept
<1>6. CASE CheckSession
  <2>1. NoBolder(run, run')
    BY <1>6, CheckSessionDoes DEF NoBolder, BeforeCall, Untold
  <2> QED BY <1>6, <2>1, CheckSessionDoes, KeptSame, CountsKept
<1>7. CASE ModelFails
  <2>1. NoBolder(run, run')
    BY <1>7, ModelFailsDoes DEF NoBolder, BeforeCall, Untold
  <2> QED BY <1>7, <2>1, ModelFailsDoes, KeptSame, CountsKept
<1>8. CASE ModelAnswers
  <2>1. NoBolder(run, run')
    BY <1>8, ModelAnswersDoes DEF NoBolder, BeforeCall, Untold
  <2> QED BY <1>8, <2>1, ModelAnswersDoes, KeptSame, CountsKept
<1>9. CASE TraceAnswer
  <2>1. NoBolder(run, run')
    BY <1>9, TraceAnswerDoes DEF NoBolder, BeforeCall, Untold
  <2> QED BY <1>9, <2>1, TraceAnswerDoes, KeptSame, CountsKept
<1>10. CASE TraceFailure
  <2>1. NoBolder(run, run')
    BY <1>10, TraceFailureDoes DEF NoBolder, BeforeCall, Untold
  <2> QED BY <1>10, <2>1, TraceFailureDoes, KeptSame, CountsKept
<1>11. CASE Act
  <2>1. NoBolder(run, run')
    BY <1>11, ActDoes DEF NoBolder, BeforeCall, Untold
  <2> QED BY <1>11, <2>1, ActDoes, KeptSame, CountsKept
<1>12. CASE CommitLast
  <2>1. NoBolder(run, run')
    BY <1>12, CommitLastDoes DEF NoBolder, BeforeCall, Untold
  <2> QED BY <1>12, <2>1, CommitLastDoes, KeptSame, CountsKept
<1>13. CASE OpenTool
  <2>1. NoBolder(run, run')
    BY <1>13, OpenToolDoes DEF NoBolder, BeforeCall, Untold
  <2> QED BY <1>13, <2>1, OpenToolDoes, KeptSame, CountsKept
<1>14. CASE RunTool
  <2>1. PICK status \in {"ok", "error", "rejected"} : CallCounted(status)
    BY <1>14, RunToolDoes
  <2>2. status \in CallOutcomes
    BY DEF CallOutcomes
  <2> QED BY <1>14, <2>1, <2>2, RunToolDoes, CallTyped
<1>15. CASE InterruptTool
  <2>1. CASE Kept(run, run')
    <3>1. NoBolder(run, run')
      BY <1>15, InterruptToolDoes DEF NoBolder, BeforeCall, Untold
    <3> QED BY <1>15, <2>1, <3>1, InterruptToolDoes, KeptSame, CountsKept
  <2>2. CASE ~Kept(run, run')
    <3>1. PICK status \in {"interrupted", "ok"} : CallCounted(status)
      BY <1>15, <2>2, InterruptToolDoes
    <3>2. status \in CallOutcomes
      BY DEF CallOutcomes
    <3> QED BY <1>15, <3>1, <3>2, InterruptToolDoes, CallTyped
  <2> QED BY <2>1, <2>2
<1>16. CASE PrepareResult
  <2>1. NoBolder(run, run')
    BY <1>16, PrepareResultDoes DEF NoBolder, BeforeCall, Untold
  <2> QED BY <1>16, <2>1, PrepareResultDoes, KeptSame, CountsKept
<1>17. CASE CommitTool
  BY <1>17, CommitToolTyped
<1>18. CASE CloseTool
  <2>1. NoBolder(run, run')
    BY <1>18, CloseToolDoes DEF NoBolder, BeforeCall, Untold
  <2> QED BY <1>18, <2>1, CloseToolDoes, KeptSame, CountsKept
<1>19. CASE FinishTool
  <2>1. NoBolder(run, run')
    BY <1>19, FinishToolDoes DEF NoBolder, BeforeCall, Untold
  <2> QED BY <1>19, <2>1, FinishToolDoes, KeptSame, CountsKept
<1>20. CASE WriteFails
  <2>1. NoBolder(run, run')
    BY <1>20, WriteFailsDoes DEF NoBolder, BeforeCall, Untold, StopsFor
  <2> QED BY <1>20, <2>1, WriteFailsDoes, KeptSame, CountsKept
<1>21. CASE InterruptBetween
  <2>1. NoBolder(run, run')
    BY <1>21, InterruptBetweenDoes DEF NoBolder, BeforeCall, Untold, StopsFor
  <2> QED BY <1>21, <2>1, InterruptBetweenDoes, KeptSame, CountsKept
<1>22. CASE CommitTerminalMessage
  <2>1. NoBolder(run, run')
    BY <1>22, CommitTerminalMessageDoes DEF NoBolder, BeforeCall, Untold
  <2> QED BY <1>22, <2>1, CommitTerminalMessageDoes, KeptSame, CountsKept
<1>23. CASE WriteLastState
  <2>1. NoBolder(run, run')
    BY <1>23, WriteLastStateDoes DEF NoBolder, BeforeCall, Untold
  <2> QED BY <1>23, <2>1, WriteLastStateDoes, KeptSame, CountsKept
<1>24. CASE WriteCheckpoint
  <2>1. NoBolder(run, run') /\ SameCall(run, run')
    BY <1>24, WriteCheckpointDoes DEF NoBolder, BeforeCall, Untold, SameCall
  <2> QED BY <1>24, <2>1, WriteCheckpointDoes, CountsKept
<1>25. CASE TraceRunFinished
  <2>1. NoBolder(run, run')
    BY <1>25, TraceRunFinishedDoes DEF NoBolder, BeforeCall, Untold
  <2> QED BY <1>25, <2>1, TraceRunFinishedDoes, KeptSame, CountsKept
<1>26. CASE WriteReport
  <2>1. NoBolder(run, run')
    BY <1>26, WriteReportDoes DEF NoBolder, BeforeCall, Untold
  <2> QED BY <1>26, <2>1, WriteReportDoes, KeptSame, CountsKept
<1>27. CASE CrashRun
  <2>1. NoBolder(run, run')
    BY <1>27, CrashRunDoes DEF NoBolder, BeforeCall, Untold
  <2> QED BY <1>27, <2>1, CrashRunDoes, KeptSame, CountsKept
<1> QED BY <1>1, <1>2, <1>3, <1>4, <1>5, <1>6, <1>7, <1>8, <1>9, <1>10, <1>11, <1>12, <1>13, <1>14,
           <1>15, <1>16, <1>17, <1>18, <1>19, <1>20, <1>21, <1>22, <1>23, <1>24, <1>25, <1>26, <1>27
           DEF RecordNext

-----------------------------------------------------------------------------
(* RunRecord: the report, the retained results and the reason of the end *)

Given == (EndPlaces \ {"dead"}) \cup {"commit"}
ReportStep ==
    /\ run.at # "done"
    /\ \/ record'.report = record.report
       \/ /\ record'.report = ReportOf /\ run'.at = "done" /\ run'.status = run.status
          /\ run'.reason = run.reason /\ run'.attempts = run.attempts /\ run'.calls = run.calls
          /\ run'.errors = run.errors
RetainStep ==
    \/ record'.raw = record.raw /\ history'.recoverable = history.recoverable
    \/ \E content \in ResultContents :
           /\ MayRetain(content) /\ record'.raw = record.raw \cup {content}
           /\ history'.recoverable = history.recoverable \cup {content}
ReasonStep ==
    \/ run'.at \notin Given
    \/ run'.reason \in Reasons /\ run'.status = StatusFor(run'.reason)
    \/ run.at \in Given /\ run'.reason = run.reason /\ run'.status = run.status

LEMMA StepOfRecord ==
    ASSUME RecordTyped, RecordNext
    PROVE  ReportStep /\ RetainStep /\ ReasonStep
<1> USE ReasonsAre
<1>1. CASE StartRun
  <2>1. ReportStep
    BY <1>1, StartRunDoes DEF ReportStep, EndPlaces, BeforeCall, Untold, Kept, Settled, Ending, TaskWritten, FilesKept, HistoryCut, StopsFor
  <2>2. RetainStep
    BY <1>1, StartRunDoes DEF RetainStep, EndPlaces, BeforeCall, Untold, Kept, Settled, Ending, TaskWritten, FilesKept, HistoryCut, StopsFor, CallCounted
  <2>3. ReasonStep
    BY <1>1, StartRunDoes DEF ReasonStep, Given, EndPlaces, BeforeCall, Untold, Kept, Settled, Ending, TaskWritten, FilesKept, HistoryCut, StopsFor
  <2> QED BY <2>1, <2>2, <2>3
<1>2. CASE CompactFirst
  <2>1. ReportStep
    BY <1>2, CompactFirstDoes DEF ReportStep, EndPlaces, BeforeCall, Untold, Kept, Settled, Ending, TaskWritten, FilesKept, HistoryCut, StopsFor
  <2>2. RetainStep
    BY <1>2, CompactFirstDoes DEF RetainStep, EndPlaces, BeforeCall, Untold, Kept, Settled, Ending, TaskWritten, FilesKept, HistoryCut, StopsFor, CallCounted
  <2>3. ReasonStep
    BY <1>2, CompactFirstDoes DEF ReasonStep, Given, EndPlaces, BeforeCall, Untold, Kept, Settled, Ending, TaskWritten, FilesKept, HistoryCut, StopsFor
  <2> QED BY <2>1, <2>2, <2>3
<1>3. CASE EndLoop
  <2>1. ReportStep
    BY <1>3, EndLoopDoes DEF ReportStep, EndPlaces, BeforeCall, Untold, Kept, Settled, Ending, TaskWritten, FilesKept, HistoryCut, StopsFor
  <2>2. RetainStep
    BY <1>3, EndLoopDoes DEF RetainStep, EndPlaces, BeforeCall, Untold, Kept, Settled, Ending, TaskWritten, FilesKept, HistoryCut, StopsFor, CallCounted
  <2>3. ReasonStep
    BY <1>3, EndLoopDoes DEF ReasonStep, Given, EndPlaces, BeforeCall, Untold, Kept, Settled, Ending, TaskWritten, FilesKept, HistoryCut, StopsFor
  <2> QED BY <2>1, <2>2, <2>3
<1>4. CASE CountAttempt
  <2>1. ReportStep
    BY <1>4, CountAttemptDoes DEF ReportStep, EndPlaces, BeforeCall, Untold, Kept, Settled, Ending, TaskWritten, FilesKept, HistoryCut, StopsFor
  <2>2. RetainStep
    BY <1>4, CountAttemptDoes DEF RetainStep, EndPlaces, BeforeCall, Untold, Kept, Settled, Ending, TaskWritten, FilesKept, HistoryCut, StopsFor, CallCounted
  <2>3. ReasonStep
    BY <1>4, CountAttemptDoes DEF ReasonStep, Given, EndPlaces, BeforeCall, Untold, Kept, Settled, Ending, TaskWritten, FilesKept, HistoryCut, StopsFor
  <2> QED BY <2>1, <2>2, <2>3
<1>5. CASE TraceRequest
  <2>1. ReportStep
    BY <1>5, TraceRequestDoes DEF ReportStep, EndPlaces, BeforeCall, Untold, Kept, Settled, Ending, TaskWritten, FilesKept, HistoryCut, StopsFor
  <2>2. RetainStep
    BY <1>5, TraceRequestDoes DEF RetainStep, EndPlaces, BeforeCall, Untold, Kept, Settled, Ending, TaskWritten, FilesKept, HistoryCut, StopsFor, CallCounted
  <2>3. ReasonStep
    BY <1>5, TraceRequestDoes DEF ReasonStep, Given, EndPlaces, BeforeCall, Untold, Kept, Settled, Ending, TaskWritten, FilesKept, HistoryCut, StopsFor
  <2> QED BY <2>1, <2>2, <2>3
<1>6. CASE CheckSession
  <2>1. ReportStep
    BY <1>6, CheckSessionDoes DEF ReportStep, EndPlaces, BeforeCall, Untold, Kept, Settled, Ending, TaskWritten, FilesKept, HistoryCut, StopsFor
  <2>2. RetainStep
    BY <1>6, CheckSessionDoes DEF RetainStep, EndPlaces, BeforeCall, Untold, Kept, Settled, Ending, TaskWritten, FilesKept, HistoryCut, StopsFor, CallCounted
  <2>3. ReasonStep
    BY <1>6, CheckSessionDoes DEF ReasonStep, Given, EndPlaces, BeforeCall, Untold, Kept, Settled, Ending, TaskWritten, FilesKept, HistoryCut, StopsFor
  <2> QED BY <2>1, <2>2, <2>3
<1>7. CASE ModelFails
  <2>1. ReportStep
    BY <1>7, ModelFailsDoes DEF ReportStep, EndPlaces, BeforeCall, Untold, Kept, Settled, Ending, TaskWritten, FilesKept, HistoryCut, StopsFor
  <2>2. RetainStep
    BY <1>7, ModelFailsDoes DEF RetainStep, EndPlaces, BeforeCall, Untold, Kept, Settled, Ending, TaskWritten, FilesKept, HistoryCut, StopsFor, CallCounted
  <2>3. ReasonStep
    BY <1>7, ModelFailsDoes DEF ReasonStep, Given, EndPlaces, BeforeCall, Untold, Kept, Settled, Ending, TaskWritten, FilesKept, HistoryCut, StopsFor
  <2> QED BY <2>1, <2>2, <2>3
<1>8. CASE ModelAnswers
  <2>1. ReportStep
    BY <1>8, ModelAnswersDoes DEF ReportStep, EndPlaces, BeforeCall, Untold, Kept, Settled, Ending, TaskWritten, FilesKept, HistoryCut, StopsFor
  <2>2. RetainStep
    BY <1>8, ModelAnswersDoes DEF RetainStep, EndPlaces, BeforeCall, Untold, Kept, Settled, Ending, TaskWritten, FilesKept, HistoryCut, StopsFor, CallCounted
  <2>3. ReasonStep
    BY <1>8, ModelAnswersDoes DEF ReasonStep, Given, EndPlaces, BeforeCall, Untold, Kept, Settled, Ending, TaskWritten, FilesKept, HistoryCut, StopsFor
  <2> QED BY <2>1, <2>2, <2>3
<1>9. CASE TraceAnswer
  <2>1. ReportStep
    BY <1>9, TraceAnswerDoes DEF ReportStep, EndPlaces, BeforeCall, Untold, Kept, Settled, Ending, TaskWritten, FilesKept, HistoryCut, StopsFor
  <2>2. RetainStep
    BY <1>9, TraceAnswerDoes DEF RetainStep, EndPlaces, BeforeCall, Untold, Kept, Settled, Ending, TaskWritten, FilesKept, HistoryCut, StopsFor, CallCounted
  <2>3. ReasonStep
    BY <1>9, TraceAnswerDoes DEF ReasonStep, Given, EndPlaces, BeforeCall, Untold, Kept, Settled, Ending, TaskWritten, FilesKept, HistoryCut, StopsFor
  <2> QED BY <2>1, <2>2, <2>3
<1>10. CASE TraceFailure
  <2>1. ReportStep
    BY <1>10, TraceFailureDoes DEF ReportStep, EndPlaces, BeforeCall, Untold, Kept, Settled, Ending, TaskWritten, FilesKept, HistoryCut, StopsFor
  <2>2. RetainStep
    BY <1>10, TraceFailureDoes DEF RetainStep, EndPlaces, BeforeCall, Untold, Kept, Settled, Ending, TaskWritten, FilesKept, HistoryCut, StopsFor, CallCounted
  <2>3. ReasonStep
    BY <1>10, TraceFailureDoes DEF ReasonStep, Given, EndPlaces, BeforeCall, Untold, Kept, Settled, Ending, TaskWritten, FilesKept, HistoryCut, StopsFor
  <2> QED BY <2>1, <2>2, <2>3
<1>11. CASE Act
  <2>1. ReportStep
    BY <1>11, ActDoes DEF ReportStep, EndPlaces, BeforeCall, Untold, Kept, Settled, Ending, TaskWritten, FilesKept, HistoryCut, StopsFor
  <2>2. RetainStep
    BY <1>11, ActDoes DEF RetainStep, EndPlaces, BeforeCall, Untold, Kept, Settled, Ending, TaskWritten, FilesKept, HistoryCut, StopsFor, CallCounted
  <2>3. ReasonStep
    BY <1>11, ActDoes DEF ReasonStep, Given, EndPlaces, BeforeCall, Untold, Kept, Settled, Ending, TaskWritten, FilesKept, HistoryCut, StopsFor
  <2> QED BY <2>1, <2>2, <2>3
<1>12. CASE CommitLast
  <2>1. ReportStep
    BY <1>12, CommitLastDoes DEF ReportStep, EndPlaces, BeforeCall, Untold, Kept, Settled, Ending, TaskWritten, FilesKept, HistoryCut, StopsFor
  <2>2. RetainStep
    BY <1>12, CommitLastDoes DEF RetainStep, EndPlaces, BeforeCall, Untold, Kept, Settled, Ending, TaskWritten, FilesKept, HistoryCut, StopsFor, CallCounted
  <2>3. ReasonStep
    BY <1>12, CommitLastDoes DEF ReasonStep, Given, EndPlaces, BeforeCall, Untold, Kept, Settled, Ending, TaskWritten, FilesKept, HistoryCut, StopsFor
  <2> QED BY <2>1, <2>2, <2>3
<1>13. CASE OpenTool
  <2>1. ReportStep
    BY <1>13, OpenToolDoes DEF ReportStep, EndPlaces, BeforeCall, Untold, Kept, Settled, Ending, TaskWritten, FilesKept, HistoryCut, StopsFor
  <2>2. RetainStep
    BY <1>13, OpenToolDoes DEF RetainStep, EndPlaces, BeforeCall, Untold, Kept, Settled, Ending, TaskWritten, FilesKept, HistoryCut, StopsFor, CallCounted
  <2>3. ReasonStep
    BY <1>13, OpenToolDoes DEF ReasonStep, Given, EndPlaces, BeforeCall, Untold, Kept, Settled, Ending, TaskWritten, FilesKept, HistoryCut, StopsFor
  <2> QED BY <2>1, <2>2, <2>3
<1>14. CASE RunTool
  <2>1. ReportStep
    BY <1>14, RunToolDoes DEF ReportStep, EndPlaces, BeforeCall, Untold, Kept, Settled, Ending, TaskWritten, FilesKept, HistoryCut, StopsFor
  <2>2. RetainStep
    BY <1>14, RunToolDoes DEF RetainStep, EndPlaces, BeforeCall, Untold, Kept, Settled, Ending, TaskWritten, FilesKept, HistoryCut, StopsFor, CallCounted
  <2>3. ReasonStep
    BY <1>14, RunToolDoes DEF ReasonStep, Given, EndPlaces, BeforeCall, Untold, Kept, Settled, Ending, TaskWritten, FilesKept, HistoryCut, StopsFor
  <2> QED BY <2>1, <2>2, <2>3
<1>15. CASE InterruptTool
  <2>1. ReportStep
    BY <1>15, InterruptToolDoes DEF ReportStep, EndPlaces, BeforeCall, Untold, Kept, Settled, Ending, TaskWritten, FilesKept, HistoryCut, StopsFor
  <2>2. RetainStep
    BY <1>15, InterruptToolDoes DEF RetainStep, EndPlaces, BeforeCall, Untold, Kept, Settled, Ending, TaskWritten, FilesKept, HistoryCut, StopsFor, CallCounted
  <2>3. ReasonStep
    BY <1>15, InterruptToolDoes DEF ReasonStep, Given, EndPlaces, BeforeCall, Untold, Kept, Settled, Ending, TaskWritten, FilesKept, HistoryCut, StopsFor
  <2> QED BY <2>1, <2>2, <2>3
<1>16. CASE PrepareResult
  <2>1. ReportStep
    BY <1>16, PrepareResultDoes DEF ReportStep, EndPlaces, BeforeCall, Untold, Kept, Settled, Ending, TaskWritten, FilesKept, HistoryCut, StopsFor
  <2>2. RetainStep
    BY <1>16, PrepareResultDoes DEF RetainStep, EndPlaces, BeforeCall, Untold, Kept, Settled, Ending, TaskWritten, FilesKept, HistoryCut, StopsFor, CallCounted
  <2>3. ReasonStep
    BY <1>16, PrepareResultDoes DEF ReasonStep, Given, EndPlaces, BeforeCall, Untold, Kept, Settled, Ending, TaskWritten, FilesKept, HistoryCut, StopsFor
  <2> QED BY <2>1, <2>2, <2>3
<1>17. CASE CommitTool
  <2>1. ReportStep
    BY <1>17, CommitToolDoes DEF ReportStep, EndPlaces, BeforeCall, Untold, Kept, Settled, Ending, TaskWritten, FilesKept, HistoryCut, StopsFor
  <2>2. RetainStep
    BY <1>17, CommitToolDoes DEF RetainStep, EndPlaces, BeforeCall, Untold, Kept, Settled, Ending, TaskWritten, FilesKept, HistoryCut, StopsFor, CallCounted
  <2>3. ReasonStep
    BY <1>17, CommitToolDoes DEF ReasonStep, Given, EndPlaces, BeforeCall, Untold, Kept, Settled, Ending, TaskWritten, FilesKept, HistoryCut, StopsFor
  <2> QED BY <2>1, <2>2, <2>3
<1>18. CASE CloseTool
  <2>1. ReportStep
    BY <1>18, CloseToolDoes DEF ReportStep, EndPlaces, BeforeCall, Untold, Kept, Settled, Ending, TaskWritten, FilesKept, HistoryCut, StopsFor
  <2>2. RetainStep
    BY <1>18, CloseToolDoes DEF RetainStep, EndPlaces, BeforeCall, Untold, Kept, Settled, Ending, TaskWritten, FilesKept, HistoryCut, StopsFor, CallCounted
  <2>3. ReasonStep
    BY <1>18, CloseToolDoes DEF ReasonStep, Given, EndPlaces, BeforeCall, Untold, Kept, Settled, Ending, TaskWritten, FilesKept, HistoryCut, StopsFor
  <2> QED BY <2>1, <2>2, <2>3
<1>19. CASE FinishTool
  <2>1. ReportStep
    BY <1>19, FinishToolDoes DEF ReportStep, EndPlaces, BeforeCall, Untold, Kept, Settled, Ending, TaskWritten, FilesKept, HistoryCut, StopsFor
  <2>2. RetainStep
    BY <1>19, FinishToolDoes DEF RetainStep, EndPlaces, BeforeCall, Untold, Kept, Settled, Ending, TaskWritten, FilesKept, HistoryCut, StopsFor, CallCounted
  <2>3. ReasonStep
    BY <1>19, FinishToolDoes DEF ReasonStep, Given, EndPlaces, BeforeCall, Untold, Kept, Settled, Ending, TaskWritten, FilesKept, HistoryCut, StopsFor
  <2> QED BY <2>1, <2>2, <2>3
<1>20. CASE WriteFails
  <2>1. ReportStep
    BY <1>20, WriteFailsDoes DEF ReportStep, EndPlaces, BeforeCall, Untold, Kept, Settled, Ending, TaskWritten, FilesKept, HistoryCut, StopsFor
  <2>2. RetainStep
    BY <1>20, WriteFailsDoes DEF RetainStep, EndPlaces, BeforeCall, Untold, Kept, Settled, Ending, TaskWritten, FilesKept, HistoryCut, StopsFor, CallCounted
  <2>3. ReasonStep
    BY <1>20, WriteFailsDoes DEF ReasonStep, Given, EndPlaces, BeforeCall, Untold, Kept, Settled, Ending, TaskWritten, FilesKept, HistoryCut, StopsFor
  <2> QED BY <2>1, <2>2, <2>3
<1>21. CASE InterruptBetween
  <2>1. ReportStep
    BY <1>21, InterruptBetweenDoes DEF ReportStep, EndPlaces, BeforeCall, Untold, Kept, Settled, Ending, TaskWritten, FilesKept, HistoryCut, StopsFor
  <2>2. RetainStep
    BY <1>21, InterruptBetweenDoes DEF RetainStep, EndPlaces, BeforeCall, Untold, Kept, Settled, Ending, TaskWritten, FilesKept, HistoryCut, StopsFor, CallCounted
  <2>3. ReasonStep
    BY <1>21, InterruptBetweenDoes DEF ReasonStep, Given, EndPlaces, BeforeCall, Untold, Kept, Settled, Ending, TaskWritten, FilesKept, HistoryCut, StopsFor
  <2> QED BY <2>1, <2>2, <2>3
<1>22. CASE CommitTerminalMessage
  <2>1. ReportStep
    BY <1>22, CommitTerminalMessageDoes DEF ReportStep, EndPlaces, BeforeCall, Untold, Kept, Settled, Ending, TaskWritten, FilesKept, HistoryCut, StopsFor
  <2>2. RetainStep
    BY <1>22, CommitTerminalMessageDoes DEF RetainStep, EndPlaces, BeforeCall, Untold, Kept, Settled, Ending, TaskWritten, FilesKept, HistoryCut, StopsFor, CallCounted
  <2>3. ReasonStep
    BY <1>22, CommitTerminalMessageDoes DEF ReasonStep, Given, EndPlaces, BeforeCall, Untold, Kept, Settled, Ending, TaskWritten, FilesKept, HistoryCut, StopsFor
  <2> QED BY <2>1, <2>2, <2>3
<1>23. CASE WriteLastState
  <2>1. ReportStep
    BY <1>23, WriteLastStateDoes DEF ReportStep, EndPlaces, BeforeCall, Untold, Kept, Settled, Ending, TaskWritten, FilesKept, HistoryCut, StopsFor
  <2>2. RetainStep
    BY <1>23, WriteLastStateDoes DEF RetainStep, EndPlaces, BeforeCall, Untold, Kept, Settled, Ending, TaskWritten, FilesKept, HistoryCut, StopsFor, CallCounted
  <2>3. ReasonStep
    BY <1>23, WriteLastStateDoes DEF ReasonStep, Given, EndPlaces, BeforeCall, Untold, Kept, Settled, Ending, TaskWritten, FilesKept, HistoryCut, StopsFor
  <2> QED BY <2>1, <2>2, <2>3
<1>24. CASE WriteCheckpoint
  <2>1. ReportStep
    BY <1>24, WriteCheckpointDoes DEF ReportStep, EndPlaces, BeforeCall, Untold, Kept, Settled, Ending, TaskWritten, FilesKept, HistoryCut, StopsFor
  <2>2. RetainStep
    BY <1>24, WriteCheckpointDoes DEF RetainStep, EndPlaces, BeforeCall, Untold, Kept, Settled, Ending, TaskWritten, FilesKept, HistoryCut, StopsFor, CallCounted
  <2>3. ReasonStep
    BY <1>24, WriteCheckpointDoes DEF ReasonStep, Given, EndPlaces, BeforeCall, Untold, Kept, Settled, Ending, TaskWritten, FilesKept, HistoryCut, StopsFor
  <2> QED BY <2>1, <2>2, <2>3
<1>25. CASE TraceRunFinished
  <2>1. ReportStep
    BY <1>25, TraceRunFinishedDoes DEF ReportStep, EndPlaces, BeforeCall, Untold, Kept, Settled, Ending, TaskWritten, FilesKept, HistoryCut, StopsFor
  <2>2. RetainStep
    BY <1>25, TraceRunFinishedDoes DEF RetainStep, EndPlaces, BeforeCall, Untold, Kept, Settled, Ending, TaskWritten, FilesKept, HistoryCut, StopsFor, CallCounted
  <2>3. ReasonStep
    BY <1>25, TraceRunFinishedDoes DEF ReasonStep, Given, EndPlaces, BeforeCall, Untold, Kept, Settled, Ending, TaskWritten, FilesKept, HistoryCut, StopsFor
  <2> QED BY <2>1, <2>2, <2>3
<1>26. CASE WriteReport
  <2>1. ReportStep
    BY <1>26, WriteReportDoes DEF ReportStep, EndPlaces, BeforeCall, Untold, Kept, Settled, Ending, TaskWritten, FilesKept, HistoryCut, StopsFor
  <2>2. RetainStep
    BY <1>26, WriteReportDoes DEF RetainStep, EndPlaces, BeforeCall, Untold, Kept, Settled, Ending, TaskWritten, FilesKept, HistoryCut, StopsFor, CallCounted
  <2>3. ReasonStep
    BY <1>26, WriteReportDoes DEF ReasonStep, Given, EndPlaces, BeforeCall, Untold, Kept, Settled, Ending, TaskWritten, FilesKept, HistoryCut, StopsFor
  <2> QED BY <2>1, <2>2, <2>3
<1>27. CASE CrashRun
  <2>1. ReportStep
    BY <1>27, CrashRunDoes DEF ReportStep, EndPlaces, BeforeCall, Untold, Kept, Settled, Ending, TaskWritten, FilesKept, HistoryCut, StopsFor
  <2>2. RetainStep
    BY <1>27, CrashRunDoes DEF RetainStep, EndPlaces, BeforeCall, Untold, Kept, Settled, Ending, TaskWritten, FilesKept, HistoryCut, StopsFor, CallCounted
  <2>3. ReasonStep
    BY <1>27, CrashRunDoes DEF ReasonStep, Given, EndPlaces, BeforeCall, Untold, Kept, Settled, Ending, TaskWritten, FilesKept, HistoryCut, StopsFor
  <2> QED BY <2>1, <2>2, <2>3
<1> QED BY <1>1, <1>2, <1>3, <1>4, <1>5, <1>6, <1>7, <1>8, <1>9, <1>10, <1>11, <1>12, <1>13, <1>14, <1>15, <1>16, <1>17, <1>18, <1>19, <1>20, <1>21, <1>22, <1>23, <1>24, <1>25, <1>26, <1>27 DEF RecordNext

LEMMA ReportAsRunNext ==
    ASSUME RecordInv, RecordNext
    PROVE  ReportAsRun'
<1>1. ReportStep /\ ReportAsRun
  BY StepOfRecord DEF RecordInv
<1>2. CASE record'.report = record.report
  BY <1>1, <1>2 DEF ReportStep, ReportAsRun
<1>3. CASE record'.report # record.report
  BY <1>1, <1>3 DEF ReportStep, ReportAsRun, ReportOf
<1> QED BY <1>2, <1>3

LEMMA RecordRetainedNext ==
    ASSUME RecordInv, RecordNext
    PROVE  RecordRetained'
<1>1. /\ RetainStep /\ history.recoverable \subseteq record.raw
      /\ IsFiniteSet(record.raw) /\ Cardinality(record.raw) <= MaxRetained
  BY StepOfRecord DEF RecordInv, RecordRetained
<1>2. CASE record'.raw = record.raw /\ history'.recoverable = history.recoverable
  BY <1>1, <1>2 DEF RecordRetained
<1>3. ASSUME NEW content \in ResultContents, MayRetain(content),
             record'.raw = record.raw \cup {content},
             history'.recoverable = history.recoverable \cup {content}
      PROVE  RecordRetained'
  <2>1. IsFiniteSet(record'.raw) /\ Cardinality(record'.raw) <= MaxRetained
    <3> DEFINE raw == record.raw
    <3>1. /\ IsFiniteSet(raw) /\ Cardinality(raw) <= MaxRetained
          /\ record'.raw = raw \cup {content}
          /\ content \in raw \/ Cardinality(raw) < MaxRetained
      BY <1>1, <1>3 DEF MayRetain
    <3> HIDE DEF raw
    <3>2. CASE content \in raw
      <4>1. raw \cup {content} = raw
        BY <3>2
      <4> QED BY <3>1, <4>1
    <3>3. CASE content \notin raw
      <4>1. IsFiniteSet(raw \cup {content}) /\ Cardinality(raw \cup {content}) = Cardinality(raw) + 1
        BY <3>1, <3>3, FS_AddElement
      <4>2. Cardinality(raw) \in Nat /\ MaxRetained \in Nat /\ Cardinality(raw) < MaxRetained
        BY <3>1, <3>3, FS_CardinalityType, LimitTypes
      <4>3. Cardinality(raw) + 1 <= MaxRetained
        BY <4>2
      <4> QED BY <3>1, <4>1, <4>3
    <3> QED BY <3>2, <3>3
  <2>2. history'.recoverable \subseteq record'.raw
    BY <1>1, <1>3
  <2> QED BY <2>1, <2>2 DEF RecordRetained
<1> QED BY <1>1, <1>2, <1>3 DEF RetainStep

LEMMA StoppedForReasonNext ==
    ASSUME RecordInv, RecordNext
    PROVE  StoppedForReason'
<1>1. ReasonStep /\ StoppedForReason
  BY StepOfRecord DEF RecordInv
<1> QED BY <1>1, ReasonsAre DEF ReasonStep, StoppedForReason, Given

-----------------------------------------------------------------------------
(* RunRecord: the calls the trace tells of *)

StatusNames == {""} \cup CallOutcomes \cup RunStatuses
TellsEntry(e) == IF e.event \in {"tool_executed", "tool_interrupted"} THEN <<e.status>> ELSE <<>>

LEMMA ToldCallsType ==
    ASSUME NEW trace, trace \in Seq(Entries)
    PROVE  ToldCalls(trace) \in Seq(StatusNames)
<1> DEFINE s == [i \in DOMAIN trace |-> TellsEntry(trace[i])]
<1>1. \A e \in Entries : TellsEntry(e) \in Seq(StatusNames)
  <2> TAKE e \in Entries
  <2>1. e.status \in StatusNames
    BY DEF Entries, StatusNames
  <2> QED BY <2>1 DEF TellsEntry
<1>2. s \in Seq(Seq(StatusNames)) /\ Len(s) = Len(trace)
  <2>1. \A i \in 1..Len(trace) : TellsEntry(trace[i]) \in Seq(StatusNames)
    BY <1>1
  <2> QED BY <2>1
<1>3. ToldCalls(trace) = FlattenSeq(s)
  BY DEF ToldCalls, TellsEntry
<1> HIDE DEF s
<1> QED BY <1>2, <1>3, FlattenType

LEMMA ToldAppended ==
    ASSUME NEW trace, trace \in Seq(Entries), NEW e, e \in Entries
    PROVE  ToldCalls(trace \o <<e>>) = ToldCalls(trace) \o TellsEntry(e)
<1> DEFINE longer == trace \o <<e>>
           s == [i \in DOMAIN trace |-> TellsEntry(trace[i])]
           l == [i \in DOMAIN longer |-> TellsEntry(longer[i])]
<1>1. \A x \in Entries : TellsEntry(x) \in Seq(StatusNames)
  <2> TAKE x \in Entries
  <2>1. x.status \in StatusNames
    BY DEF Entries, StatusNames
  <2> QED BY <2>1 DEF TellsEntry
<1>2. /\ s \in Seq(Seq(StatusNames)) /\ Len(s) = Len(trace) /\ TellsEntry(e) \in Seq(StatusNames)
      /\ \A i \in 1..Len(trace) : s[i] = TellsEntry(trace[i])
  BY <1>1
<1>3. /\ longer \in Seq(Entries) /\ Len(longer) = Len(trace) + 1 /\ Len(trace) \in Nat
      /\ longer[Len(trace) + 1] = e /\ \A i \in 1..Len(trace) : longer[i] = trace[i]
  OBVIOUS
<1>4. /\ l \in Seq(Seq(StatusNames)) /\ Len(l) = Len(longer)
      /\ \A i \in 1..Len(longer) : l[i] = TellsEntry(longer[i])
  <2> HIDE DEF longer
  <2> QED BY <1>1, <1>3
<1>5. ToldCalls(trace) = FlattenSeq(s) /\ ToldCalls(longer) = FlattenSeq(l)
  BY DEF ToldCalls, TellsEntry
<1> DEFINE a == Append(s, TellsEntry(e))
<1>6. /\ a \in Seq(Seq(StatusNames)) /\ Len(a) = Len(s) + 1 /\ a[Len(s) + 1] = TellsEntry(e)
      /\ \A i \in 1..Len(s) : a[i] = s[i]
  <2> DEFINE x == TellsEntry(e)
             X == Seq(StatusNames)
  <2>1. s \in Seq(X) /\ x \in X
    BY <1>2
  <2> HIDE DEF s, x, X
  <2>2. /\ Append(s, x) \in Seq(X) /\ Len(Append(s, x)) = Len(s) + 1 /\ Append(s, x)[Len(s) + 1] = x
        /\ \A i \in 1..Len(s) : Append(s, x)[i] = s[i]
    BY <2>1, AppendProperties
  <2> QED BY <2>2 DEF x, X
<1> HIDE DEF longer, s, l, a
<1>7. \A i \in 1..Len(l) : l[i] = a[i]
  <2> TAKE i \in 1..Len(l)
  <2>1. i = Len(trace) + 1 \/ i \in 1..Len(trace)
    BY <1>3, <1>4
  <2>2. CASE i = Len(trace) + 1
    <3>1. l[Len(trace) + 1] = TellsEntry(e) /\ a[Len(trace) + 1] = TellsEntry(e)
      BY <1>2, <1>3, <1>4, <1>6
    <3> QED BY <2>2, <3>1
  <2>3. CASE i \in 1..Len(trace)
    BY <1>2, <1>3, <1>4, <1>6, <2>3
  <2> QED BY <2>1, <2>2, <2>3
<1>8. l = a
  <2>1. Len(l) = Len(a)
    BY <1>2, <1>3, <1>4, <1>6
  <2> QED BY <1>4, <1>6, <1>7, <2>1, SeqEqual
<1>9. FlattenSeq(Append(s, TellsEntry(e))) = FlattenSeq(s) \o TellsEntry(e)
  BY <1>2, FlattenAppended
<1> QED BY <1>5, <1>8, <1>9 DEF a, longer

LEMMA LineIs ==
    ASSUME RecordTyped
    PROVE  \/ Line = <<>> /\ run.at # "close tool"
           \/ \E e \in Entries :
                  /\ Line = <<e>>
                  /\ TellsEntry(e) = IF run.at = "close tool" THEN <<run.tool>> ELSE <<>>
<1>1. Line \in Seq(Entries)
  BY LineType
<1>2. ASSUME NEW e, Line = <<e>> PROVE e \in Entries
  <2>1. <<e>> \in Seq(Entries) /\ <<e>>[1] = e /\ 1 \in DOMAIN <<e>>
    BY <1>1, <1>2
  <2> QED BY <2>1
<1>3. CASE run.at = "close tool"
  <2> DEFINE e == [event |-> "tool_executed", of |-> Len(run.calls), status |-> run.tool, committed |-> FALSE]
  <2>1. Line = <<e>> /\ TellsEntry(e) = <<run.tool>>
    BY <1>3 DEF Line, ToolEvent, TellsEntry
  <2> HIDE DEF e
  <2> QED BY <1>2, <1>3, <2>1
<1>4. CASE run.at \in {"request", "decoded", "turn", "model failed"}
  <2>1. ASSUME run.stream
        PROVE  \E kind \in ModelKinds, c \in {FALSE, run.committed} :
                   Line = <<[event |-> kind, of |-> run.attempts, status |-> "", committed |-> c]>>
    BY <1>4, <2>1 DEF Line, ModelEvent, ModelKinds
  <2>2. ASSUME ~run.stream PROVE Line = <<>>
    BY <1>4, <2>2 DEF Line, ModelEvent
  <2>3. CASE run.stream
    <3>1. PICK kind \in ModelKinds, c \in {FALSE, run.committed} :
              Line = <<[event |-> kind, of |-> run.attempts, status |-> "", committed |-> c]>>
      BY <2>1, <2>3
    <3> DEFINE e == [event |-> kind, of |-> run.attempts, status |-> "", committed |-> c]
    <3>2. TellsEntry(e) = <<>>
      BY DEF TellsEntry, ModelKinds
    <3> HIDE DEF e
    <3>3. Line = <<e>>
      BY <3>1 DEF e
    <3> QED BY <1>2, <1>4, <3>2, <3>3
  <2>4. CASE ~run.stream
    BY <1>4, <2>2, <2>4
  <2> QED BY <2>3, <2>4
<1>5. CASE run.at \in {"open tool", "finish tool", "run finished"}
  <2>1. PICK kind \in {"tool_started", "tool_finished", "run_finished"},
             n \in {0, Len(run.calls), Len(run.calls) + 1}, status \in {"", run.tool, run.status} :
            Line = <<[event |-> kind, of |-> n, status |-> status, committed |-> FALSE]>>
    BY <1>5 DEF Line, ToolEvent
  <2> DEFINE e == [event |-> kind, of |-> n, status |-> status, committed |-> FALSE]
  <2>2. TellsEntry(e) = <<>>
    BY DEF TellsEntry
  <2> HIDE DEF e
  <2>3. Line = <<e>>
    BY <2>1 DEF e
  <2> QED BY <1>2, <1>5, <2>2, <2>3
<1>6. CASE run.at \notin {"close tool", "request", "decoded", "turn", "model failed", "open tool",
                         "finish tool", "run finished"}
  BY <1>6 DEF Line
<1> QED BY <1>3, <1>4, <1>5, <1>6

\* What is tells after a step that wrote the line, left it, or left half of it.
ToldByLine ==
    \/ ToldCalls(record'.trace) = ToldCalls(record.trace)
    \/ /\ run.at = "close tool"
       /\ ToldCalls(record'.trace) = Append(ToldCalls(record.trace), run.tool)

LEMMA LineTold ==
    ASSUME RecordTyped, record'.trace = record.trace \o Line
    PROVE  ToldCalls(record'.trace) = IF run.at = "close tool" THEN Append(ToldCalls(record.trace), run.tool)
                                     ELSE ToldCalls(record.trace)
<1> DEFINE tells == ToldCalls(record.trace)
<1>1. record.trace \in Seq(Entries)
  BY TypedFields DEF Records
<1>2. tells \in Seq(StatusNames) /\ tells \o <<>> = tells
  <2>1. tells \in Seq(StatusNames)
    BY <1>1, ToldCallsType
  <2> QED BY <2>1, ConcatEmptySeq
<1>3. CASE Line = <<>> /\ run.at # "close tool"
  <2>1. record'.trace = record.trace
    BY <1>1, <1>3, ConcatEmptySeq
  <2> QED BY <1>3, <2>1
<1>4. ASSUME NEW e \in Entries, Line = <<e>>,
             TellsEntry(e) = IF run.at = "close tool" THEN <<run.tool>> ELSE <<>>
      PROVE  ToldCalls(record'.trace) = IF run.at = "close tool" THEN Append(tells, run.tool) ELSE tells
  <2>1. ToldCalls(record'.trace) = tells \o TellsEntry(e)
    BY <1>1, <1>4, ToldAppended
  <2> HIDE DEF tells
  <2>2. CASE run.at = "close tool"
    <3>1. run.tool \in StatusNames
      BY RunFields, TypedFields DEF StatusNames
    <3>2. tells \o <<run.tool>> = Append(tells, run.tool)
      BY <1>2, <3>1
    <3> QED BY <1>4, <2>1, <2>2, <3>2
  <2>3. CASE run.at # "close tool"
    BY <1>2, <1>4, <2>1, <2>3
  <2> QED BY <2>2, <2>3
<1> QED BY <1>3, <1>4, LineIs

LEMMA LineLeftTold ==
    ASSUME RecordTyped, LineLeft
    PROVE  ToldByLine
<1>1. CASE record'.trace = record.trace
  BY <1>1 DEF ToldByLine
<1>2. CASE record'.trace = record.trace \o Line
  BY <1>2, LineTold DEF ToldByLine
<1>3. CASE record'.trace = record.trace \o <<Torn>>
  <2> DEFINE tells == ToldCalls(record.trace)
  <2>1. record.trace \in Seq(Entries)
    BY TypedFields DEF Records
  <2>2. tells \in Seq(StatusNames) /\ TellsEntry(Torn) = <<>>
    BY <2>1, ToldCallsType DEF TellsEntry, Torn
  <2>3. ToldCalls(record'.trace) = tells \o TellsEntry(Torn)
    BY <1>3, <2>1, TornType, ToldAppended
  <2> HIDE DEF tells
  <2>4. tells \o <<>> = tells
    BY <2>2, ConcatEmptySeq
  <2>5. ToldCalls(record'.trace) = tells
    BY <2>2, <2>3, <2>4, Zenon
  <2> QED BY <2>5 DEF tells, ToldByLine
<1> QED BY <1>1, <1>2, <1>3 DEF LineLeft

ToldKept ==
    /\ ToldCalls(record'.trace) = ToldCalls(record.trace)
    /\ run'.calls = run.calls /\ run'.tool = run.tool /\ history'.carriedOut = history.carriedOut
    /\ run'.at \in Untold => run.at \in Untold
    /\ run'.at \in EndPlaces \/ (run.at \in Untold \cup EndPlaces => run'.at \in Untold)
LastTold ==
    /\ run.at = "close tool" /\ run'.at \in {"finish tool"} \cup EndPlaces
    /\ ToldCalls(record'.trace) = Append(ToldCalls(record.trace), run.tool)
    /\ run'.calls = run.calls /\ run'.tool = run.tool /\ history'.carriedOut = history.carriedOut
CallBegins ==
    /\ run.at = "run tool"
    /\ \E status \in CallOutcomes :
           /\ CallCounted(status)
           /\ \/ run'.at = "prepare result" /\ ToldCalls(record'.trace) = ToldCalls(record.trace)
              \/ /\ run'.at \in EndPlaces
                 /\ ToldCalls(record'.trace) = Append(ToldCalls(record.trace), status)

LEMMA ToldStep ==
    ASSUME RecordTyped, RecordNext
    PROVE  ToldKept \/ LastTold \/ CallBegins
<1> DEFINE tells == ToldCalls(record.trace)
           next == ToldCalls(record'.trace)
           Same == /\ run'.calls = run.calls /\ run'.tool = run.tool
                   /\ history'.carriedOut = history.carriedOut
           Place == /\ run'.at \in Untold => run.at \in Untold
                    /\ run'.at \in EndPlaces \/ (run.at \in Untold \cup EndPlaces => run'.at \in Untold)
<1>a. ASSUME record'.trace = record.trace, Same, Place PROVE ToldKept
  BY <1>a DEF ToldKept
<1>b. ASSUME record'.trace = record.trace \o Line, run.at # "close tool", Same, Place PROVE ToldKept
  BY <1>b, LineTold DEF ToldKept
<1>c. ASSUME LineLeft, Same, run'.at \in EndPlaces \/ (run.at # "close tool" /\ Place)
      PROVE ToldKept \/ LastTold
  BY <1>c, LineLeftTold DEF ToldKept, LastTold, ToldByLine, EndPlaces, Untold
<1> HIDE DEF Same, Place
<1>1. CASE StartRun
  <2>1. record'.trace = record.trace /\ Same
    BY <1>1, StartRunDoes DEF Same, Kept, Settled, Ending, SameCall, TaskWritten, FilesKept, HistoryCut, StopsFor
  <2>2. Place
    BY <1>1, StartRunDoes DEF Place, Untold, EndPlaces, StopsFor
  <2> QED BY <1>a, <2>1, <2>2
<1>2. CASE CompactFirst
  <2>1. record'.trace = record.trace /\ Same
    BY <1>2, CompactFirstDoes DEF Same, Kept, Settled, Ending, SameCall, TaskWritten, FilesKept, HistoryCut, StopsFor
  <2>2. Place
    BY <1>2, CompactFirstDoes DEF Place, Untold, EndPlaces, StopsFor
  <2> QED BY <1>a, <2>1, <2>2
<1>3. CASE EndLoop
  <2>1. record'.trace = record.trace /\ Same
    BY <1>3, EndLoopDoes DEF Same, Kept, Settled, Ending, SameCall, TaskWritten, FilesKept, HistoryCut, StopsFor
  <2>2. Place
    BY <1>3, EndLoopDoes DEF Place, Untold, EndPlaces, StopsFor
  <2> QED BY <1>a, <2>1, <2>2
<1>4. CASE CountAttempt
  <2>1. record'.trace = record.trace /\ Same
    BY <1>4, CountAttemptDoes DEF Same, Kept, Settled, Ending, SameCall, TaskWritten, FilesKept, HistoryCut, StopsFor
  <2>2. Place
    BY <1>4, CountAttemptDoes DEF Place, Untold, EndPlaces, StopsFor
  <2> QED BY <1>a, <2>1, <2>2
<1>5. CASE TraceRequest
  <2>1. record'.trace = record.trace \o Line /\ run.at # "close tool" /\ Same
    BY <1>5, TraceRequestDoes DEF Same, Kept, Settled, Ending, SameCall, TaskWritten, FilesKept, HistoryCut, StopsFor
  <2>2. Place
    BY <1>5, TraceRequestDoes DEF Place, Untold, EndPlaces
  <2> QED BY <1>b, <2>1, <2>2
<1>6. CASE CheckSession
  <2>1. record'.trace = record.trace /\ Same
    BY <1>6, CheckSessionDoes DEF Same, Kept, Settled, Ending, SameCall, TaskWritten, FilesKept, HistoryCut, StopsFor
  <2>2. Place
    BY <1>6, CheckSessionDoes DEF Place, Untold, EndPlaces, StopsFor
  <2> QED BY <1>a, <2>1, <2>2
<1>7. CASE ModelFails
  <2>1. record'.trace = record.trace /\ Same
    BY <1>7, ModelFailsDoes DEF Same, Kept, Settled, Ending, SameCall, TaskWritten, FilesKept, HistoryCut, StopsFor
  <2>2. Place
    BY <1>7, ModelFailsDoes DEF Place, Untold, EndPlaces, StopsFor
  <2> QED BY <1>a, <2>1, <2>2
<1>8. CASE ModelAnswers
  <2>1. record'.trace = record.trace /\ Same
    BY <1>8, ModelAnswersDoes DEF Same, Kept, Settled, Ending, SameCall, TaskWritten, FilesKept, HistoryCut, StopsFor
  <2>2. Place
    BY <1>8, ModelAnswersDoes DEF Place, Untold, EndPlaces, StopsFor
  <2> QED BY <1>a, <2>1, <2>2
<1>9. CASE TraceAnswer
  <2>1. record'.trace = record.trace \o Line /\ run.at # "close tool" /\ Same
    BY <1>9, TraceAnswerDoes DEF Same, Kept, Settled, Ending, SameCall, TaskWritten, FilesKept, HistoryCut, StopsFor
  <2>2. Place
    BY <1>9, TraceAnswerDoes DEF Place, Untold, EndPlaces
  <2> QED BY <1>b, <2>1, <2>2
<1>10. CASE TraceFailure
  <2>1. Same /\ LineLeft
    <3>1. Line = <<>> => record.trace \o Line = record.trace
      <4>1. record.trace \in Seq(Entries)
        BY TypedFields DEF Records
      <4> QED BY <4>1, ConcatEmptySeq
    <3> QED BY <1>10, <3>1, TraceFailureDoes DEF Same, LineLeft, Kept, Settled, Ending, SameCall, TaskWritten, FilesKept, HistoryCut, StopsFor
  <2>2. run.at # "close tool" /\ Place
    BY <1>10, TraceFailureDoes DEF Place, Untold, EndPlaces
  <2> QED BY <1>c, <2>1, <2>2
<1>11. CASE Act
  <2>1. record'.trace = record.trace /\ Same
    BY <1>11, ActDoes DEF Same, Kept, Settled, Ending, SameCall, TaskWritten, FilesKept, HistoryCut, StopsFor
  <2>2. Place
    BY <1>11, ActDoes DEF Place, Untold, EndPlaces, StopsFor
  <2> QED BY <1>a, <2>1, <2>2
<1>12. CASE CommitLast
  <2>1. record'.trace = record.trace /\ Same
    BY <1>12, CommitLastDoes DEF Same, Kept, Settled, Ending, SameCall, TaskWritten, FilesKept, HistoryCut, StopsFor
  <2>2. Place
    BY <1>12, CommitLastDoes DEF Place, Untold, EndPlaces, StopsFor
  <2> QED BY <1>a, <2>1, <2>2
<1>13. CASE OpenTool
  <2>1. record'.trace = record.trace \o Line /\ run.at # "close tool" /\ Same
    BY <1>13, OpenToolDoes DEF Same, Kept, Settled, Ending, SameCall, TaskWritten, FilesKept, HistoryCut, StopsFor
  <2>2. Place
    BY <1>13, OpenToolDoes DEF Place, Untold, EndPlaces
  <2> QED BY <1>b, <2>1, <2>2
<1>14. CASE RunTool
  <2>1. PICK status \in {"ok", "error", "rejected"} : CallCounted(status)
    BY <1>14, RunToolDoes
  <2>2. status \in CallOutcomes
    BY DEF CallOutcomes
  <2> QED BY <1>14, <2>1, <2>2, RunToolDoes DEF CallBegins
<1>15. CASE InterruptTool
  <2>1. CASE Kept(run, run') /\ HistoryCut /\ record'.trace = record.trace
    <3>1. Same
      BY <2>1 DEF Same, Kept, HistoryCut
    <3>2. Place
      BY <1>15, InterruptToolDoes DEF Place, Untold, EndPlaces
    <3> QED BY <1>a, <2>1, <3>1, <3>2
  <2>2. ASSUME NEW status \in {"interrupted", "ok"}, CallCounted(status),
               Interrupted(Len(run.calls) + 1, status) \in Entries,
               record'.trace = record.trace \o <<Interrupted(Len(run.calls) + 1, status)>>
        PROVE  CallBegins
    <3> DEFINE e == Interrupted(Len(run.calls) + 1, status)
    <3>1. record.trace \in Seq(Entries) /\ e \in Entries /\ status \in CallOutcomes /\ status \in StatusNames
      BY <2>2, TypedFields DEF Records, CallOutcomes, StatusNames
    <3>2. TellsEntry(e) = <<status>>
      BY DEF TellsEntry, Interrupted
    <3> HIDE DEF e
    <3>3. tells \in Seq(StatusNames) /\ next = tells \o TellsEntry(e)
      BY <2>2, <3>1, ToldCallsType, ToldAppended DEF e
    <3>4. next = Append(tells, status)
      <4> HIDE DEF tells, next
      <4> QED BY <3>1, <3>2, <3>3
    <3>5. run.at = "run tool" /\ run'.at \in EndPlaces
      BY <1>15, InterruptToolDoes DEF EndPlaces
    <3> QED BY <2>2, <3>1, <3>4, <3>5 DEF CallBegins
  <2> QED BY <1>15, <2>1, <2>2, InterruptToolDoes
<1>16. CASE PrepareResult
  <2>1. record'.trace = record.trace /\ Same
    BY <1>16, PrepareResultDoes DEF Same, Kept, Settled, Ending, SameCall, TaskWritten, FilesKept, HistoryCut, StopsFor
  <2>2. Place
    BY <1>16, PrepareResultDoes DEF Place, Untold, EndPlaces, StopsFor
  <2> QED BY <1>a, <2>1, <2>2
<1>17. CASE CommitTool
  <2>1. record'.trace = record.trace /\ Same
    BY <1>17, CommitToolDoes DEF Same, Kept, Settled, Ending, SameCall, TaskWritten, FilesKept, HistoryCut, StopsFor
  <2>2. Place
    BY <1>17, CommitToolDoes DEF Place, Untold, EndPlaces, StopsFor
  <2> QED BY <1>a, <2>1, <2>2
<1>18. CASE CloseTool
  <2>1. Same
    BY <1>18, CloseToolDoes DEF Same, Kept, Settled, Ending, SameCall, TaskWritten, FilesKept, HistoryCut, StopsFor
  <2> QED BY <1>18, <2>1, CloseToolDoes, LineTold DEF Same, LastTold
<1>19. CASE FinishTool
  <2>1. record'.trace = record.trace \o Line /\ run.at # "close tool" /\ Same
    BY <1>19, FinishToolDoes DEF Same, Kept, Settled, Ending, SameCall, TaskWritten, FilesKept, HistoryCut, StopsFor
  <2>2. Place
    BY <1>19, FinishToolDoes DEF Place, Untold, EndPlaces
  <2> QED BY <1>b, <2>1, <2>2
<1>20. CASE WriteFails
  <2>1. Same /\ LineLeft
    BY <1>20, WriteFailsDoes DEF Same, Kept, Settled, Ending, SameCall, TaskWritten, FilesKept, HistoryCut, StopsFor
  <2>2. run'.at \in EndPlaces \/ (run.at # "close tool" /\ Place)
    BY <1>20, WriteFailsDoes DEF Place, Untold, EndPlaces, StopsFor
  <2> QED BY <1>c, <2>1, <2>2
<1>21. CASE InterruptBetween
  <2>1. record'.trace = record.trace /\ Same
    BY <1>21, InterruptBetweenDoes DEF Same, Kept, Settled, Ending, SameCall, TaskWritten, FilesKept, HistoryCut, StopsFor
  <2>2. Place
    BY <1>21, InterruptBetweenDoes DEF Place, Untold, EndPlaces, StopsFor
  <2> QED BY <1>a, <2>1, <2>2
<1>22. CASE CommitTerminalMessage
  <2>1. record'.trace = record.trace /\ Same
    BY <1>22, CommitTerminalMessageDoes DEF Same, Kept, Settled, Ending, SameCall, TaskWritten, FilesKept, HistoryCut, StopsFor
  <2>2. Place
    BY <1>22, CommitTerminalMessageDoes DEF Place, Untold, EndPlaces, StopsFor
  <2> QED BY <1>a, <2>1, <2>2
<1>23. CASE WriteLastState
  <2>1. record'.trace = record.trace /\ Same
    BY <1>23, WriteLastStateDoes DEF Same, Kept, Settled, Ending, SameCall, TaskWritten, FilesKept, HistoryCut, StopsFor
  <2>2. Place
    BY <1>23, WriteLastStateDoes DEF Place, Untold, EndPlaces, StopsFor
  <2> QED BY <1>a, <2>1, <2>2
<1>24. CASE WriteCheckpoint
  <2>1. record'.trace = record.trace /\ Same
    BY <1>24, WriteCheckpointDoes DEF Same, Kept, Settled, Ending, SameCall, TaskWritten, FilesKept, HistoryCut, StopsFor
  <2>2. Place
    BY <1>24, WriteCheckpointDoes DEF Place, Untold, EndPlaces, StopsFor
  <2> QED BY <1>a, <2>1, <2>2
<1>25. CASE TraceRunFinished
  <2>1. Same /\ LineLeft
    <3>1. Line = <<>> => record.trace \o Line = record.trace
      <4>1. record.trace \in Seq(Entries)
        BY TypedFields DEF Records
      <4> QED BY <4>1, ConcatEmptySeq
    <3> QED BY <1>25, <3>1, TraceRunFinishedDoes DEF Same, LineLeft, Kept, Settled, Ending, SameCall, TaskWritten, FilesKept, HistoryCut, StopsFor
  <2>2. run.at # "close tool" /\ Place
    BY <1>25, TraceRunFinishedDoes DEF Place, Untold, EndPlaces
  <2> QED BY <1>c, <2>1, <2>2
<1>26. CASE WriteReport
  <2>1. record'.trace = record.trace /\ Same
    BY <1>26, WriteReportDoes DEF Same, Kept, Settled, Ending, SameCall, TaskWritten, FilesKept, HistoryCut, StopsFor
  <2>2. Place
    BY <1>26, WriteReportDoes DEF Place, Untold, EndPlaces, StopsFor
  <2> QED BY <1>a, <2>1, <2>2
<1>27. CASE CrashRun
  <2>1. Same /\ LineLeft
    BY <1>27, CrashRunDoes DEF Same, Kept, Settled, Ending, SameCall, TaskWritten, FilesKept, HistoryCut, StopsFor
  <2>2. run'.at \in EndPlaces \/ (run.at # "close tool" /\ Place)
    <3>1. run'.at \in EndPlaces
      BY <1>27, CrashRunDoes DEF EndPlaces
    <3> QED BY <3>1
  <2> QED BY <1>c, <2>1, <2>2
<1> QED BY <1>1, <1>2, <1>3, <1>4, <1>5, <1>6, <1>7, <1>8, <1>9, <1>10, <1>11, <1>12, <1>13, <1>14, <1>15, <1>16, <1>17, <1>18, <1>19, <1>20, <1>21, <1>22, <1>23, <1>24, <1>25, <1>26, <1>27 DEF RecordNext

LEMMA RecordToldNext ==
    ASSUME RecordInv, RecordNext
    PROVE  RecordTold'
<1> DEFINE tells == ToldCalls(record.trace)
           next == ToldCalls(record'.trace)
<1>1. RecordTyped
  BY DEF RecordInv
<1>2. /\ run.calls = history.carriedOut
      /\ run.at \in Untold => run.calls = Append(tells, run.tool)
      /\ run.at \in EndPlaces => tells = run.calls \/ run.calls = Append(tells, run.tool)
      /\ run.at \notin Untold \cup EndPlaces => tells = run.calls
  BY DEF RecordInv, RecordTold
<1> SUFFICES /\ run'.calls = history'.carriedOut
             /\ run'.at \in Untold => run'.calls = Append(next, run'.tool)
             /\ run'.at \in EndPlaces => next = run'.calls \/ run'.calls = Append(next, run'.tool)
             /\ run'.at \notin Untold \cup EndPlaces => next = run'.calls
  BY DEF RecordTold
<1>3. CASE ToldKept
  BY <1>2, <1>3 DEF ToldKept
<1>4. CASE LastTold
  BY <1>2, <1>4 DEF LastTold, EndPlaces, Untold
<1>5. CASE CallBegins
  BY <1>2, <1>5 DEF CallBegins, CallCounted, EndPlaces, Untold
<1> QED BY <1>1, <1>3, <1>4, <1>5, ToldStep

-----------------------------------------------------------------------------
(* RunRecord: an entry more in the trace *)

LongerBy(t, e, l) ==
    /\ Len(t) \in Nat /\ DOMAIN t = 1..Len(t) /\ DOMAIN l = 1..(Len(t) + 1)
    /\ Len(l) = Len(t) + 1 /\ l[Len(t) + 1] = e /\ \A i \in 1..Len(t) : l[i] = t[i]

LEMMA LongerByOne ==
    ASSUME NEW t, t \in Seq(Entries), NEW e, e \in Entries
    PROVE  LongerBy(t, e, t \o <<e>>)
  BY DEF LongerBy

LEMMA PositionsMore ==
    ASSUME NEW t, NEW e, NEW l, LongerBy(t, e, l), NEW kinds, NEW n
    PROVE  /\ e.event \in kinds /\ e.of = n
              => Positions(l, kinds, n) = Positions(t, kinds, n) \cup {Len(t) + 1}
           /\ e.event \notin kinds \/ e.of # n => Positions(l, kinds, n) = Positions(t, kinds, n)
           /\ \A i \in Positions(t, kinds, n) : i \in Nat /\ i < Len(t) + 1
<1>1. /\ Len(t) \in Nat /\ DOMAIN t = 1..Len(t) /\ DOMAIN l = 1..(Len(t) + 1)
      /\ l[Len(t) + 1] = e /\ \A i \in 1..Len(t) : l[i] = t[i]
  BY DEF LongerBy
<1>2. DOMAIN l = DOMAIN t \cup {Len(t) + 1} /\ Len(t) + 1 \notin DOMAIN t
  BY <1>1
<1>3. \A i \in DOMAIN t : i \in Nat /\ i < Len(t) + 1
  BY <1>1
<1>4. \A i \in DOMAIN t : l[i] = t[i]
  BY <1>1
<1> QED BY <1>1, <1>2, <1>3, <1>4 DEF Positions

Grown(t, l, kinds, n) == Positions(l, kinds, n) = Positions(t, kinds, n) \cup {Len(t) + 1}
Alike(t, l, kinds, n) == Positions(l, kinds, n) = Positions(t, kinds, n)

LEMMA PositionsWith ==
    ASSUME NEW t, NEW e, NEW l, LongerBy(t, e, l), NEW kinds, NEW n, e.event \in kinds, e.of = n
    PROVE  Grown(t, l, kinds, n)
  BY PositionsMore DEF Grown

LEMMA PositionsWithout ==
    ASSUME NEW t, NEW e, NEW l, LongerBy(t, e, l), NEW kinds, NEW n, e.event \notin kinds
    PROVE  Alike(t, l, kinds, n)
  BY PositionsMore DEF Alike

LEMMA DomainMore ==
    ASSUME NEW t, NEW e, NEW l, LongerBy(t, e, l)
    PROVE  /\ Len(t) \in Nat /\ Len(t) + 1 \in DOMAIN l /\ l[Len(t) + 1] = e
           /\ \A i \in DOMAIN t : i \in DOMAIN l /\ l[i] = t[i] /\ i \in Nat /\ i < Len(t) + 1
<1>1. /\ Len(t) \in Nat /\ DOMAIN t = 1..Len(t) /\ DOMAIN l = 1..(Len(t) + 1)
      /\ l[Len(t) + 1] = e /\ \A i \in 1..Len(t) : l[i] = t[i]
  BY DEF LongerBy
<1>2. \A i \in 1..Len(t) : i \in 1..(Len(t) + 1) /\ i \in Nat /\ i < Len(t) + 1
  BY <1>1
<1>3. Len(t) + 1 \in 1..(Len(t) + 1)
  BY <1>1
<1> QED BY <1>1, <1>2, <1>3

LEMMA PartOfKinds ==
    ASSUME NEW t, NEW kinds, NEW part, part \subseteq kinds, NEW n, Positions(t, kinds, n) = {}
    PROVE  Positions(t, part, n) = {}
  BY DEF Positions

\* What an entry about something else leaves as it was.
ModelStays(t, l, n) ==
    /\ ModelUnasked(t, n) => ModelUnasked(l, n)
    /\ ModelAsked(t, n) => ModelAsked(l, n)
    /\ ModelDecoded(t, n) => ModelDecoded(l, n)
    /\ ModelEnded(t, n) => ModelEnded(l, n)
ToolStays(t, l, n) ==
    /\ ToolUnborn(t, n) => ToolUnborn(l, n)
    /\ ToolOpen(t, n) => ToolOpen(l, n)
    /\ \A status \in CallOutcomes : ToolExecuted(t, n, status) => ToolExecuted(l, n, status)
    /\ ToolClosed(t, n) => ToolClosed(l, n)

LEMMA ModelKept ==
    ASSUME NEW t, NEW e, NEW l, LongerBy(t, e, l), NEW n, e.event \notin ModelKinds \/ e.of # n
    PROVE  ModelStays(t, l, n)
<1>1. /\ Positions(l, ModelKinds, n) = Positions(t, ModelKinds, n)
      /\ Positions(l, Asks, n) = Positions(t, Asks, n)
      /\ Positions(l, Decodings, n) = Positions(t, Decodings, n)
      /\ Positions(l, ModelEnds, n) = Positions(t, ModelEnds, n)
  <2>1. Asks \subseteq ModelKinds /\ Decodings \subseteq ModelKinds /\ ModelEnds \subseteq ModelKinds
    BY DEF Asks, Decodings, ModelEnds, ModelKinds
  <2>2. \/ e.of # n
        \/ e.event \notin ModelKinds /\ e.event \notin Asks /\ e.event \notin Decodings
           /\ e.event \notin ModelEnds
    BY <2>1
  <2> QED BY <2>2, PositionsMore
<1>2. \A i \in DOMAIN t : i \in DOMAIN l /\ l[i] = t[i]
  BY DomainMore
<1>3. ModelUnasked(t, n) => ModelUnasked(l, n)
  BY <1>1 DEF ModelUnasked
<1>4. ModelAsked(t, n) => ModelAsked(l, n)
  BY <1>1, <1>2 DEF ModelAsked
<1>5. ModelDecoded(t, n) => ModelDecoded(l, n)
  BY <1>1, <1>2 DEF ModelDecoded
<1>6. ModelEnded(t, n) => ModelEnded(l, n)
  BY <1>1, <1>2 DEF ModelEnded
<1> QED BY <1>3, <1>4, <1>5, <1>6 DEF ModelStays

LEMMA ToolKept ==
    ASSUME NEW t, NEW e, NEW l, LongerBy(t, e, l), NEW n, e.event \notin ToolKinds \/ e.of # n
    PROVE  ToolStays(t, l, n)
<1>1. /\ Positions(l, ToolKinds, n) = Positions(t, ToolKinds, n)
      /\ Positions(l, Starts, n) = Positions(t, Starts, n)
      /\ Positions(l, ToolEnds, n) = Positions(t, ToolEnds, n)
      /\ Positions(l, Finishes, n) = Positions(t, Finishes, n)
  <2>1. Starts \subseteq ToolKinds /\ ToolEnds \subseteq ToolKinds /\ Finishes \subseteq ToolKinds
    BY DEF Starts, ToolEnds, Finishes, ToolKinds
  <2>2. \/ e.of # n
        \/ e.event \notin ToolKinds /\ e.event \notin Starts /\ e.event \notin ToolEnds
           /\ e.event \notin Finishes
    BY <2>1
  <2> QED BY <2>2, PositionsMore
<1>2. \A i \in DOMAIN t : i \in DOMAIN l /\ l[i] = t[i]
  BY DomainMore
<1>3. ToolUnborn(t, n) => ToolUnborn(l, n)
  BY <1>1 DEF ToolUnborn
<1>4. ToolOpen(t, n) => ToolOpen(l, n)
  BY <1>1, <1>2 DEF ToolOpen
<1>5. ASSUME NEW status \in CallOutcomes, ToolExecuted(t, n, status) PROVE ToolExecuted(l, n, status)
  BY <1>1, <1>2, <1>5 DEF ToolExecuted
<1>6. ToolClosed(t, n) => ToolClosed(l, n)
  BY <1>1, <1>2 DEF ToolClosed
<1> QED BY <1>3, <1>4, <1>5, <1>6 DEF ToolStays

\* The entries of an attempt.
LEMMA AskedNow ==
    ASSUME NEW t, NEW e, NEW l, LongerBy(t, e, l), NEW n, ModelUnasked(t, n),
           e.event = "model_requested", e.of = n, ~e.committed
    PROVE  ModelAsked(l, n)
<1>1. Positions(t, Asks, n) = {} /\ Positions(t, Decodings, n) = {} /\ Positions(t, ModelEnds, n) = {}
  <2>1. Asks \subseteq ModelKinds /\ Decodings \subseteq ModelKinds /\ ModelEnds \subseteq ModelKinds
    BY DEF Asks, Decodings, ModelEnds, ModelKinds
  <2>2. Positions(t, ModelKinds, n) = {}
    BY DEF ModelUnasked
  <2> QED BY <2>1, <2>2, PartOfKinds
<1>2. e.event \in Asks /\ e.event \notin Decodings /\ e.event \notin ModelEnds
  BY DEF Asks, Decodings, ModelEnds
<1>3. /\ Positions(l, Asks, n) = Positions(t, Asks, n) \cup {Len(t) + 1}
      /\ Positions(l, Decodings, n) = Positions(t, Decodings, n)
      /\ Positions(l, ModelEnds, n) = Positions(t, ModelEnds, n)
  <2>1. Grown(t, l, Asks, n)
    BY <1>2, PositionsWith
  <2>2. Alike(t, l, Decodings, n)
    BY <1>2, PositionsWithout
  <2>3. Alike(t, l, ModelEnds, n)
    BY <1>2, PositionsWithout
  <2> QED BY <2>1, <2>2, <2>3 DEF Grown, Alike
<1>4. Len(t) + 1 \in DOMAIN l /\ l[Len(t) + 1] = e
  BY DomainMore
<1> QED BY <1>1, <1>3, <1>4 DEF ModelAsked

LEMMA DecodedNow ==
    ASSUME NEW t, NEW e, NEW l, LongerBy(t, e, l), NEW n, ModelAsked(t, n),
           e.event = "action_decoded", e.of = n, e.committed
    PROVE  ModelDecoded(l, n)
<1>1. PICK r \in DOMAIN t :
          /\ Positions(t, Asks, n) = {r} /\ ~t[r].committed
          /\ Positions(t, Decodings, n) = {} /\ Positions(t, ModelEnds, n) = {}
  BY DEF ModelAsked
<1>2. e.event \notin Asks /\ e.event \in Decodings /\ e.event \notin ModelEnds
  BY DEF Asks, Decodings, ModelEnds
<1>3. /\ Positions(l, Asks, n) = Positions(t, Asks, n)
      /\ Positions(l, Decodings, n) = Positions(t, Decodings, n) \cup {Len(t) + 1}
      /\ Positions(l, ModelEnds, n) = Positions(t, ModelEnds, n)
  <2>1. Alike(t, l, Asks, n)
    BY <1>2, PositionsWithout
  <2>2. Grown(t, l, Decodings, n)
    BY <1>2, PositionsWith
  <2>3. Alike(t, l, ModelEnds, n)
    BY <1>2, PositionsWithout
  <2> QED BY <2>1, <2>2, <2>3 DEF Grown, Alike
<1>4. /\ Len(t) + 1 \in DOMAIN l /\ l[Len(t) + 1] = e
      /\ r \in DOMAIN l /\ l[r] = t[r] /\ r < Len(t) + 1
  BY <1>1, DomainMore
<1> DEFINE d == Len(t) + 1
<1>5. /\ Positions(l, Asks, n) = {r} /\ ~l[r].committed /\ Positions(l, Decodings, n) = {d}
      /\ Positions(l, ModelEnds, n) = {} /\ r < d /\ l[d].committed /\ d \in DOMAIN l /\ r \in DOMAIN l
  BY <1>1, <1>3, <1>4
<1> HIDE DEF d
<1> QED BY <1>5 DEF ModelDecoded

LEMMA AnsweredNow ==
    ASSUME NEW t, NEW e, NEW l, LongerBy(t, e, l), NEW n, ModelDecoded(t, n),
           e.event = "model_turn", e.of = n, e.committed
    PROVE  ModelEnded(l, n)
<1>1. PICK r \in DOMAIN t, d \in DOMAIN t :
          /\ Positions(t, Asks, n) = {r} /\ ~t[r].committed
          /\ Positions(t, Decodings, n) = {d} /\ r < d /\ t[d].committed
          /\ Positions(t, ModelEnds, n) = {}
  BY DEF ModelDecoded
<1>2. e.event \notin Asks /\ e.event \notin Decodings /\ e.event \in ModelEnds
  BY DEF Asks, Decodings, ModelEnds
<1>3. /\ Positions(l, Asks, n) = Positions(t, Asks, n)
      /\ Positions(l, Decodings, n) = Positions(t, Decodings, n)
      /\ Positions(l, ModelEnds, n) = Positions(t, ModelEnds, n) \cup {Len(t) + 1}
  <2>1. Alike(t, l, Asks, n)
    BY <1>2, PositionsWithout
  <2>2. Alike(t, l, Decodings, n)
    BY <1>2, PositionsWithout
  <2>3. Grown(t, l, ModelEnds, n)
    BY <1>2, PositionsWith
  <2> QED BY <2>1, <2>2, <2>3 DEF Grown, Alike
<1>4. /\ Len(t) + 1 \in DOMAIN l /\ l[Len(t) + 1] = e
      /\ r \in DOMAIN l /\ l[r] = t[r] /\ r < Len(t) + 1
      /\ d \in DOMAIN l /\ l[d] = t[d] /\ d < Len(t) + 1
  BY <1>1, DomainMore
<1> DEFINE f == Len(t) + 1
<1>5. /\ Positions(l, Asks, n) = {r} /\ ~l[r].committed /\ Positions(l, Decodings, n) = {d}
      /\ Positions(l, ModelEnds, n) = {f} /\ r < d /\ d < f /\ r < f /\ l[d].committed /\ l[f].committed
      /\ d \in DOMAIN l /\ r \in DOMAIN l /\ f \in DOMAIN l
  BY <1>1, <1>3, <1>4
<1> HIDE DEF f
<1> QED BY <1>5 DEF ModelEnded

LEMMA FailedNow ==
    ASSUME NEW t, NEW e, NEW l, LongerBy(t, e, l), NEW n, ModelAsked(t, n),
           e.event = "model_failed", e.of = n
    PROVE  ModelEnded(l, n)
<1>1. PICK r \in DOMAIN t :
          /\ Positions(t, Asks, n) = {r} /\ ~t[r].committed
          /\ Positions(t, Decodings, n) = {} /\ Positions(t, ModelEnds, n) = {}
  BY DEF ModelAsked
<1>2. e.event \notin Asks /\ e.event \notin Decodings /\ e.event \in ModelEnds
  BY DEF Asks, Decodings, ModelEnds
<1>3. /\ Positions(l, Asks, n) = Positions(t, Asks, n)
      /\ Positions(l, Decodings, n) = Positions(t, Decodings, n)
      /\ Positions(l, ModelEnds, n) = Positions(t, ModelEnds, n) \cup {Len(t) + 1}
  <2>1. Alike(t, l, Asks, n)
    BY <1>2, PositionsWithout
  <2>2. Alike(t, l, Decodings, n)
    BY <1>2, PositionsWithout
  <2>3. Grown(t, l, ModelEnds, n)
    BY <1>2, PositionsWith
  <2> QED BY <2>1, <2>2, <2>3 DEF Grown, Alike
<1>4. /\ Len(t) + 1 \in DOMAIN l /\ l[Len(t) + 1] = e
      /\ r \in DOMAIN l /\ l[r] = t[r] /\ r < Len(t) + 1
  BY <1>1, DomainMore
<1> DEFINE f == Len(t) + 1
<1>5. /\ Positions(l, Asks, n) = {r} /\ ~l[r].committed /\ Positions(l, Decodings, n) = {}
      /\ Positions(l, ModelEnds, n) = {f} /\ r < f /\ l[f].event = "model_failed"
      /\ r \in DOMAIN l /\ f \in DOMAIN l
  BY <1>1, <1>3, <1>4
<1> HIDE DEF f
<1> QED BY <1>5 DEF ModelEnded

\* The entries of a call.
LEMMA StartedNow ==
    ASSUME NEW t, NEW e, NEW l, LongerBy(t, e, l), NEW n, ToolUnborn(t, n),
           e.event = "tool_started", e.of = n
    PROVE  ToolOpen(l, n)
<1>1. Positions(t, Starts, n) = {} /\ Positions(t, ToolEnds, n) = {} /\ Positions(t, Finishes, n) = {}
  <2>1. Starts \subseteq ToolKinds /\ ToolEnds \subseteq ToolKinds /\ Finishes \subseteq ToolKinds
    BY DEF Starts, ToolEnds, Finishes, ToolKinds
  <2>2. Positions(t, ToolKinds, n) = {}
    BY DEF ToolUnborn
  <2> QED BY <2>1, <2>2, PartOfKinds
<1>2. e.event \in Starts /\ e.event \notin ToolEnds /\ e.event \notin Finishes
  BY DEF Starts, ToolEnds, Finishes
<1>3. /\ Positions(l, Starts, n) = Positions(t, Starts, n) \cup {Len(t) + 1}
      /\ Positions(l, ToolEnds, n) = Positions(t, ToolEnds, n)
      /\ Positions(l, Finishes, n) = Positions(t, Finishes, n)
  <2>1. Grown(t, l, Starts, n)
    BY <1>2, PositionsWith
  <2>2. Alike(t, l, ToolEnds, n)
    BY <1>2, PositionsWithout
  <2>3. Alike(t, l, Finishes, n)
    BY <1>2, PositionsWithout
  <2> QED BY <2>1, <2>2, <2>3 DEF Grown, Alike
<1>4. Len(t) + 1 \in DOMAIN l
  BY DomainMore
<1> QED BY <1>1, <1>3, <1>4 DEF ToolOpen

LEMMA EndedNow ==
    ASSUME NEW t, NEW e, NEW l, LongerBy(t, e, l), NEW n, ToolOpen(t, n), e.event \in ToolEnds, e.of = n
    PROVE  /\ \A status \in CallOutcomes \ {"interrupted"} :
                  e.event = "tool_executed" /\ e.status = status => ToolExecuted(l, n, status)
           /\ e.event = "tool_interrupted" /\ e.status = "interrupted" => ToolClosed(l, n)
<1>1. PICK s \in DOMAIN t :
          /\ Positions(t, Starts, n) = {s} /\ Positions(t, ToolEnds, n) = {}
          /\ Positions(t, Finishes, n) = {}
  BY DEF ToolOpen
<1>2. e.event \notin Starts /\ e.event \in ToolEnds /\ e.event \notin Finishes
  BY DEF Starts, ToolEnds, Finishes
<1>3. /\ Positions(l, Starts, n) = Positions(t, Starts, n)
      /\ Positions(l, ToolEnds, n) = Positions(t, ToolEnds, n) \cup {Len(t) + 1}
      /\ Positions(l, Finishes, n) = Positions(t, Finishes, n)
  <2>1. Alike(t, l, Starts, n)
    BY <1>2, PositionsWithout
  <2>2. Grown(t, l, ToolEnds, n)
    BY <1>2, PositionsWith
  <2>3. Alike(t, l, Finishes, n)
    BY <1>2, PositionsWithout
  <2> QED BY <2>1, <2>2, <2>3 DEF Grown, Alike
<1>4. Len(t) + 1 \in DOMAIN l /\ l[Len(t) + 1] = e /\ s \in DOMAIN l /\ s < Len(t) + 1
  BY <1>1, DomainMore
<1> DEFINE f == Len(t) + 1
<1>5. /\ Positions(l, Starts, n) = {s} /\ Positions(l, ToolEnds, n) = {f}
      /\ Positions(l, Finishes, n) = {} /\ s < f /\ l[f] = e /\ s \in DOMAIN l /\ f \in DOMAIN l
  BY <1>1, <1>3, <1>4
<1> HIDE DEF f
<1>6. ASSUME NEW status \in CallOutcomes \ {"interrupted"}, e.event = "tool_executed", e.status = status
      PROVE  ToolExecuted(l, n, status)
  BY <1>5, <1>6 DEF ToolExecuted
<1>7. ASSUME e.event = "tool_interrupted", e.status = "interrupted" PROVE ToolClosed(l, n)
  BY <1>5, <1>7 DEF ToolClosed
<1> QED BY <1>6, <1>7

LEMMA FinishedNow ==
    ASSUME NEW t, NEW e, NEW l, LongerBy(t, e, l), NEW n, NEW status, ToolExecuted(t, n, status),
           e.event = "tool_finished", e.of = n, e.status = status
    PROVE  ToolClosed(l, n)
<1>1. PICK s \in DOMAIN t, d \in DOMAIN t :
          /\ Positions(t, Starts, n) = {s} /\ Positions(t, ToolEnds, n) = {d} /\ s < d
          /\ t[d].event = "tool_executed" /\ t[d].status = status /\ status # "interrupted"
          /\ Positions(t, Finishes, n) = {}
  BY DEF ToolExecuted
<1>2. e.event \notin Starts /\ e.event \notin ToolEnds /\ e.event \in Finishes
  BY DEF Starts, ToolEnds, Finishes
<1>3. /\ Positions(l, Starts, n) = Positions(t, Starts, n)
      /\ Positions(l, ToolEnds, n) = Positions(t, ToolEnds, n)
      /\ Positions(l, Finishes, n) = Positions(t, Finishes, n) \cup {Len(t) + 1}
  <2>1. Alike(t, l, Starts, n)
    BY <1>2, PositionsWithout
  <2>2. Alike(t, l, ToolEnds, n)
    BY <1>2, PositionsWithout
  <2>3. Grown(t, l, Finishes, n)
    BY <1>2, PositionsWith
  <2> QED BY <2>1, <2>2, <2>3 DEF Grown, Alike
<1>4. /\ Len(t) + 1 \in DOMAIN l /\ l[Len(t) + 1] = e
      /\ s \in DOMAIN l /\ d \in DOMAIN l /\ l[d] = t[d] /\ d < Len(t) + 1
  BY <1>1, DomainMore
<1> DEFINE f == Len(t) + 1
<1>5. /\ Positions(l, Starts, n) = {s} /\ Positions(l, ToolEnds, n) = {d} /\ s < d
      /\ Positions(l, Finishes, n) = {f} /\ d < f /\ l[f].status = l[d].status
      /\ l[d].event = "tool_executed" /\ l[d].status # "interrupted"
      /\ s \in DOMAIN l /\ d \in DOMAIN l /\ f \in DOMAIN l
  BY <1>1, <1>3, <1>4
<1> HIDE DEF f
<1> QED BY <1>5 DEF ToolClosed

-----------------------------------------------------------------------------
(* RunRecord: the lives after a step *)

LEMMA EndsMore ==
    ASSUME NEW t, NEW e, NEW l, LongerBy(t, e, l)
    PROVE  /\ NotTorn(t) /\ e.event # "torn" => NotTorn(l)
           /\ e.event # "run_finished" => RunEnds(l) = RunEnds(t)
           /\ e.event = "run_finished" => RunEnds(l) = RunEnds(t) \cup {Len(t) + 1}
<1>1. /\ Len(t) \in Nat /\ DOMAIN t = 1..Len(t) /\ DOMAIN l = 1..(Len(t) + 1)
      /\ l[Len(t) + 1] = e /\ \A i \in 1..Len(t) : l[i] = t[i]
  BY DEF LongerBy
<1>2. DOMAIN l = DOMAIN t \cup {Len(t) + 1}
  BY <1>1
<1>3. \A i \in DOMAIN t : l[i] = t[i]
  BY <1>1
<1>4. NotTorn(t) /\ e.event # "torn" => NotTorn(l)
  BY <1>1, <1>2, <1>3 DEF NotTorn
<1>5. e.event # "run_finished" => RunEnds(l) = RunEnds(t)
  BY <1>1, <1>2, <1>3 DEF RunEnds
<1>6. e.event = "run_finished" => RunEnds(l) = RunEnds(t) \cup {Len(t) + 1}
  BY <1>1, <1>2, <1>3 DEF RunEnds
<1> QED BY <1>4, <1>5, <1>6

LEMMA LineEntry ==
    ASSUME RecordTyped, NEW e, Line = <<e>>, record'.trace = record.trace \o Line
    PROVE  e \in Entries /\ LongerBy(record.trace, e, record'.trace)
<1>1. <<e>> \in Seq(Entries) /\ <<e>>[1] = e /\ 1 \in DOMAIN <<e>>
  BY LineType
<1>2. e \in Entries
  BY <1>1
<1>3. record.trace \in Seq(Entries)
  BY TypedFields DEF Records
<1>4. LongerBy(record.trace, e, record.trace \o <<e>>)
  BY <1>2, <1>3, LongerByOne
<1> QED BY <1>2, <1>4, Zenon

LEMMA NoLineWritten ==
    ASSUME RecordTyped, Line = <<>>, record'.trace = record.trace \o Line
    PROVE  record'.trace = record.trace
<1>1. record.trace \in Seq(Entries)
  BY TypedFields DEF Records
<1> QED BY <1>1, ConcatEmptySeq

\* A step that leaves a part of the trace alone, and its places.
ModelQuiet == \A n \in Numbers : ModelStays(record.trace, record'.trace, n)
ToolQuiet == \A n \in Numbers : ToolStays(record.trace, record'.trace, n)
ModelPlaces ==
    run.stream =>
        /\ run'.at \notin {"request", "turn"} /\ (run'.at \in AwaitingAnswer => run.at \in AwaitingAnswer)
        /\ run'.at = "decoded" => run'.committed
        /\ run.at \in AwaitingAnswer \cup {"turn"} => run'.at \in AwaitingAnswer
ToolPlaces ==
    /\ run'.at = "run tool" <=> run.at = "run tool"
    /\ run'.at \in Untold <=> run.at \in Untold
    /\ run'.at # "finish tool"
EndPlacesKept == run.at \notin {"report", "done"} /\ run'.at \notin {"report", "done"}

LEMMA QuietTrace ==
    ASSUME record'.trace = record.trace
    PROVE  ModelQuiet /\ ToolQuiet /\ RunEnds(record'.trace) = RunEnds(record.trace)
           /\ (NotTorn(record.trace) => NotTorn(record'.trace))
  BY DEF ModelQuiet, ToolQuiet, ModelStays, ToolStays

LEMMA NumbersNat == \A n \in Numbers : n \in Nat
  BY DEF Numbers

LEMMA NatOrder ==
    ASSUME NEW a \in Nat, NEW b \in Nat
    PROVE  /\ a = b => ~(a > b) /\ ~(a < b)
           /\ a # b => a > b \/ a < b
           /\ a = b + 1 \/ a > b + 1 => a > b
  OBVIOUS

LEMMA ModelsGoOn ==
    ASSUME ModelLives, run'.stream = run.stream, run'.attempts = run.attempts, ModelQuiet, ModelPlaces
    PROVE  ModelLives'
<1> SUFFICES ASSUME NEW n \in Numbers
             PROVE  /\ ~run'.stream \/ n > run'.attempts => ModelUnasked(record'.trace, n)
                    /\ run'.stream /\ n = run'.attempts =>
                          /\ run'.at = "request" => ModelUnasked(record'.trace, n)
                          /\ run'.at \in AwaitingAnswer => ModelAsked(record'.trace, n)
                          /\ run'.at = "turn" => ModelDecoded(record'.trace, n)
                          /\ run'.at \in {"decoded", "turn"} => run'.committed
                    /\ n < run'.attempts \/ run'.at \notin AwaitingAnswer \cup {"turn"} =>
                          ModelUnasked(record'.trace, n) \/ ModelEnded(record'.trace, n)
  BY DEF ModelLives
<1>1. /\ ~run.stream \/ n > run.attempts => ModelUnasked(record.trace, n)
      /\ run.stream /\ n = run.attempts => (run.at \in AwaitingAnswer => ModelAsked(record.trace, n))
      /\ n < run.attempts \/ run.at \notin AwaitingAnswer \cup {"turn"} =>
            ModelUnasked(record.trace, n) \/ ModelEnded(record.trace, n)
  BY DEF ModelLives
<1>2. /\ ModelUnasked(record.trace, n) => ModelUnasked(record'.trace, n)
      /\ ModelAsked(record.trace, n) => ModelAsked(record'.trace, n)
      /\ ModelEnded(record.trace, n) => ModelEnded(record'.trace, n)
  BY DEF ModelQuiet, ModelStays
<1>3. CASE ~run.stream
  BY <1>1, <1>2, <1>3
<1>4. CASE run.stream
  BY <1>1, <1>2, <1>4 DEF ModelPlaces
<1> QED BY <1>3, <1>4

\* A step with an entry of the attempt under way.
LEMMA ModelGoesOn ==
    ASSUME RecordTyped, ModelLives, run'.stream, run'.attempts = run.attempts,
           \A n \in Numbers : n # run.attempts => ModelStays(record.trace, record'.trace, n),
           run.at \in {"request", "turn"} \cup AwaitingAnswer,
           \/ run'.at = "guard" /\ ModelAsked(record'.trace, run.attempts)
           \/ run'.at = "turn" /\ ModelDecoded(record'.trace, run.attempts) /\ run'.committed
           \/ /\ run'.at \in {"checked", "attempt", "terminal message"}
              /\ ModelEnded(record'.trace, run.attempts)
    PROVE  ModelLives'
<1> SUFFICES ASSUME NEW n \in Numbers
             PROVE  /\ n > run'.attempts => ModelUnasked(record'.trace, n)
                    /\ n = run'.attempts =>
                          /\ run'.at = "request" => ModelUnasked(record'.trace, n)
                          /\ run'.at \in AwaitingAnswer => ModelAsked(record'.trace, n)
                          /\ run'.at = "turn" => ModelDecoded(record'.trace, n)
                          /\ run'.at \in {"decoded", "turn"} => run'.committed
                    /\ n < run'.attempts \/ run'.at \notin AwaitingAnswer \cup {"turn"} =>
                          ModelUnasked(record'.trace, n) \/ ModelEnded(record'.trace, n)
  BY DEF ModelLives
<1>0. run.attempts \in Nat /\ n \in Nat
  BY CountsAre, NumbersNat
<1>1. CASE n = run.attempts
  <2>1. ~(n > run'.attempts) /\ ~(n < run'.attempts)
    BY <1>0, <1>1, NatOrder
  <2> QED BY <1>1, <2>1 DEF AwaitingAnswer
<1>2. CASE n # run.attempts
  <2>1. ModelStays(record.trace, record'.trace, n)
    BY <1>2
  <2>2. /\ n > run.attempts => ModelUnasked(record.trace, n)
        /\ n < run.attempts => ModelUnasked(record.trace, n) \/ ModelEnded(record.trace, n)
    BY DEF ModelLives
  <2>3. n > run.attempts \/ n < run.attempts
    BY <1>0, <1>2, NatOrder
  <2> QED BY <1>2, <2>1, <2>2, <2>3 DEF ModelStays
<1> QED BY <1>1, <1>2

\* A step that counts an attempt.
LEMMA ModelCounted ==
    ASSUME RecordTyped, ModelLives, run'.stream = run.stream, run'.attempts = run.attempts + 1,
           ModelQuiet, run.at = "attempt", run'.at \in {"attempt", "request", "terminal message"}
    PROVE  ModelLives'
<1> SUFFICES ASSUME NEW n \in Numbers
             PROVE  /\ ~run'.stream \/ n > run'.attempts => ModelUnasked(record'.trace, n)
                    /\ run'.stream /\ n = run'.attempts =>
                          /\ run'.at = "request" => ModelUnasked(record'.trace, n)
                          /\ run'.at \in AwaitingAnswer => ModelAsked(record'.trace, n)
                          /\ run'.at = "turn" => ModelDecoded(record'.trace, n)
                          /\ run'.at \in {"decoded", "turn"} => run'.committed
                    /\ ModelUnasked(record'.trace, n) \/ ModelEnded(record'.trace, n)
  BY DEF ModelLives
<1>0. run.attempts \in Nat /\ n \in Nat
  BY CountsAre, NumbersNat
<1>1. /\ ~run.stream \/ n > run.attempts => ModelUnasked(record.trace, n)
      /\ ModelUnasked(record.trace, n) \/ ModelEnded(record.trace, n)
  BY DEF ModelLives, AwaitingAnswer
<1>2. /\ ModelUnasked(record.trace, n) => ModelUnasked(record'.trace, n)
      /\ ModelEnded(record.trace, n) => ModelEnded(record'.trace, n)
  BY DEF ModelQuiet, ModelStays
<1>4. n = run'.attempts \/ n > run'.attempts => n > run.attempts
  <2>1. n = run.attempts + 1 \/ n > run.attempts + 1 => n > run.attempts
    BY <1>0, NatOrder
  <2>2. run'.attempts = run.attempts + 1
    OBVIOUS
  <2> QED BY <2>1, <2>2, Zenon
<1> QED BY <1>1, <1>2, <1>4 DEF AwaitingAnswer

LEMMA NumberAfter ==
    ASSUME NEW k, k \in Nat, NEW n, n \in Nat, n = k + 1
    PROVE  /\ n # 0 /\ ~(n > k + 1) /\ n # k /\ n \notin 1..k /\ n # k + 1 + 1
           /\ ~(n > k + 1 + 1)
  OBVIOUS

LEMMA NumberBefore ==
    ASSUME NEW k, k \in Nat, NEW n, n \in Nat
    PROVE  /\ n > k + 1 + 1 \/ n = k + 1 + 1 => n > k + 1
           /\ n = k + 1 => n # 0
           /\ n # k + 1 \/ n < k + 1 => (n \in 1..(k + 1) => n \in 1..k)
  OBVIOUS

LEMMA NumberLast ==
    ASSUME NEW k, k \in Nat, k # 0, NEW n, n \in Nat
    PROVE  /\ n # k => (n \in 1..k => n < k)
           /\ n = k => n # 0 /\ ~(n > k + 1) /\ n # k + 1
  OBVIOUS

LEMMA CallNumbers ==
    ASSUME RecordTyped
    PROVE  /\ Len(run.calls) \in Nat /\ Len(run.calls) + 1 \in Nat
           /\ run.at \in Untold \cup {"finish tool"} => Len(run.calls) # 0
           /\ run.tool \in {""} \cup CallOutcomes
<1>1. run \in Runs_ /\ RunCounts
  BY DEF RecordTyped
<1>2. run.calls \in Seq(CallOutcomes) /\ Len(run.calls) \in Nat /\ run.tool \in {""} \cup CallOutcomes
  BY <1>1, RunFields
<1>3. run.calls # <<>> => Len(run.calls) # 0
  BY <1>2, EmptySeq
<1>4. Len(run.calls) + 1 \in Nat
  <2> DEFINE k == Len(run.calls)
  <2>1. k \in Nat
    BY <1>2
  <2> HIDE DEF k
  <2>2. k + 1 \in Nat
    BY <2>1
  <2> QED BY <2>2 DEF k
<1> QED BY <1>1, <1>2, <1>3, <1>4 DEF RunCounts

\* ToolLives says of a number.
ToolLife(t, at, tool, k, n) ==
    /\ n = 0 \/ n > k + 1 => ToolUnborn(t, n)
    /\ n = k + 1 => IF at = "run tool" THEN ToolOpen(t, n) ELSE ToolUnborn(t, n)
    /\ n = k /\ n # 0 =>
          /\ at \in Untold => ToolOpen(t, n)
          /\ at = "finish tool" => ToolExecuted(t, n, tool)
    /\ n \in 1..k /\ (n < k \/ at \notin Untold) => ToolClosed(t, n)

LEMMA ToolLivesSay ==
    /\ ToolLives => \A n \in Numbers : ToolLife(record.trace, run.at, run.tool, Len(run.calls), n)
    /\ (\A n \in Numbers : ToolLife(record'.trace, run'.at, run'.tool, Len(run'.calls), n))
       => ToolLives'
  BY DEF ToolLives, ToolLife

LEMMA ExecutedIsClosed ==
    ASSUME NEW t, NEW n, NEW status, ToolExecuted(t, n, status)
    PROVE  ToolClosed(t, n)
  BY DEF ToolExecuted, ToolClosed

\* How the life of one number goes on.
LEMMA LifeStays ==
    ASSUME NEW t, NEW l, NEW at, NEW next, NEW tool \in {""} \cup CallOutcomes, NEW k, NEW n,
           ToolLife(t, at, tool, k, n), ToolStays(t, l, n),
           next = "run tool" <=> at = "run tool", next \in Untold <=> at \in Untold, next # "finish tool"
    PROVE  ToolLife(l, next, tool, k, n)
  BY DEF ToolLife, ToolStays

LEMMA ToolsGoOn ==
    ASSUME RecordTyped, ToolLives, run'.calls = run.calls, run'.tool = run.tool, ToolQuiet, ToolPlaces
    PROVE  ToolLives'
<1>1. ASSUME NEW n \in Numbers
      PROVE  ToolLife(record'.trace, run'.at, run.tool, Len(run.calls), n)
  <2>1. /\ ToolLife(record.trace, run.at, run.tool, Len(run.calls), n)
        /\ ToolStays(record.trace, record'.trace, n)
    BY ToolLivesSay DEF ToolQuiet
  <2>2. run.tool \in {""} \cup CallOutcomes
    BY CallNumbers
  <2> QED BY <2>1, <2>2, LifeStays DEF ToolPlaces
<1> QED BY <1>1, ToolLivesSay

\* A call is started, comes back, is tells, and finished.
LEMMA ToolStartedLives ==
    ASSUME RecordTyped, ToolLives, run'.calls = run.calls, run'.tool = run.tool,
           run.at = "open tool", run'.at = "run tool",
           \A n \in Numbers : n # Len(run.calls) + 1 => ToolStays(record.trace, record'.trace, n),
           ToolUnborn(record.trace, Len(run.calls) + 1) => ToolOpen(record'.trace, Len(run.calls) + 1)
    PROVE  ToolLives'
<1> DEFINE k == Len(run.calls)
<1>0. k \in Nat
  BY CallNumbers
<1>1. ASSUME NEW n \in Numbers
      PROVE  ToolLife(record'.trace, "run tool", run.tool, k, n)
  <2>1. ToolLife(record.trace, "open tool", run.tool, k, n) /\ n \in Nat
    BY ToolLivesSay, NumbersNat
  <2>2. n # k + 1 => ToolStays(record.trace, record'.trace, n)
    OBVIOUS
  <2>3. ToolUnborn(record.trace, k + 1) => ToolOpen(record'.trace, k + 1)
    OBVIOUS
  <2> HIDE DEF k
  <2>4. CASE n = k + 1
    <3>1. ToolOpen(record'.trace, n)
      BY <2>1, <2>3, <2>4 DEF ToolLife
    <3>2. n # 0 /\ ~(n > k + 1) /\ n # k /\ n \notin 1..k
      BY <1>0, <2>1, <2>4, NumberAfter
    <3> QED BY <3>1, <3>2 DEF ToolLife
  <2>5. CASE n # k + 1
    BY <2>1, <2>2, <2>5 DEF ToolLife, ToolStays, Untold
  <2> QED BY <2>4, <2>5
<1> QED BY <1>1, ToolLivesSay

LEMMA ToolBackLives ==
    ASSUME RecordTyped, ToolLives, run.at = "run tool", run'.at = "prepare result", ToolQuiet,
           Len(run'.calls) = Len(run.calls) + 1
    PROVE  ToolLives'
<1> DEFINE k == Len(run.calls)
<1>0. k \in Nat
  BY CallNumbers
<1>1. ASSUME NEW n \in Numbers
      PROVE  ToolLife(record'.trace, "prepare result", run'.tool, k + 1, n)
  <2>1. ToolLife(record.trace, "run tool", run.tool, k, n) /\ ToolStays(record.trace, record'.trace, n)
    BY ToolLivesSay DEF ToolQuiet
  <2>2. n \in Nat
    BY NumbersNat
  <2> HIDE DEF k
  <2>3. /\ n > k + 1 + 1 \/ n = k + 1 + 1 => n > k + 1
        /\ n = k + 1 => n # 0
        /\ n \in 1..(k + 1) /\ n < k + 1 => n \in 1..k
    BY <1>0, <2>2, NumberBefore
  <2> QED BY <2>1, <2>3 DEF ToolLife, ToolStays, Untold
<1> QED BY <1>1, ToolLivesSay

LEMMA ToolInterruptedLives ==
    ASSUME RecordTyped, ToolLives, run.at = "run tool", run'.at = "terminal message",
           Len(run'.calls) = Len(run.calls) + 1,
           \A n \in Numbers : n # Len(run.calls) + 1 => ToolStays(record.trace, record'.trace, n),
           ToolOpen(record.trace, Len(run.calls) + 1) => ToolClosed(record'.trace, Len(run.calls) + 1)
    PROVE  ToolLives'
<1> DEFINE k == Len(run.calls)
<1>0. k \in Nat
  BY CallNumbers
<1>1. ASSUME NEW n \in Numbers
      PROVE  ToolLife(record'.trace, "terminal message", run'.tool, k + 1, n)
  <2>1. ToolLife(record.trace, "run tool", run.tool, k, n) /\ n \in Nat
    BY ToolLivesSay, NumbersNat
  <2>2. n # k + 1 => ToolStays(record.trace, record'.trace, n)
    OBVIOUS
  <2>3. ToolOpen(record.trace, k + 1) => ToolClosed(record'.trace, k + 1)
    OBVIOUS
  <2> HIDE DEF k
  <2>4. CASE n = k + 1
    <3>1. ToolClosed(record'.trace, n)
      BY <2>1, <2>3, <2>4 DEF ToolLife
    <3>2. n # 0 /\ ~(n > k + 1 + 1) /\ n # k + 1 + 1
      BY <1>0, <2>1, <2>4, NumberAfter
    <3> QED BY <3>1, <3>2 DEF ToolLife, Untold
  <2>5. CASE n # k + 1
    <3>1. /\ n > k + 1 + 1 \/ n = k + 1 + 1 => n > k + 1
          /\ n \in 1..(k + 1) => n \in 1..k
      BY <1>0, <2>1, <2>5, NumberBefore
    <3> QED BY <2>1, <2>2, <2>5, <3>1 DEF ToolLife, ToolStays, Untold
  <2> QED BY <2>4, <2>5
<1> QED BY <1>1, ToolLivesSay

LEMMA ToolToldLives ==
    ASSUME RecordTyped, ToolLives, run'.calls = run.calls, run'.tool = run.tool,
           run.at = "close tool", run'.at = "finish tool",
           \A n \in Numbers : n # Len(run.calls) => ToolStays(record.trace, record'.trace, n),
           ToolOpen(record.trace, Len(run.calls)) => ToolExecuted(record'.trace, Len(run.calls), run.tool)
    PROVE  ToolLives'
<1> DEFINE k == Len(run.calls)
<1>0. k \in Nat /\ k # 0
  BY CallNumbers DEF Untold
<1>1. ASSUME NEW n \in Numbers
      PROVE  ToolLife(record'.trace, "finish tool", run.tool, k, n)
  <2>1. ToolLife(record.trace, "close tool", run.tool, k, n) /\ n \in Nat
    BY ToolLivesSay, NumbersNat
  <2>2. n # k => ToolStays(record.trace, record'.trace, n)
    OBVIOUS
  <2>3. ToolOpen(record.trace, k) => ToolExecuted(record'.trace, k, run.tool)
    OBVIOUS
  <2> HIDE DEF k
  <2>4. CASE n = k
    <3>1. ToolExecuted(record'.trace, n, run.tool)
      BY <1>0, <2>1, <2>3, <2>4 DEF ToolLife, Untold
    <3>2. ToolClosed(record'.trace, n)
      BY <3>1, ExecutedIsClosed
    <3>3. n # 0 /\ ~(n > k + 1) /\ n # k + 1
      BY <1>0, <2>1, <2>4, NumberLast
    <3> QED BY <3>1, <3>2, <3>3 DEF ToolLife, Untold
  <2>5. CASE n # k
    <3>1. n \in 1..k => n < k
      BY <1>0, <2>1, <2>5, NumberLast
    <3> QED BY <2>1, <2>2, <2>5, <3>1 DEF ToolLife, ToolStays, Untold
  <2> QED BY <2>4, <2>5
<1> QED BY <1>1, ToolLivesSay

LEMMA ToolFinishedLives ==
    ASSUME RecordTyped, ToolLives, run'.calls = run.calls, run'.tool = run.tool,
           run.at = "finish tool", run'.at \in {"attempt", "commit"},
           \A n \in Numbers : n # Len(run.calls) => ToolStays(record.trace, record'.trace, n),
           ToolExecuted(record.trace, Len(run.calls), run.tool) => ToolClosed(record'.trace, Len(run.calls))
    PROVE  ToolLives'
<1> DEFINE k == Len(run.calls)
<1>0. k \in Nat /\ k # 0
  BY CallNumbers
<1>1. ASSUME NEW n \in Numbers
      PROVE  ToolLife(record'.trace, run'.at, run.tool, k, n)
  <2>1. ToolLife(record.trace, "finish tool", run.tool, k, n) /\ n \in Nat
    BY ToolLivesSay, NumbersNat
  <2>2. n # k => ToolStays(record.trace, record'.trace, n)
    OBVIOUS
  <2>3. ToolExecuted(record.trace, k, run.tool) => ToolClosed(record'.trace, k)
    OBVIOUS
  <2> HIDE DEF k
  <2>4. CASE n = k
    <3>1. ToolClosed(record'.trace, n)
      BY <1>0, <2>1, <2>3, <2>4 DEF ToolLife
    <3>3. n # 0 /\ ~(n > k + 1) /\ n # k + 1
      BY <1>0, <2>1, <2>4, NumberLast
    <3> QED BY <3>1, <3>3 DEF ToolLife, Untold
  <2>5. CASE n # k
    BY <2>1, <2>2, <2>5 DEF ToolLife, ToolStays, Untold
  <2> QED BY <2>4, <2>5
<1> QED BY <1>1, ToolLivesSay

-----------------------------------------------------------------------------
(* RunRecord: what each step does to the lives *)

LEMMA CountingZero ==
    ASSUME Counting(run, run'), run'.errors = 0
    PROVE  run.errors = 0
<1>1. run.errors \in Nat /\ run'.errors \in {run.errors, run.errors + 1}
  BY DEF Counting
<1>2. \A n \in Nat : n + 1 # 0
  OBVIOUS
<1> QED BY <1>1, <1>2

LEMMA OrderlyBefore ==
    ASSUME RecordTyped, RecordNext, Orderly'
    PROVE  Orderly
<1>1. run'.at # "dead" /\ run'.errors = 0 /\ ~history'.cut /\ ~history'.swallowed
  BY DEF Orderly
<1> SUFFICES run.at # "dead" /\ run.errors = 0 /\ ~history.cut /\ ~history.swallowed
  BY DEF Orderly
<1>2. CASE StartRun
  BY <1>1, <1>2, StartRunDoes DEF Kept, Settled, Ending, SameCall, TaskWritten, FilesKept, HistoryCut, StopsFor
<1>3. CASE CompactFirst
  BY <1>1, <1>3, CompactFirstDoes DEF Kept, Settled, Ending, SameCall, TaskWritten, FilesKept, HistoryCut, StopsFor
<1>4. CASE EndLoop
  BY <1>1, <1>4, EndLoopDoes DEF Kept, Settled, Ending, SameCall, TaskWritten, FilesKept, HistoryCut, StopsFor
<1>5. CASE CountAttempt
  BY <1>1, <1>5, CountAttemptDoes DEF Kept, Settled, Ending, SameCall, TaskWritten, FilesKept, HistoryCut, StopsFor
<1>6. CASE TraceRequest
  BY <1>1, <1>6, TraceRequestDoes DEF Kept, Settled, Ending, SameCall, TaskWritten, FilesKept, HistoryCut, StopsFor
<1>7. CASE CheckSession
  BY <1>1, <1>7, CheckSessionDoes DEF Kept, Settled, Ending, SameCall, TaskWritten, FilesKept, HistoryCut, StopsFor
<1>8. CASE ModelFails
  BY <1>1, <1>8, ModelFailsDoes DEF Kept, Settled, Ending, SameCall, TaskWritten, FilesKept, HistoryCut, StopsFor
<1>9. CASE ModelAnswers
  BY <1>1, <1>9, ModelAnswersDoes DEF Kept, Settled, Ending, SameCall, TaskWritten, FilesKept, HistoryCut, StopsFor
<1>10. CASE TraceAnswer
  BY <1>1, <1>10, TraceAnswerDoes DEF Kept, Settled, Ending, SameCall, TaskWritten, FilesKept, HistoryCut, StopsFor
<1>11. CASE TraceFailure
  BY <1>1, <1>11, TraceFailureDoes DEF Kept, Settled, Ending, SameCall, TaskWritten, FilesKept, HistoryCut, StopsFor
<1>12. CASE Act
  BY <1>1, <1>12, ActDoes DEF Kept, Settled, Ending, SameCall, TaskWritten, FilesKept, HistoryCut, StopsFor
<1>13. CASE CommitLast
  BY <1>1, <1>13, CommitLastDoes DEF Kept, Settled, Ending, SameCall, TaskWritten, FilesKept, HistoryCut, StopsFor
<1>14. CASE OpenTool
  BY <1>1, <1>14, OpenToolDoes DEF Kept, Settled, Ending, SameCall, TaskWritten, FilesKept, HistoryCut, StopsFor
<1>15. CASE RunTool
  BY <1>1, <1>15, RunToolDoes DEF Kept, Settled, Ending, SameCall, TaskWritten, FilesKept, HistoryCut, StopsFor, CallCounted
<1>16. CASE InterruptTool
  BY <1>1, <1>16, InterruptToolDoes DEF Kept, Settled, Ending, SameCall, TaskWritten, FilesKept, HistoryCut, StopsFor, CallCounted
<1>17. CASE PrepareResult
  BY <1>1, <1>17, PrepareResultDoes DEF Kept, Settled, Ending, SameCall, TaskWritten, FilesKept, HistoryCut, StopsFor
<1>18. CASE CommitTool
  BY <1>1, <1>18, CommitToolDoes DEF Kept, Settled, Ending, SameCall, TaskWritten, FilesKept, HistoryCut, StopsFor
<1>19. CASE CloseTool
  BY <1>1, <1>19, CloseToolDoes DEF Kept, Settled, Ending, SameCall, TaskWritten, FilesKept, HistoryCut, StopsFor
<1>20. CASE FinishTool
  BY <1>1, <1>20, FinishToolDoes DEF Kept, Settled, Ending, SameCall, TaskWritten, FilesKept, HistoryCut, StopsFor
<1>21. CASE WriteFails
  BY <1>1, <1>21, WriteFailsDoes DEF Kept, Settled, Ending, SameCall, TaskWritten, FilesKept, HistoryCut, StopsFor
<1>22. CASE InterruptBetween
  BY <1>1, <1>22, InterruptBetweenDoes DEF Kept, Settled, Ending, SameCall, TaskWritten, FilesKept, HistoryCut, StopsFor, EndPlaces
<1>23. CASE CommitTerminalMessage
  BY <1>1, <1>23, CommitTerminalMessageDoes, CountingZero DEF Kept, Settled, Ending, SameCall, TaskWritten, FilesKept, HistoryCut, StopsFor
<1>24. CASE WriteLastState
  BY <1>1, <1>24, WriteLastStateDoes, CountingZero DEF Kept, Settled, Ending, SameCall, TaskWritten, FilesKept, HistoryCut, StopsFor
<1>25. CASE WriteCheckpoint
  BY <1>1, <1>25, WriteCheckpointDoes DEF Kept, Settled, Ending, SameCall, TaskWritten, FilesKept, HistoryCut, StopsFor
<1>26. CASE TraceRunFinished
  BY <1>1, <1>26, TraceRunFinishedDoes, CountingZero DEF Kept, Settled, Ending, SameCall, TaskWritten, FilesKept, HistoryCut, StopsFor
<1>27. CASE WriteReport
  BY <1>1, <1>27, WriteReportDoes, CountingZero DEF Kept, Settled, Ending, SameCall, TaskWritten, FilesKept, HistoryCut, StopsFor
<1>28. CASE CrashRun
  BY <1>1, <1>28, CrashRunDoes DEF Kept, Settled, Ending, SameCall, TaskWritten, FilesKept, HistoryCut, StopsFor
<1> QED BY <1>2, <1>3, <1>4, <1>5, <1>6, <1>7, <1>8, <1>9, <1>10, <1>11, <1>12, <1>13, <1>14, <1>15, <1>16, <1>17, <1>18, <1>19, <1>20, <1>21, <1>22, <1>23, <1>24, <1>25, <1>26, <1>27, <1>28 DEF RecordNext

TaskPlaces == {"checkpoint", "run finished", "report", "done"}
TaskStep ==
    \/ run'.errors # 0 \/ run'.at \notin TaskPlaces
    \/ /\ record'.task = TaskState
       /\ run'.reason = run.reason /\ run'.status = run.status /\ run'.attempts = run.attempts
    \/ /\ run.at \in TaskPlaces /\ record'.task = record.task
       /\ run'.reason = run.reason /\ run'.status = run.status /\ run'.attempts = run.attempts

LEMMA TaskStepTaken ==
    ASSUME RecordTyped, RecordNext
    PROVE  TaskStep
<1>1. CASE StartRun
  BY <1>1, StartRunDoes DEF TaskStep, TaskPlaces, Kept, Settled, Ending, SameCall, TaskWritten, FilesKept, HistoryCut, StopsFor
<1>2. CASE CompactFirst
  BY <1>2, CompactFirstDoes DEF TaskStep, TaskPlaces, Kept, Settled, Ending, SameCall, TaskWritten, FilesKept, HistoryCut, StopsFor
<1>3. CASE EndLoop
  BY <1>3, EndLoopDoes DEF TaskStep, TaskPlaces, Kept, Settled, Ending, SameCall, TaskWritten, FilesKept, HistoryCut, StopsFor
<1>4. CASE CountAttempt
  BY <1>4, CountAttemptDoes DEF TaskStep, TaskPlaces, Kept, Settled, Ending, SameCall, TaskWritten, FilesKept, HistoryCut, StopsFor
<1>5. CASE TraceRequest
  BY <1>5, TraceRequestDoes DEF TaskStep, TaskPlaces, Kept, Settled, Ending, SameCall, TaskWritten, FilesKept, HistoryCut, StopsFor
<1>6. CASE CheckSession
  BY <1>6, CheckSessionDoes DEF TaskStep, TaskPlaces, Kept, Settled, Ending, SameCall, TaskWritten, FilesKept, HistoryCut, StopsFor
<1>7. CASE ModelFails
  BY <1>7, ModelFailsDoes DEF TaskStep, TaskPlaces, Kept, Settled, Ending, SameCall, TaskWritten, FilesKept, HistoryCut, StopsFor
<1>8. CASE ModelAnswers
  BY <1>8, ModelAnswersDoes DEF TaskStep, TaskPlaces, Kept, Settled, Ending, SameCall, TaskWritten, FilesKept, HistoryCut, StopsFor
<1>9. CASE TraceAnswer
  BY <1>9, TraceAnswerDoes DEF TaskStep, TaskPlaces, Kept, Settled, Ending, SameCall, TaskWritten, FilesKept, HistoryCut, StopsFor
<1>10. CASE TraceFailure
  BY <1>10, TraceFailureDoes DEF TaskStep, TaskPlaces, Kept, Settled, Ending, SameCall, TaskWritten, FilesKept, HistoryCut, StopsFor
<1>11. CASE Act
  BY <1>11, ActDoes DEF TaskStep, TaskPlaces, Kept, Settled, Ending, SameCall, TaskWritten, FilesKept, HistoryCut, StopsFor
<1>12. CASE CommitLast
  BY <1>12, CommitLastDoes DEF TaskStep, TaskPlaces, Kept, Settled, Ending, SameCall, TaskWritten, FilesKept, HistoryCut, StopsFor
<1>13. CASE OpenTool
  BY <1>13, OpenToolDoes DEF TaskStep, TaskPlaces, Kept, Settled, Ending, SameCall, TaskWritten, FilesKept, HistoryCut, StopsFor
<1>14. CASE RunTool
  BY <1>14, RunToolDoes DEF TaskStep, TaskPlaces, Kept, Settled, Ending, SameCall, TaskWritten, FilesKept, HistoryCut, StopsFor
<1>15. CASE InterruptTool
  BY <1>15, InterruptToolDoes DEF TaskStep, TaskPlaces, Kept, Settled, Ending, SameCall, TaskWritten, FilesKept, HistoryCut, StopsFor
<1>16. CASE PrepareResult
  BY <1>16, PrepareResultDoes DEF TaskStep, TaskPlaces, Kept, Settled, Ending, SameCall, TaskWritten, FilesKept, HistoryCut, StopsFor
<1>17. CASE CommitTool
  BY <1>17, CommitToolDoes DEF TaskStep, TaskPlaces, Kept, Settled, Ending, SameCall, TaskWritten, FilesKept, HistoryCut, StopsFor
<1>18. CASE CloseTool
  BY <1>18, CloseToolDoes DEF TaskStep, TaskPlaces, Kept, Settled, Ending, SameCall, TaskWritten, FilesKept, HistoryCut, StopsFor
<1>19. CASE FinishTool
  BY <1>19, FinishToolDoes DEF TaskStep, TaskPlaces, Kept, Settled, Ending, SameCall, TaskWritten, FilesKept, HistoryCut, StopsFor
<1>20. CASE WriteFails
  BY <1>20, WriteFailsDoes DEF TaskStep, TaskPlaces, Kept, Settled, Ending, SameCall, TaskWritten, FilesKept, HistoryCut, StopsFor
<1>21. CASE InterruptBetween
  BY <1>21, InterruptBetweenDoes DEF TaskStep, TaskPlaces, Kept, Settled, Ending, SameCall, TaskWritten, FilesKept, HistoryCut, StopsFor, EndPlaces
<1>22. CASE CommitTerminalMessage
  BY <1>22, CommitTerminalMessageDoes DEF TaskStep, TaskPlaces, Kept, Settled, Ending, SameCall, TaskWritten, FilesKept, HistoryCut, StopsFor
<1>23. CASE WriteLastState
  <2>1. run'.errors = run.errors \/ run'.errors # 0
    BY <1>23, WriteLastStateDoes, CountingZero
  <2> QED BY <1>23, <2>1, WriteLastStateDoes DEF TaskStep, Ending
<1>24. CASE WriteCheckpoint
  BY <1>24, WriteCheckpointDoes DEF TaskStep, TaskPlaces, Kept, Settled, Ending, SameCall, TaskWritten, FilesKept, HistoryCut, StopsFor
<1>25. CASE TraceRunFinished
  BY <1>25, TraceRunFinishedDoes DEF TaskStep, TaskPlaces, Kept, Settled, Ending, SameCall, TaskWritten, FilesKept, HistoryCut, StopsFor
<1>26. CASE WriteReport
  BY <1>26, WriteReportDoes DEF TaskStep, TaskPlaces, Kept, Settled, Ending, SameCall, TaskWritten, FilesKept, HistoryCut, StopsFor
<1>27. CASE CrashRun
  BY <1>27, CrashRunDoes DEF TaskStep, TaskPlaces, Kept, Settled, Ending, SameCall, TaskWritten, FilesKept, HistoryCut, StopsFor
<1> QED BY <1>1, <1>2, <1>3, <1>4, <1>5, <1>6, <1>7, <1>8, <1>9, <1>10, <1>11, <1>12, <1>13, <1>14, <1>15, <1>16, <1>17, <1>18, <1>19, <1>20, <1>21, <1>22, <1>23, <1>24, <1>25, <1>26, <1>27 DEF RecordNext

LEMMA TaskToldNext ==
    ASSUME RecordTyped, RecordNext, TaskTold, run'.errors = 0
    PROVE  TaskTold'
<1>1. TaskStep
  BY TaskStepTaken
<1> QED BY <1>1 DEF TaskStep, TaskPlaces, TaskTold, TaskState

\* Steps that write nothing to the trace.
CallKept(r, s) ==
    s.stream = r.stream /\ s.attempts = r.attempts /\ s.calls = r.calls /\ s.tool = r.tool

LEMMA QuietLives ==
    ASSUME RecordTyped, Lives, record'.trace = record.trace, CallKept(run, run'),
           ModelPlaces, ToolPlaces, EndPlacesKept
    PROVE  Lives'
<1>1. /\ NotTorn(record.trace) /\ RunFinishes /\ ModelLives /\ ToolLives
      /\ run'.stream = run.stream /\ run'.attempts = run.attempts /\ run'.calls = run.calls
      /\ run'.tool = run.tool
  BY DEF Lives, CallKept
<1>2. ModelQuiet /\ ToolQuiet /\ NotTorn(record'.trace)
  BY <1>1, QuietTrace
<1>3. ModelLives' /\ ToolLives'
  BY <1>1, <1>2, ModelsGoOn, ToolsGoOn
<1>4. RunFinishes'
  BY <1>1 DEF RunFinishes, EndPlacesKept
<1> QED BY <1>2, <1>3, <1>4 DEF Lives

LEMMA CountedLives ==
    ASSUME RecordTyped, Lives, record'.trace = record.trace, run'.stream = run.stream,
           run'.attempts = run.attempts + 1, run'.calls = run.calls, run'.tool = run.tool,
           run.at = "attempt", run'.at \in {"attempt", "request", "terminal message"}
    PROVE  Lives'
<1>1. NotTorn(record.trace) /\ RunFinishes /\ ModelLives /\ ToolLives
  BY DEF Lives
<1>2. ModelQuiet /\ ToolQuiet /\ NotTorn(record'.trace)
  BY <1>1, QuietTrace
<1>3. ToolPlaces
  BY DEF ToolPlaces, Untold
<1>4. ModelLives' /\ ToolLives'
  BY <1>1, <1>2, <1>3, ModelCounted, ToolsGoOn
<1>5. RunFinishes'
  BY <1>1 DEF RunFinishes
<1> QED BY <1>2, <1>4, <1>5 DEF Lives

QuietSteps ==
    \/ StartRun \/ EndLoop \/ CheckSession \/ ModelFails \/ ModelAnswers \/ Act
    \/ CommitLast \/ PrepareResult \/ CommitTool \/ CommitTerminalMessage \/ WriteLastState \/ WriteCheckpoint

LEMMA QuietStepsLive ==
    ASSUME RecordTyped, Lives, Orderly', QuietSteps
    PROVE  Lives'
<1>0. ~history'.cut
  BY DEF Orderly
<1>1. CASE StartRun
  <2>1. record'.trace = record.trace /\ CallKept(run, run')
    BY <1>1, StartRunDoes DEF CallKept, Kept, Settled, Ending, SameCall, TaskWritten, FilesKept, HistoryCut, StopsFor
  <2>2. ModelPlaces
    BY <1>0, <1>1, StartRunDoes DEF ModelPlaces, AwaitingAnswer, Kept, Settled, Ending, SameCall, TaskWritten, FilesKept, HistoryCut, StopsFor
  <2>3. ToolPlaces /\ EndPlacesKept
    BY <1>0, <1>1, StartRunDoes DEF ToolPlaces, EndPlacesKept, Untold, Kept, Settled, Ending, SameCall, TaskWritten, FilesKept, HistoryCut, StopsFor
  <2> QED BY <2>1, <2>2, <2>3, QuietLives
<1>2. CASE EndLoop
  <2>1. record'.trace = record.trace /\ CallKept(run, run')
    BY <1>2, EndLoopDoes DEF CallKept, Kept, Settled, Ending, SameCall, TaskWritten, FilesKept, HistoryCut, StopsFor
  <2>2. ModelPlaces
    BY <1>0, <1>2, EndLoopDoes DEF ModelPlaces, AwaitingAnswer, Kept, Settled, Ending, SameCall, TaskWritten, FilesKept, HistoryCut, StopsFor
  <2>3. ToolPlaces /\ EndPlacesKept
    BY <1>0, <1>2, EndLoopDoes DEF ToolPlaces, EndPlacesKept, Untold, Kept, Settled, Ending, SameCall, TaskWritten, FilesKept, HistoryCut, StopsFor
  <2> QED BY <2>1, <2>2, <2>3, QuietLives
<1>3. CASE CheckSession
  <2>1. record'.trace = record.trace /\ CallKept(run, run')
    BY <1>3, CheckSessionDoes DEF CallKept, Kept, Settled, Ending, SameCall, TaskWritten, FilesKept, HistoryCut, StopsFor
  <2>2. ModelPlaces
    BY <1>0, <1>3, CheckSessionDoes DEF ModelPlaces, AwaitingAnswer, Kept, Settled, Ending, SameCall, TaskWritten, FilesKept, HistoryCut, StopsFor
  <2>3. ToolPlaces /\ EndPlacesKept
    BY <1>0, <1>3, CheckSessionDoes DEF ToolPlaces, EndPlacesKept, Untold, Kept, Settled, Ending, SameCall, TaskWritten, FilesKept, HistoryCut, StopsFor
  <2> QED BY <2>1, <2>2, <2>3, QuietLives
<1>4. CASE ModelFails
  <2>1. record'.trace = record.trace /\ CallKept(run, run')
    BY <1>4, ModelFailsDoes DEF CallKept, Kept, Settled, Ending, SameCall, TaskWritten, FilesKept, HistoryCut, StopsFor
  <2>2. ModelPlaces
    BY <1>0, <1>4, ModelFailsDoes DEF ModelPlaces, AwaitingAnswer, Kept, Settled, Ending, SameCall, TaskWritten, FilesKept, HistoryCut, StopsFor
  <2>3. ToolPlaces /\ EndPlacesKept
    BY <1>0, <1>4, ModelFailsDoes DEF ToolPlaces, EndPlacesKept, Untold, Kept, Settled, Ending, SameCall, TaskWritten, FilesKept, HistoryCut, StopsFor
  <2> QED BY <2>1, <2>2, <2>3, QuietLives
<1>5. CASE ModelAnswers
  <2>1. record'.trace = record.trace /\ CallKept(run, run')
    BY <1>5, ModelAnswersDoes DEF CallKept, Kept, Settled, Ending, SameCall, TaskWritten, FilesKept, HistoryCut, StopsFor
  <2>2. ModelPlaces
    BY <1>0, <1>5, ModelAnswersDoes DEF ModelPlaces, AwaitingAnswer, Kept, Settled, Ending, SameCall, TaskWritten, FilesKept, HistoryCut, StopsFor
  <2>3. ToolPlaces /\ EndPlacesKept
    BY <1>0, <1>5, ModelAnswersDoes DEF ToolPlaces, EndPlacesKept, Untold, Kept, Settled, Ending, SameCall, TaskWritten, FilesKept, HistoryCut, StopsFor
  <2> QED BY <2>1, <2>2, <2>3, QuietLives
<1>6. CASE Act
  <2>1. record'.trace = record.trace /\ CallKept(run, run')
    BY <1>6, ActDoes DEF CallKept, Kept, Settled, Ending, SameCall, TaskWritten, FilesKept, HistoryCut, StopsFor
  <2>2. ModelPlaces
    BY <1>0, <1>6, ActDoes DEF ModelPlaces, AwaitingAnswer, Kept, Settled, Ending, SameCall, TaskWritten, FilesKept, HistoryCut, StopsFor
  <2>3. ToolPlaces /\ EndPlacesKept
    BY <1>0, <1>6, ActDoes DEF ToolPlaces, EndPlacesKept, Untold, Kept, Settled, Ending, SameCall, TaskWritten, FilesKept, HistoryCut, StopsFor
  <2> QED BY <2>1, <2>2, <2>3, QuietLives
<1>7. CASE CommitLast
  <2>1. record'.trace = record.trace /\ CallKept(run, run')
    BY <1>7, CommitLastDoes DEF CallKept, Kept, Settled, Ending, SameCall, TaskWritten, FilesKept, HistoryCut, StopsFor
  <2>2. ModelPlaces
    BY <1>0, <1>7, CommitLastDoes DEF ModelPlaces, AwaitingAnswer, Kept, Settled, Ending, SameCall, TaskWritten, FilesKept, HistoryCut, StopsFor
  <2>3. ToolPlaces /\ EndPlacesKept
    BY <1>0, <1>7, CommitLastDoes DEF ToolPlaces, EndPlacesKept, Untold, Kept, Settled, Ending, SameCall, TaskWritten, FilesKept, HistoryCut, StopsFor
  <2> QED BY <2>1, <2>2, <2>3, QuietLives
<1>8. CASE PrepareResult
  <2>1. record'.trace = record.trace /\ CallKept(run, run')
    BY <1>8, PrepareResultDoes DEF CallKept, Kept, Settled, Ending, SameCall, TaskWritten, FilesKept, HistoryCut, StopsFor
  <2>2. ModelPlaces
    BY <1>0, <1>8, PrepareResultDoes DEF ModelPlaces, AwaitingAnswer, Kept, Settled, Ending, SameCall, TaskWritten, FilesKept, HistoryCut, StopsFor
  <2>3. ToolPlaces /\ EndPlacesKept
    BY <1>0, <1>8, PrepareResultDoes DEF ToolPlaces, EndPlacesKept, Untold, Kept, Settled, Ending, SameCall, TaskWritten, FilesKept, HistoryCut, StopsFor
  <2> QED BY <2>1, <2>2, <2>3, QuietLives
<1>9. CASE CommitTool
  <2>1. record'.trace = record.trace /\ CallKept(run, run')
    BY <1>9, CommitToolDoes DEF CallKept, Kept, Settled, Ending, SameCall, TaskWritten, FilesKept, HistoryCut, StopsFor
  <2>2. ModelPlaces
    BY <1>0, <1>9, CommitToolDoes DEF ModelPlaces, AwaitingAnswer, Kept, Settled, Ending, SameCall, TaskWritten, FilesKept, HistoryCut, StopsFor
  <2>3. ToolPlaces /\ EndPlacesKept
    BY <1>0, <1>9, CommitToolDoes DEF ToolPlaces, EndPlacesKept, Untold, Kept, Settled, Ending, SameCall, TaskWritten, FilesKept, HistoryCut, StopsFor
  <2> QED BY <2>1, <2>2, <2>3, QuietLives
<1>10. CASE CommitTerminalMessage
  <2>1. record'.trace = record.trace /\ CallKept(run, run')
    BY <1>10, CommitTerminalMessageDoes DEF CallKept, Kept, Settled, Ending, SameCall, TaskWritten, FilesKept, HistoryCut, StopsFor
  <2>2. ModelPlaces
    BY <1>0, <1>10, CommitTerminalMessageDoes DEF ModelPlaces, AwaitingAnswer, Kept, Settled, Ending, SameCall, TaskWritten, FilesKept, HistoryCut, StopsFor
  <2>3. ToolPlaces /\ EndPlacesKept
    BY <1>0, <1>10, CommitTerminalMessageDoes DEF ToolPlaces, EndPlacesKept, Untold, Kept, Settled, Ending, SameCall, TaskWritten, FilesKept, HistoryCut, StopsFor
  <2> QED BY <2>1, <2>2, <2>3, QuietLives
<1>11. CASE WriteLastState
  <2>1. record'.trace = record.trace /\ CallKept(run, run')
    BY <1>11, WriteLastStateDoes DEF CallKept, Kept, Settled, Ending, SameCall, TaskWritten, FilesKept, HistoryCut, StopsFor
  <2>2. ModelPlaces
    BY <1>0, <1>11, WriteLastStateDoes DEF ModelPlaces, AwaitingAnswer, Kept, Settled, Ending, SameCall, TaskWritten, FilesKept, HistoryCut, StopsFor
  <2>3. ToolPlaces /\ EndPlacesKept
    BY <1>0, <1>11, WriteLastStateDoes DEF ToolPlaces, EndPlacesKept, Untold, Kept, Settled, Ending, SameCall, TaskWritten, FilesKept, HistoryCut, StopsFor
  <2> QED BY <2>1, <2>2, <2>3, QuietLives
<1>12. CASE WriteCheckpoint
  <2>1. record'.trace = record.trace /\ CallKept(run, run')
    BY <1>12, WriteCheckpointDoes DEF CallKept, Kept, Settled, Ending, SameCall, TaskWritten, FilesKept, HistoryCut, StopsFor
  <2>2. ModelPlaces
    BY <1>0, <1>12, WriteCheckpointDoes DEF ModelPlaces, AwaitingAnswer, Kept, Settled, Ending, SameCall, TaskWritten, FilesKept, HistoryCut, StopsFor
  <2>3. ToolPlaces /\ EndPlacesKept
    BY <1>0, <1>12, WriteCheckpointDoes DEF ToolPlaces, EndPlacesKept, Untold, Kept, Settled, Ending, SameCall, TaskWritten, FilesKept, HistoryCut, StopsFor
  <2> QED BY <2>1, <2>2, <2>3, QuietLives
<1> QED BY <1>1, <1>2, <1>3, <1>4, <1>5, <1>6, <1>7, <1>8, <1>9, <1>10, <1>11, <1>12 DEF QuietSteps

\* Steps that write an entry of a streamed attempt.
LEMMA ModelLineLives ==
    ASSUME RecordTyped, Lives, NEW e, LongerBy(record.trace, e, record'.trace),
           e.event \in ModelKinds, e.of = run.attempts, run.stream, CallKept(run, run'),
           run.at \in {"request", "turn"} \cup AwaitingAnswer, ToolPlaces, EndPlacesKept,
           \/ run'.at = "guard" /\ ModelAsked(record'.trace, run.attempts)
           \/ run'.at = "turn" /\ ModelDecoded(record'.trace, run.attempts) /\ run'.committed
           \/ /\ run'.at \in {"checked", "attempt", "terminal message"}
              /\ ModelEnded(record'.trace, run.attempts)
    PROVE  Lives'
<1>1. /\ NotTorn(record.trace) /\ RunFinishes /\ ModelLives /\ ToolLives
      /\ run'.stream /\ run'.attempts = run.attempts /\ run'.calls = run.calls
      /\ run'.tool = run.tool
  BY DEF Lives, CallKept
<1>2. e.event \notin ToolKinds /\ e.event # "torn" /\ e.event # "run_finished"
  BY DEF ModelKinds, ToolKinds
<1>3. \A n \in Numbers : n # run.attempts => ModelStays(record.trace, record'.trace, n)
  BY ModelKept
<1>4. ToolQuiet
  BY <1>2, ToolKept DEF ToolQuiet
<1>5. ModelLives'
  BY <1>1, <1>3, ModelGoesOn
<1>6. ToolLives'
  BY <1>1, <1>4, ToolsGoOn
<1>7. NotTorn(record'.trace) /\ RunEnds(record'.trace) = RunEnds(record.trace)
  BY <1>1, <1>2, EndsMore
<1>8. RunFinishes'
  BY <1>1, <1>7 DEF RunFinishes, EndPlacesKept
<1> QED BY <1>5, <1>6, <1>7, <1>8 DEF Lives

LEMMA TraceRequestLives ==
    ASSUME RecordTyped, Lives, TraceRequest
    PROVE  Lives'
<1>1. /\ CallKept(run, run') /\ run.at = "request" /\ run'.at = "guard"
      /\ record'.trace = record.trace \o Line
  BY TraceRequestDoes DEF CallKept, Settled, Kept
<1>2. ToolPlaces /\ EndPlacesKept
  BY <1>1 DEF ToolPlaces, EndPlacesKept, Untold
<1>3. CASE run.stream
  <2> DEFINE e == [event |-> "model_requested", of |-> run.attempts, status |-> "", committed |-> FALSE]
  <2>1. Line = <<e>>
    BY <1>1, <1>3 DEF Line, ModelEvent
  <2>2. /\ e.event = "model_requested" /\ e.event \in ModelKinds /\ e.of = run.attempts
        /\ ~e.committed
    BY DEF ModelKinds
  <2> HIDE DEF e
  <2>3. LongerBy(record.trace, e, record'.trace)
    BY <1>1, <2>1, LineEntry
  <2>4. ModelUnasked(record.trace, run.attempts)
    BY <1>1, <1>3, NumbersTaken DEF Lives, ModelLives
  <2>5. ModelAsked(record'.trace, run.attempts)
    BY <2>2, <2>3, <2>4, AskedNow
  <2> QED BY <1>1, <1>2, <1>3, <2>2, <2>3, <2>5, ModelLineLives
<1>4. CASE ~run.stream
  <2>1. Line = <<>>
    BY <1>1, <1>4 DEF Line, ModelEvent
  <2>2. record'.trace = record.trace
    BY <1>1, <2>1, NoLineWritten
  <2> QED BY <1>1, <1>2, <1>4, <2>2, QuietLives DEF ModelPlaces
<1> QED BY <1>3, <1>4

LEMMA TraceAnswerLives ==
    ASSUME RecordTyped, Lives, TraceAnswer
    PROVE  Lives'
<1>1. /\ CallKept(run, run') /\ run.at \in {"decoded", "turn"}
      /\ run'.at = (IF run.at = "decoded" THEN "turn" ELSE "checked")
      /\ run'.committed = run.committed /\ record'.trace = record.trace \o Line
  BY TraceAnswerDoes DEF CallKept, Settled, Kept
<1>2. ToolPlaces /\ EndPlacesKept
  BY <1>1 DEF ToolPlaces, EndPlacesKept, Untold
<1>3. CASE run.stream
  <2> DEFINE kind == IF run.at = "decoded" THEN "action_decoded" ELSE "model_turn"
             e == [event |-> kind, of |-> run.attempts, status |-> "", committed |-> run.committed]
  <2>1. Line = <<e>>
    BY <1>1, <1>3 DEF Line, ModelEvent
  <2>2. /\ e.event = kind /\ e.event \in ModelKinds /\ e.of = run.attempts
        /\ e.committed = run.committed
    BY DEF ModelKinds
  <2> HIDE DEF e
  <2>3. LongerBy(record.trace, e, record'.trace)
    BY <1>1, <2>1, LineEntry
  <2>4. /\ run.committed
        /\ run.at = "decoded" => ModelAsked(record.trace, run.attempts)
        /\ run.at = "turn" => ModelDecoded(record.trace, run.attempts)
    BY <1>1, <1>3, NumbersTaken DEF Lives, ModelLives, AwaitingAnswer
  <2>5. CASE run.at = "decoded"
    <3>1. ModelDecoded(record'.trace, run.attempts)
      BY <2>2, <2>3, <2>4, <2>5, DecodedNow
    <3> QED BY <1>1, <1>2, <1>3, <2>2, <2>3, <2>4, <2>5, <3>1, ModelLineLives DEF AwaitingAnswer
  <2>6. CASE run.at = "turn"
    <3>1. ModelEnded(record'.trace, run.attempts)
      BY <2>2, <2>3, <2>4, <2>6, AnsweredNow
    <3> QED BY <1>1, <1>2, <1>3, <2>2, <2>3, <2>6, <3>1, ModelLineLives
  <2> QED BY <1>1, <2>5, <2>6
<1>4. CASE ~run.stream
  <2>1. Line = <<>>
    BY <1>1, <1>4 DEF Line, ModelEvent
  <2>2. record'.trace = record.trace
    BY <1>1, <2>1, NoLineWritten
  <2> QED BY <1>1, <1>2, <1>4, <2>2, QuietLives DEF ModelPlaces
<1> QED BY <1>3, <1>4

LEMMA TraceFailureLives ==
    ASSUME RecordTyped, Lives, Orderly', TraceFailure
    PROVE  Lives'
<1>1. /\ CallKept(run, run') /\ run.at = "model failed" /\ run'.at \in {"attempt", "terminal message"}
      /\ run.stream => record'.trace = record.trace \o Line
      /\ \/ record'.trace = record.trace
         \/ record'.trace = record.trace \o Line
         \/ Line # <<>>
  BY TraceFailureDoes DEF CallKept, Kept, Orderly
<1>2. ToolPlaces /\ EndPlacesKept
  BY <1>1 DEF ToolPlaces, EndPlacesKept, Untold
<1>3. CASE run.stream
  <2> DEFINE e == [event |-> "model_failed", of |-> run.attempts, status |-> "", committed |-> run.committed]
  <2>1. Line = <<e>>
    BY <1>1, <1>3 DEF Line, ModelEvent
  <2>2. e.event = "model_failed" /\ e.event \in ModelKinds /\ e.of = run.attempts
    BY DEF ModelKinds
  <2> HIDE DEF e
  <2>3. LongerBy(record.trace, e, record'.trace)
    BY <1>1, <1>3, <2>1, LineEntry
  <2>4. ModelAsked(record.trace, run.attempts)
    BY <1>1, <1>3, NumbersTaken DEF Lives, ModelLives, AwaitingAnswer
  <2>5. ModelEnded(record'.trace, run.attempts)
    BY <2>2, <2>3, <2>4, FailedNow
  <2> QED BY <1>1, <1>2, <1>3, <2>2, <2>3, <2>5, ModelLineLives DEF AwaitingAnswer
<1>4. CASE ~run.stream
  <2>1. Line = <<>>
    BY <1>1, <1>4 DEF Line, ModelEvent
  <2>2. record'.trace = record.trace
    BY <1>1, <2>1, NoLineWritten
  <2> QED BY <1>1, <1>2, <1>4, <2>2, QuietLives DEF ModelPlaces
<1> QED BY <1>3, <1>4

\* Steps that write an entry of a call.
LEMMA ToolLineLives ==
    ASSUME RecordTyped, Lives, NEW e, LongerBy(record.trace, e, record'.trace),
           e.event \in ToolKinds, run'.stream = run.stream, run'.attempts = run.attempts,
           ModelPlaces, EndPlacesKept, ToolLives'
    PROVE  Lives'
<1>1. NotTorn(record.trace) /\ RunFinishes /\ ModelLives
  BY DEF Lives
<1>2. e.event \notin ModelKinds /\ e.event # "torn" /\ e.event # "run_finished"
  BY DEF ModelKinds, ToolKinds
<1>3. ModelQuiet
  BY <1>2, ModelKept DEF ModelQuiet
<1>4. ModelLives'
  BY <1>1, <1>3, ModelsGoOn
<1>5. NotTorn(record'.trace) /\ RunEnds(record'.trace) = RunEnds(record.trace)
  BY <1>1, <1>2, EndsMore
<1>6. RunFinishes'
  BY <1>1, <1>5 DEF RunFinishes, EndPlacesKept
<1> QED BY <1>4, <1>5, <1>6 DEF Lives

LEMMA OpenToolLives ==
    ASSUME RecordTyped, Lives, OpenTool
    PROVE  Lives'
<1>1. /\ CallKept(run, run') /\ run.at = "open tool" /\ run'.at = "run tool"
      /\ record'.trace = record.trace \o Line
  BY OpenToolDoes DEF CallKept, Settled, Kept
<1>2. ModelPlaces /\ EndPlacesKept
  BY <1>1 DEF ModelPlaces, EndPlacesKept, AwaitingAnswer
<1> DEFINE k == Len(run.calls) + 1
           e == [event |-> "tool_started", of |-> k, status |-> "", committed |-> FALSE]
<1>3. Line = <<e>>
  BY <1>1 DEF Line, ToolEvent
<1>4. e.event = "tool_started" /\ e.event \in ToolKinds /\ e.of = k
  BY DEF ToolKinds
<1> HIDE DEF e
<1>5. LongerBy(record.trace, e, record'.trace)
  BY <1>1, <1>3, LineEntry
<1>6. \A n \in Numbers : n # k => ToolStays(record.trace, record'.trace, n)
  BY <1>4, <1>5, ToolKept
<1>7. ToolUnborn(record.trace, k) => ToolOpen(record'.trace, k)
  BY <1>4, <1>5, StartedNow
<1>8. ToolLives'
  BY <1>1, <1>6, <1>7, ToolStartedLives DEF Lives, CallKept
<1> QED BY <1>1, <1>2, <1>4, <1>5, <1>8, ToolLineLives DEF CallKept

LEMMA RunToolLives ==
    ASSUME RecordTyped, Lives, RunTool
    PROVE  Lives'
<1>1. /\ run.at = "run tool" /\ run'.at = "prepare result" /\ record'.trace = record.trace
      /\ run'.stream = run.stream /\ run'.attempts = run.attempts
      /\ Len(run'.calls) = Len(run.calls) + 1
  <2>1. PICK status \in {"ok", "error", "rejected"} : CallCounted(status)
    BY RunToolDoes
  <2>2. status \in CallOutcomes
    BY DEF CallOutcomes
  <2>3. Len(run'.calls) = Len(run.calls) + 1
    BY <2>1, <2>2, RunToolDoes, CallTyped
  <2> QED BY <2>1, <2>3, RunToolDoes DEF CallCounted
<1>2. NotTorn(record.trace) /\ RunFinishes /\ ModelLives /\ ToolLives
  BY DEF Lives
<1>3. ModelPlaces
  BY <1>1 DEF ModelPlaces, AwaitingAnswer
<1>4. ModelQuiet /\ ToolQuiet /\ NotTorn(record'.trace)
  BY <1>1, <1>2, QuietTrace
<1>5. ModelLives' /\ ToolLives'
  BY <1>1, <1>2, <1>3, <1>4, ModelsGoOn, ToolBackLives
<1>6. RunFinishes'
  BY <1>1, <1>2 DEF RunFinishes
<1> QED BY <1>4, <1>5, <1>6 DEF Lives

LEMMA InterruptToolLives ==
    ASSUME RecordTyped, Lives, Orderly', InterruptTool
    PROVE  Lives'
<1>1. run.at = "run tool" /\ run'.at = "terminal message"
  BY InterruptToolDoes
<1> DEFINE k == Len(run.calls) + 1
           e == Interrupted(k, "interrupted")
<1>2. CallCounted("interrupted") /\ e \in Entries /\ record'.trace = record.trace \o <<e>>
  <2>1. ~history'.cut
    BY DEF Orderly
  <2>2. PICK status \in {"interrupted", "ok"} :
            /\ CallCounted(status) /\ history'.cut = (history.cut \/ status = "ok")
            /\ Interrupted(Len(run.calls) + 1, status) \in Entries
            /\ record'.trace = record.trace \o <<Interrupted(Len(run.calls) + 1, status)>>
    BY <2>1, InterruptToolDoes DEF HistoryCut
  <2>3. status = "interrupted"
    BY <2>1, <2>2
  <2> QED BY <2>2, <2>3
<1>3. Len(run'.calls) = k /\ run'.stream = run.stream /\ run'.attempts = run.attempts
  <2>1. "interrupted" \in CallOutcomes /\ TypesKept
    BY InterruptToolDoes DEF CallOutcomes
  <2> QED BY <1>1, <1>2, <2>1, CallTyped DEF CallCounted
<1>4. /\ e.event = "tool_interrupted" /\ e.status = "interrupted" /\ e.of = k
      /\ e.event \in ToolKinds /\ e.event \in ToolEnds
  BY DEF ToolKinds, Interrupted, ToolEnds
<1> HIDE DEF e
<1>5. LongerBy(record.trace, e, record'.trace)
  <2>1. record.trace \in Seq(Entries)
    BY TypedFields DEF Records
  <2>2. LongerBy(record.trace, e, record.trace \o <<e>>)
    BY <1>2, <2>1, LongerByOne
  <2> QED BY <1>2, <2>2, Zenon
<1>6. \A n \in Numbers : n # k => ToolStays(record.trace, record'.trace, n)
  BY <1>4, <1>5, ToolKept
<1>7. ToolOpen(record.trace, k) => ToolClosed(record'.trace, k)
  BY <1>4, <1>5, EndedNow
<1>8. ToolLives'
  BY <1>1, <1>3, <1>6, <1>7, ToolInterruptedLives DEF Lives
<1>9. ModelPlaces /\ EndPlacesKept
  BY <1>1 DEF ModelPlaces, EndPlacesKept, AwaitingAnswer
<1> QED BY <1>3, <1>4, <1>5, <1>8, <1>9, ToolLineLives

LEMMA CloseToolLives ==
    ASSUME RecordTyped, Lives, CloseTool
    PROVE  Lives'
<1>1. /\ CallKept(run, run') /\ run.at = "close tool" /\ run'.at = "finish tool"
      /\ record'.trace = record.trace \o Line
  BY CloseToolDoes DEF CallKept, Settled, Kept
<1>2. ModelPlaces /\ EndPlacesKept
  BY <1>1 DEF ModelPlaces, EndPlacesKept, AwaitingAnswer
<1> DEFINE k == Len(run.calls)
           e == [event |-> "tool_executed", of |-> k, status |-> run.tool, committed |-> FALSE]
<1>3. Line = <<e>>
  BY <1>1 DEF Line, ToolEvent
<1>4. /\ e.event = "tool_executed" /\ e.event \in ToolKinds /\ e.of = k /\ e.event \in ToolEnds
      /\ e.status = run.tool
  BY DEF ToolKinds, ToolEnds
<1>5. run.tool \in CallOutcomes \ {"interrupted"}
  BY <1>1 DEF RecordTyped, RunCounts, Untold, CallOutcomes
<1> HIDE DEF e
<1>6. LongerBy(record.trace, e, record'.trace)
  BY <1>1, <1>3, LineEntry
<1>7. \A n \in Numbers : n # k => ToolStays(record.trace, record'.trace, n)
  BY <1>4, <1>6, ToolKept
<1>8. ToolOpen(record.trace, k) => ToolExecuted(record'.trace, k, run.tool)
  BY <1>4, <1>5, <1>6, EndedNow
<1>9. ToolLives'
  BY <1>1, <1>7, <1>8, ToolToldLives DEF Lives, CallKept
<1> QED BY <1>1, <1>2, <1>4, <1>6, <1>9, ToolLineLives DEF CallKept

LEMMA FinishToolLives ==
    ASSUME RecordTyped, Lives, FinishTool
    PROVE  Lives'
<1>1. /\ CallKept(run, run') /\ run.at = "finish tool" /\ run'.at \in {"attempt", "commit"}
      /\ record'.trace = record.trace \o Line
  BY FinishToolDoes DEF CallKept, Kept
<1>2. ModelPlaces /\ EndPlacesKept
  BY <1>1 DEF ModelPlaces, EndPlacesKept, AwaitingAnswer
<1> DEFINE k == Len(run.calls)
           e == [event |-> "tool_finished", of |-> k, status |-> run.tool, committed |-> FALSE]
<1>3. Line = <<e>>
  BY <1>1 DEF Line, ToolEvent
<1>4. e.event = "tool_finished" /\ e.event \in ToolKinds /\ e.of = k /\ e.status = run.tool
  BY DEF ToolKinds
<1> HIDE DEF e
<1>6. LongerBy(record.trace, e, record'.trace)
  BY <1>1, <1>3, LineEntry
<1>7. \A n \in Numbers : n # k => ToolStays(record.trace, record'.trace, n)
  BY <1>4, <1>6, ToolKept
<1>8. ToolExecuted(record.trace, k, run.tool) => ToolClosed(record'.trace, k)
  BY <1>4, <1>6, FinishedNow
<1>9. ToolLives'
  BY <1>1, <1>7, <1>8, ToolFinishedLives DEF Lives, CallKept
<1> QED BY <1>1, <1>2, <1>4, <1>6, <1>9, ToolLineLives DEF CallKept

\* The end of the run.
LEMMA TraceRunFinishedLives ==
    ASSUME RecordTyped, Lives, Orderly', TraceRunFinished
    PROVE  Lives'
<1>1. /\ CallKept(run, run') /\ run.at = "run finished" /\ run'.at = "report"
      /\ record'.trace = record.trace \o Line
  <2>1. run'.errors = run.errors
    BY TraceRunFinishedDoes, CountingZero DEF Orderly
  <2> QED BY <2>1, TraceRunFinishedDoes DEF CallKept, Ending
<1>2. ModelPlaces /\ ToolPlaces
  BY <1>1 DEF ModelPlaces, ToolPlaces, AwaitingAnswer, Untold
<1> DEFINE e == [event |-> "run_finished", of |-> 0, status |-> run.status, committed |-> FALSE]
<1>3. Line = <<e>>
  BY <1>1 DEF Line, ToolEvent
<1>4. e.event = "run_finished" /\ e.event \notin ToolKinds /\ e.event \notin ModelKinds
  BY DEF ToolKinds, ModelKinds
<1> HIDE DEF e
<1>5. LongerBy(record.trace, e, record'.trace)
  BY <1>1, <1>3, LineEntry
<1>6. ModelQuiet /\ ToolQuiet
  BY <1>4, <1>5, ModelKept, ToolKept DEF ModelQuiet, ToolQuiet
<1>7. NotTorn(record.trace) /\ RunFinishes /\ ModelLives /\ ToolLives
  BY DEF Lives
<1>8. ModelLives' /\ ToolLives'
  BY <1>1, <1>2, <1>6, <1>7, ModelsGoOn, ToolsGoOn DEF CallKept
<1>9. /\ NotTorn(record'.trace) /\ RunEnds(record'.trace) = RunEnds(record.trace) \cup {Len(record.trace) + 1}
  BY <1>4, <1>5, <1>7, EndsMore
<1>10. Len(record'.trace) = Len(record.trace) + 1 /\ Len(record.trace) \in Nat
  BY <1>5 DEF LongerBy
<1>11. RunEnds(record.trace) = {}
  BY <1>1, <1>7 DEF RunFinishes
<1>12. \A n \in Nat : n + 1 > 0
  OBVIOUS
<1>13. RunFinishes'
  BY <1>1, <1>9, <1>10, <1>11, <1>12 DEF RunFinishes
<1> QED BY <1>8, <1>9, <1>13 DEF Lives

LEMMA WriteReportLives ==
    ASSUME RecordTyped, Lives, WriteReport
    PROVE  Lives'
<1>1. /\ CallKept(run, run') /\ run.at = "report" /\ run'.at = "done" /\ record'.trace = record.trace
  BY WriteReportDoes DEF CallKept, Ending
<1>2. ModelPlaces /\ ToolPlaces
  BY <1>1 DEF ModelPlaces, ToolPlaces, AwaitingAnswer, Untold
<1>3. NotTorn(record.trace) /\ RunFinishes /\ ModelLives /\ ToolLives
  BY DEF Lives
<1>4. ModelQuiet /\ ToolQuiet /\ NotTorn(record'.trace)
  BY <1>1, <1>3, QuietTrace
<1>5. ModelLives' /\ ToolLives'
  BY <1>1, <1>2, <1>3, <1>4, ModelsGoOn, ToolsGoOn DEF CallKept
<1>6. RunFinishes'
  BY <1>1, <1>3 DEF RunFinishes
<1> QED BY <1>4, <1>5, <1>6 DEF Lives

\* A turn that ends before its call is tells was cut off.
LEMMA UntoldCut ==
    ASSUME RecordTyped, RecordNext, Orderly', run.at \in Untold
    PROVE  run'.at \notin EndPlaces
<1>1. /\ ~history'.cut
      /\ run.at \in {"prepare result", "commit tool", "close tool"} /\ run'.at # "dead"
  BY DEF Orderly, Untold
<1>2. CASE PrepareResult
  BY <1>2, PrepareResultDoes DEF EndPlaces
<1>3. CASE CommitTool
  BY <1>1, <1>3, CommitToolDoes DEF EndPlaces, HistoryCut
<1>4. CASE CloseTool
  BY <1>4, CloseToolDoes DEF EndPlaces
<1>5. CASE WriteFails \/ InterruptBetween
  BY <1>1, <1>5, WriteFailsDoes, InterruptBetweenDoes DEF HistoryCut
<1>6. CASE CrashRun
  BY <1>1, <1>6, CrashRunDoes
<1>7. ~(StartRun \/ CompactFirst \/ EndLoop \/ CountAttempt \/ TraceRequest \/ CheckSession)
  BY <1>1 DEF StartRun, CompactFirst, EndLoop, CountAttempt, TraceRequest, CheckSession, MayAttempt
<1>8. ~(ModelFails \/ ModelAnswers \/ TraceAnswer \/ TraceFailure \/ Act \/ CommitLast)
  BY <1>1 DEF ModelFails, ModelAnswers, TraceAnswer, TraceFailure, Act, CommitLast
<1>9. ~(OpenTool \/ RunTool \/ InterruptTool \/ FinishTool)
  BY <1>1 DEF OpenTool, RunTool, InterruptTool, FinishTool
<1>10. ~(CommitTerminalMessage \/ WriteLastState \/ WriteCheckpoint \/ TraceRunFinished \/ WriteReport)
  BY <1>1 DEF CommitTerminalMessage, WriteLastState, WriteCheckpoint, TraceRunFinished, WriteReport, Finalize
<1> QED BY <1>2, <1>3, <1>4, <1>5, <1>6, <1>7, <1>8, <1>9, <1>10 DEF RecordNext

LEMMA AllToldNext ==
    ASSUME RecordTyped, RecordTold, AllTold, RecordNext, Orderly'
    PROVE  AllTold'
<1> SUFFICES ASSUME run'.at \in EndPlaces
             PROVE  ToldCalls(record'.trace) = run'.calls
  BY DEF AllTold
<1>1. run.at \notin Untold \cup EndPlaces => ToldCalls(record.trace) = run.calls
  BY DEF RecordTold
<1>2. CASE ToldKept
  BY <1>1, <1>2, UntoldCut DEF ToldKept, AllTold
<1>3. CASE LastTold
  BY <1>1, <1>3 DEF LastTold, RecordTold, EndPlaces, Untold
<1>4. CASE CallBegins
  BY <1>1, <1>4 DEF CallBegins, CallCounted, EndPlaces, Untold
<1> QED BY <1>2, <1>3, <1>4, ToldStep

LEMMA RecordOrderlyNext ==
    ASSUME RecordInv, RecordNext
    PROVE  RecordOrderly'
<1> SUFFICES ASSUME Orderly'
             PROVE  Lives' /\ TaskTold' /\ AllTold'
  BY DEF RecordOrderly
<1>1. RecordTyped /\ Orderly /\ Lives /\ TaskTold /\ AllTold
  BY OrderlyBefore DEF RecordInv, RecordOrderly
<1>2. TaskTold' /\ AllTold'
  BY <1>1, TaskToldNext, AllToldNext DEF Orderly, RecordInv
<1>3. CASE QuietSteps
  BY <1>1, <1>2, <1>3, QuietStepsLive
<1>4. CASE CompactFirst
  BY <1>1, <1>2, <1>4, CompactFirstDoes, CountedLives DEF TaskWritten
<1>5. CASE CountAttempt
  BY <1>1, <1>2, <1>5, CountAttemptDoes, CountedLives DEF TaskWritten
<1>6. CASE WriteFails \/ InterruptBetween
  BY <1>1, <1>6, WriteFailsDoes, InterruptBetweenDoes DEF Orderly, HistoryCut
<1>7. CASE CrashRun
  BY <1>1, <1>7, CrashRunDoes DEF Orderly
<1>8. CASE TraceRequest \/ TraceAnswer \/ TraceFailure
  BY <1>1, <1>2, <1>8, TraceRequestLives, TraceAnswerLives, TraceFailureLives
<1>9. CASE OpenTool \/ RunTool \/ InterruptTool \/ CloseTool \/ FinishTool
  BY <1>1, <1>2, <1>9, OpenToolLives, RunToolLives, InterruptToolLives, CloseToolLives, FinishToolLives
<1>10. CASE TraceRunFinished \/ WriteReport
  BY <1>1, <1>2, <1>10, TraceRunFinishedLives, WriteReportLives
<1> QED BY <1>2, <1>3, <1>4, <1>5, <1>6, <1>7, <1>8, <1>9, <1>10 DEF RecordNext, QuietSteps

-----------------------------------------------------------------------------
(* RunRecord: the invariant *)

LEMMA NoTrace ==
    ASSUME NEW t, t = <<>>
    PROVE  /\ NotTorn(t) /\ RunEnds(t) = {} /\ \A kinds, n : Positions(t, kinds, n) = {}
<1>1. DOMAIN t = {}
  OBVIOUS
<1> QED BY <1>1 DEF NotTorn, RunEnds, Positions

LEMMA NothingTold == ToldCalls(<<>>) = <<>>
<1>1. [i \in DOMAIN <<>> |-> IF <<>>[i].event \in {"tool_executed", "tool_interrupted"}
                             THEN <<<<>>[i].status>> ELSE << >>] = <<>>
  OBVIOUS
<1> QED BY <1>1, FlattenEmpty DEF ToldCalls

LEMMA RecordInvInit == RecordInit => RecordInv
<1> SUFFICES ASSUME RecordInit
             PROVE  RecordInv
  OBVIOUS
<1>1. PICK stream \in BOOLEAN :
          run = [at |-> "start", stream |-> stream, attempts |-> 0, aux |-> 0,
                 steps |-> 0, malformed |-> 0, status |-> "running", reason |-> "",
                 calls |-> << >>, committed |-> FALSE, tool |-> "", then |-> "",
                 raised |-> FALSE, blocked |-> FALSE, errors |-> 0, faults |-> 0]
  BY DEF RecordInit
<1>2. /\ record = [task |-> NoRecordFile, trace |-> << >>, report |-> NoRecordFile, raw |-> {}]
      /\ history = [carriedOut |-> << >>, recoverable |-> {}, swallowed |-> FALSE, cut |-> FALSE]
  BY DEF RecordInit
<1>3. /\ run.at = "start" /\ run.attempts = 0 /\ run.aux = 0 /\ run.steps = 0 /\ run.calls = <<>>
      /\ run.stream = stream /\ run.tool = "" /\ run.then = "" /\ run.errors = 0
  BY <1>1
<1>4. record.trace = <<>> /\ record.raw = {} /\ record.report = NoRecordFile
  BY <1>2
<1>5. RecordTyped
  <2>1. run \in Runs_
    <3>1. "start" \in RunPlaces /\ "running" \in RunStatuses /\ "" \in RunReasons
      BY DEF RunPlaces, RunStatuses, RunReasons
    <3>2. <<>> \in Seq(CallOutcomes)
      OBVIOUS
    <3> QED BY <1>1, <3>1, <3>2 DEF Runs_
  <2>2. record \in Records
    <3>1. <<>> \in Seq(Entries)
      OBVIOUS
    <3>2. NoRecordFile \in TaskFiles /\ NoRecordFile \in ReportFiles
      BY DEF TaskFiles, ReportFiles
    <3> QED BY <1>2, <3>1, <3>2 DEF Records
  <2>3. history \in PastRuns
    <3>1. <<>> \in Seq(CallOutcomes)
      OBVIOUS
    <3> QED BY <1>2, <3>1 DEF PastRuns
  <2>4. RunCounts
    <3>1. /\ run.at \notin BeforeCall /\ run.at # "model failed"
          /\ run.at \notin BeforeCall \cup {"prepare result", "commit tool"}
          /\ run.at \notin Untold \cup {"finish tool"}
      BY <1>3 DEF BeforeCall, Untold
    <3>2. run.attempts - run.aux = 0 /\ Len(run.calls) = 0 /\ run.aux <= run.attempts
      <4> DEFINE attempts == run.attempts
                 aux == run.aux
                 calls == run.calls
      <4>1. attempts = 0 /\ aux = 0 /\ calls = <<>>
        BY <1>3
      <4> HIDE DEF attempts, aux, calls
      <4>2. attempts - aux = 0 /\ Len(calls) = 0 /\ aux <= attempts
        BY <4>1
      <4> QED BY <4>2 DEF attempts, aux, calls
    <3>3. 0 <= MaxAux /\ 0 <= MaxCalls /\ 0 <= MaxRunSteps
      BY LimitTypes
    <3>4. run.aux <= MaxAux /\ run.aux <= run.attempts /\ run.steps <= MaxRunSteps
      BY <1>3, <3>2, <3>3, Zenon
    <3>5. run.attempts - run.aux <= MaxCalls /\ Len(run.calls) <= run.attempts - run.aux
      BY <3>2, <3>3
    <3> QED BY <3>1, <3>4, <3>5 DEF RunCounts
  <2> QED BY <2>1, <2>2, <2>3, <2>4 DEF RecordTyped
<1>6. RecordTold
  <2>1. history.carriedOut = <<>> /\ ToldCalls(record.trace) = <<>>
    BY <1>2, <1>4, NothingTold
  <2> QED BY <1>3, <2>1 DEF RecordTold, Untold, EndPlaces
<1>7. ReportAsRun
  BY <1>4 DEF ReportAsRun, NoRecordFile
<1>8. RecordRetained
  <2>1. history.recoverable = {}
    BY <1>2
  <2> QED BY <1>4, <2>1, FS_EmptySet, LimitTypes DEF RecordRetained
<1>9. StoppedForReason
  BY <1>3 DEF StoppedForReason, EndPlaces
<1>10. RecordOrderly
  <2>1. NotTorn(record.trace) /\ RunEnds(record.trace) = {}
    BY <1>4, NoTrace
  <2>2. \A n : ModelUnasked(record.trace, n) /\ ToolUnborn(record.trace, n)
    BY <1>4, NoTrace DEF ModelUnasked, ToolUnborn
  <2>3. RunFinishes
    BY <1>3, <2>1 DEF RunFinishes
  <2>4. ModelLives
    <3>1. "start" \notin AwaitingAnswer \cup {"request", "turn", "decoded"}
      BY DEF AwaitingAnswer
    <3> QED BY <1>3, <2>2, <3>1 DEF ModelLives
  <2>5. ToolLives
    <3>1. Len(run.calls) = 0 /\ "start" \notin Untold
      BY <1>3 DEF Untold
    <3>2. \A n \in 1..0 : FALSE
      OBVIOUS
    <3> QED BY <1>3, <2>2, <3>1, <3>2 DEF ToolLives
  <2>6. TaskTold /\ AllTold
    BY <1>3 DEF TaskTold, AllTold, EndPlaces
  <2> QED BY <2>1, <2>3, <2>4, <2>5, <2>6 DEF RecordOrderly, Lives
<1> QED BY <1>5, <1>6, <1>7, <1>8, <1>9, <1>10 DEF RecordInv

LEMMA RecordInvNext == RecordInv /\ [RecordNext]_recordVars => RecordInv'
<1>1. ASSUME RecordInv, RecordNext PROVE RecordInv'
  <2>1. RecordTyped
    BY <1>1 DEF RecordInv
  <2> QED BY <1>1, <2>1, RecordTypedNext, RecordToldNext, ReportAsRunNext, RecordRetainedNext,
             StoppedForReasonNext, RecordOrderlyNext DEF RecordInv
<1>2. ASSUME RecordInv, UNCHANGED recordVars PROVE RecordInv'
  <2>1. run' = run /\ record' = record /\ history' = history
    BY <1>2 DEF recordVars
  <2>2. RecordTyped'
    BY <1>2, <2>1 DEF RecordInv, RecordTyped, RunCounts
  <2>3. RecordTold' /\ ReportAsRun' /\ RecordRetained' /\ StoppedForReason'
    BY <1>2, <2>1 DEF RecordInv, RecordTold, ReportAsRun, RecordRetained, StoppedForReason
  <2>4. RecordOrderly'
    BY <1>2, <2>1 DEF RecordInv, RecordOrderly, Orderly, Lives, RunFinishes, ModelLives, ToolLives,
                      TaskTold, AllTold, TaskState
  <2> QED BY <2>2, <2>3, <2>4 DEF RecordInv
<1> QED BY <1>1, <1>2

-----------------------------------------------------------------------------
(* RunRecord: what the invariant says of the files *)

LEMMA RunRecordTypes == RecordTyped => RecordTypeOK
<1> SUFFICES ASSUME RecordTyped
             PROVE  RecordTypeOK
  OBVIOUS
<1> DEFINE attempts == run.attempts
           aux == run.aux
<1>1. run \in Runs_ /\ record \in Records /\ RunCounts
  BY DEF RecordTyped
<1>2. attempts \in Nat /\ aux \in Nat /\ run.steps \in Nat /\ run.status \in RunStatuses
  BY <1>1, RunFields
<1>3. aux <= MaxAux /\ attempts - aux <= MaxCalls /\ run.steps <= MaxRunSteps
  BY <1>1 DEF RunCounts
<1>4. attempts \in 0..(MaxCalls + MaxAux) /\ aux \in 0..MaxAux
  <2> HIDE DEF attempts, aux
  <2> QED BY <1>2, <1>3, LimitTypes
<1>5. run.steps \in 0..MaxRunSteps
  BY <1>2, <1>3, LimitTypes
<1>6. record.trace \in Seq(Entries) /\ record.raw \subseteq ResultContents
      /\ record.task \in TaskFiles /\ record.report \in ReportFiles
  BY <1>1 DEF Records
<1>7. record.task.present \in BOOLEAN /\ record.report.present \in BOOLEAN
  <2>1. NoRecordFile.present = FALSE
    BY DEF NoRecordFile
  <2>2. record.task = NoRecordFile \/ record.task.present = TRUE
    BY <1>6 DEF TaskFiles
  <2>3. record.report = NoRecordFile \/ record.report.present = TRUE
    BY <1>6 DEF ReportFiles
  <2> QED BY <2>1, <2>2, <2>3
<1>8. ASSUME NEW i \in DOMAIN record.trace
      PROVE  record.trace[i].of \in 0..(MaxCalls + MaxAux)
  <2>1. record.trace[i] \in Entries
    BY <1>6, <1>8
  <2> QED BY <2>1 DEF Entries, Numbers
<1> QED BY <1>2, <1>4, <1>5, <1>6, <1>7, <1>8 DEF RecordTypeOK, RunStatuses

LEMMA RunRecordTrue == RecordInv => ReadRecordIsTrue
<1> SUFFICES ASSUME RecordInv, ReadsBack(record)
             PROVE  /\ ToldCalls(record.trace) = history.carriedOut
                    /\ record.report.attempts = run.attempts
                    /\ record.report.status = run.status /\ record.report.reason = run.reason
  BY DEF ReadRecordIsTrue
<1> DEFINE tells == ToldCalls(record.trace)
<1>1. record.report.present /\ Len(record.report.calls) = Len(tells)
  BY DEF ReadsBack, SameCounts
<1>2. /\ run.at = "done" /\ record.report.calls = run.calls
      /\ record.report.attempts = run.attempts
      /\ record.report.status = run.status /\ record.report.reason = run.reason
  BY <1>1 DEF RecordInv, ReportAsRun
<1>3. /\ run.calls = history.carriedOut
      /\ tells = run.calls \/ run.calls = Append(tells, run.tool)
  BY <1>2 DEF RecordInv, RecordTold, EndPlaces
<1>4. record.trace \in Seq(Entries)
  BY TypedFields DEF RecordInv, Records
<1>5. tells \in Seq(StatusNames)
  BY <1>4, ToldCallsType
<1>6. run.calls # Append(tells, run.tool)
  <2> HIDE DEF tells
  <2>1. Len(Append(tells, run.tool)) = Len(tells) + 1 /\ Len(tells) \in Nat
    BY <1>5
  <2> QED BY <1>1, <1>2, <2>1
<1> QED BY <1>2, <1>3, <1>6

LEMMA PreviewsKept == RecordInv => PreviewsRecoverable
  BY DEF RecordInv, RecordRetained, PreviewsRecoverable, CanRecover

LEMMA OneOfThem == \A x : Once({x})
  BY FS_Singleton DEF Once

LEMMA AtMostOne ==
    ASSUME NEW S, S = {} \/ \E x : S = {x}
    PROVE  Cardinality(S) <= 1
<1>1. CASE S = {}
  <2>1. Cardinality(S) = 0
    BY <1>1, FS_EmptySet, Zenon
  <2> QED BY <2>1
<1>2. CASE \E x : S = {x}
  <2>1. Cardinality(S) = 1
    BY <1>2, FS_Singleton
  <2> QED BY <2>1
<1> QED BY <1>1, <1>2

LEMMA InPositions ==
    ASSUME NEW t, NEW i \in DOMAIN t, NEW kinds, t[i].event \in kinds
    PROVE  Positions(t, kinds, t[i].of) # {}
  BY DEF Positions

\* The life of one call, as the reader follows it.
ToolLifeReads(t, n) ==
    LET ends == Positions(t, ToolEnds, n)
    IN  /\ Once(Positions(t, Starts, n)) /\ Once(ends)
        /\ \A s \in Positions(t, Starts, n), e \in ends :
               /\ s < e
               /\ t[e].event = "tool_interrupted" <=> t[e].status = "interrupted"
               /\ Cardinality(Positions(t, Finishes, n)) <= 1
               /\ \A f \in Positions(t, Finishes, n) :
                      /\ e < f /\ t[e].event = "tool_executed"
                      /\ t[f].status = t[e].status

LEMMA ClosedReads ==
    ASSUME NEW t, NEW n, ToolClosed(t, n)
    PROVE  ToolLifeReads(t, n)
<1> DEFINE fins == Positions(t, Finishes, n)
<1>1. PICK s, e \in DOMAIN t :
          /\ Positions(t, Starts, n) = {s}
          /\ Positions(t, ToolEnds, n) = {e} /\ s < e
          /\ t[e].event = "tool_interrupted" <=> t[e].status = "interrupted"
          /\ \/ fins = {}
             \/ \E f \in DOMAIN t :
                    /\ fins = {f} /\ e < f
                    /\ t[e].event = "tool_executed" /\ t[f].status = t[e].status
  BY Zenon DEF ToolClosed
<1>2. Once(Positions(t, Starts, n)) /\ Once(Positions(t, ToolEnds, n))
  BY <1>1, OneOfThem
<1>3. Cardinality(fins) <= 1
  <2>1. fins = {} \/ \E f : fins = {f}
    BY <1>1
  <2> HIDE DEF fins
  <2> QED BY <2>1, AtMostOne
<1>4. \A f \in fins : e < f /\ t[e].event = "tool_executed" /\ t[f].status = t[e].status
  BY <1>1
<1> HIDE DEF fins
<1>5. \A a \in {s}, b \in {e} :
          /\ a < b
          /\ t[b].event = "tool_interrupted" <=> t[b].status = "interrupted"
          /\ Cardinality(fins) <= 1
          /\ \A f \in fins : b < f /\ t[b].event = "tool_executed" /\ t[f].status = t[b].status
  BY <1>1, <1>3, <1>4
<1> QED BY <1>1, <1>2, <1>5, Zenon DEF ToolLifeReads, fins

ModelLifeReads(t, n) ==
    LET ends == Positions(t, ModelEnds, n)
        decodes == Positions(t, Decodings, n)
    IN  /\ Once(Positions(t, Asks, n)) /\ Once(ends) /\ Cardinality(decodes) <= 1
        /\ \A r \in Positions(t, Asks, n), e \in ends :
               /\ r < e /\ ~t[r].committed
               /\ \A d \in decodes : r < d /\ d < e /\ t[d].committed = t[e].committed
               /\ t[e].event = "model_turn" => decodes # {} /\ t[e].committed

LEMMA EndedReads ==
    ASSUME NEW t \in Seq(Entries), NEW n, ModelEnded(t, n)
    PROVE  ModelLifeReads(t, n)
<1> DEFINE decs == Positions(t, Decodings, n)
<1>1. PICK r, e \in DOMAIN t :
          /\ Positions(t, Asks, n) = {r} /\ ~t[r].committed
          /\ Positions(t, ModelEnds, n) = {e} /\ r < e
          /\ \/ decs = {} /\ t[e].event = "model_failed"
             \/ \E d \in DOMAIN t :
                    decs = {d} /\ r < d /\ d < e /\ t[d].committed /\ t[e].committed
  BY Zenon DEF ModelEnded
<1>2. Once(Positions(t, Asks, n)) /\ Once(Positions(t, ModelEnds, n))
  BY <1>1, OneOfThem
<1>3. Cardinality(decs) <= 1
  <2>1. decs = {} \/ \E d : decs = {d}
    BY <1>1
  <2> HIDE DEF decs
  <2> QED BY <2>1, AtMostOne
<1>4. \A i \in DOMAIN t : t[i].committed \in BOOLEAN
  <2>1. \A i \in DOMAIN t : t[i] \in Entries
    OBVIOUS
  <2> QED BY <2>1 DEF Entries
<1>5. \A d \in decs : r < d /\ d < e /\ t[d].committed = t[e].committed
  <2> HIDE DEF decs
  <2>1. CASE decs = {}
    BY <2>1
  <2>2. CASE \E d \in DOMAIN t : decs = {d} /\ r < d /\ d < e /\ t[d].committed /\ t[e].committed
    <3>1. PICK d \in DOMAIN t : decs = {d} /\ r < d /\ d < e /\ t[d].committed /\ t[e].committed
      BY <2>2
    <3>2. t[d].committed = t[e].committed
      BY <1>1, <1>4, <3>1
    <3> QED BY <3>1, <3>2
  <2> QED BY <1>1, <2>1, <2>2
<1>6. t[e].event = "model_turn" => decs # {} /\ t[e].committed
  BY <1>1
<1> HIDE DEF decs
<1>7. \A a \in {r}, b \in {e} :
          /\ a < b /\ ~t[a].committed
          /\ \A d \in decs : a < d /\ d < b /\ t[d].committed = t[b].committed
          /\ t[b].event = "model_turn" => decs # {} /\ t[b].committed
  BY <1>1, <1>5, <1>6
<1> QED BY <1>1, <1>2, <1>3, <1>7, Zenon DEF ModelLifeReads, decs

LEMMA RunRecordReads == RecordInv => OrderlyRecordReads
<1> DEFINE t == record.trace
           report == record.report
           task == record.task
<1> SUFFICES ASSUME RecordInv, run.at = "done", report.present, report.complete,
                    run.reason \notin {"runtime_error", "persistence_error"},
                    ~history.cut, ~history.swallowed
             PROVE  ReadsBack(record)
  BY DEF OrderlyRecordReads
<1>1. /\ report.status = run.status /\ report.reason = run.reason
      /\ report.attempts = run.attempts /\ report.calls = run.calls
      /\ report.complete = (run.errors = 0)
  BY DEF RecordInv, ReportAsRun
<1>2. Orderly
  BY <1>1 DEF Orderly
<1>3. NotTorn(t) /\ RunFinishes /\ ModelLives /\ ToolLives /\ TaskTold /\ AllTold
  BY <1>2 DEF RecordInv, RecordOrderly, Lives
<1>4. task.present /\ task.status = run.status /\ task.reason = run.reason
      /\ task.attempts = run.attempts
  BY <1>3 DEF TaskTold, TaskState
<1>5. <<report.status, report.reason>> \in TerminalPairs
  <2>1. run.reason \in RunReasons \ {""} /\ run.status = StatusFor(run.reason)
    BY DEF RecordInv, StoppedForReason, EndPlaces
  <2> QED BY <1>1, <2>1 DEF RunReasons, StatusFor, TerminalPairs
<1>6. SameCounts(report.calls, ToldCalls(t))
  <2>1. report.calls = ToldCalls(t)
    BY <1>1, <1>3 DEF AllTold, EndPlaces
  <2> QED BY <2>1, Zenon DEF SameCounts
<1>7. t \in Seq(Entries) /\ Len(t) \in Nat /\ DOMAIN t = 1..Len(t)
  <2>1. t \in Seq(Entries)
    BY TypedFields DEF RecordInv, Records
  <2> HIDE DEF t
  <2> QED BY <2>1
<1>8. RunEnds(t) = {Len(t)}
  BY <1>3 DEF RunFinishes
<1>9. \A i \in DOMAIN t : t[i].of \in Numbers
  <2> HIDE DEF t
  <2>1. \A i \in DOMAIN t : t[i] \in Entries
    BY <1>7
  <2> QED BY <2>1 DEF Entries
<1>10. \A n \in Numbers : ModelUnasked(t, n) \/ ModelEnded(t, n)
  BY <1>3 DEF ModelLives, AwaitingAnswer
<1>11. \A n \in Numbers : ToolUnborn(t, n) \/ ToolClosed(t, n)
  <2>1. run.calls \in Seq(CallOutcomes)
    BY TypedFields, RunFields DEF RecordInv
  <2>2. Len(run.calls) \in Nat
    BY <2>1
  <2> TAKE n \in Numbers
  <2>3. n \in Nat
    BY NumbersNat
  <2>4. n = 0 \/ n > Len(run.calls) + 1 \/ n = Len(run.calls) + 1 \/ n \in 1..Len(run.calls)
    <3> DEFINE len == Len(run.calls)
    <3> HIDE DEF len
    <3>1. len \in Nat
      BY <2>2 DEF len
    <3>2. n = 0 \/ n > len + 1 \/ n = len + 1 \/ n \in 1..len
      BY <2>3, <3>1
    <3> QED BY <3>2 DEF len
  <2> QED BY <1>3, <2>4, Zenon DEF ToolLives, Untold
<1> HIDE DEF t
<1>12. Once({i \in DOMAIN t : t[i].event = "run_finished"})
  BY <1>8, OneOfThem DEF RunEnds
<1>13. ASSUME NEW i \in DOMAIN t, t[i].event \in ToolKinds
       PROVE  ToolLifeReads(t, t[i].of) /\ \A j \in 1..(i - 1) : t[j].event # "run_finished"
  <2>1. Positions(t, ToolKinds, t[i].of) # {}
    BY <1>13, InPositions
  <2>2. ToolClosed(t, t[i].of)
    BY <1>9, <1>11, <2>1 DEF ToolUnborn
  <2>3. ToolLifeReads(t, t[i].of)
    BY <2>2, ClosedReads
  <2>4. \A j \in 1..(i - 1) : j \in DOMAIN t /\ j # Len(t)
    <3> DEFINE len == Len(t)
    <3>1. len \in Nat /\ i \in 1..len /\ DOMAIN t = 1..len
      BY <1>7, <1>13
    <3> HIDE DEF len
    <3>2. \A j \in 1..(i - 1) : j \in 1..len /\ j # len
      BY <3>1
    <3> QED BY <3>1, <3>2 DEF len
  <2> QED BY <1>8, <2>3, <2>4 DEF RunEnds
<1>14. ASSUME NEW i \in DOMAIN t, t[i].event \in ModelKinds
       PROVE  ModelLifeReads(t, t[i].of)
  <2>1. Positions(t, ModelKinds, t[i].of) # {}
    BY <1>14, InPositions
  <2>2. ModelEnded(t, t[i].of)
    BY <1>9, <1>10, <2>1 DEF ModelUnasked
  <2> QED BY <1>7, <2>2, EndedReads
<1>15. ToolLivesWhole(t)
  BY <1>13, Zenon DEF ToolLivesWhole, ToolLifeReads, ToolKinds, Starts, ToolEnds, Finishes
<1>16. StreamLivesWhole(t)
  BY <1>14, Zenon DEF StreamLivesWhole, ModelLifeReads, ModelKinds, Asks, ModelEnds, Decodings
<1>17. ValidTrace(t)
  BY <1>3, <1>12, <1>15, <1>16 DEF ValidTrace, NotTorn, t
<1> QED BY <1>1, <1>4, <1>5, <1>6, <1>17 DEF ReadsBack, t
=============================================================================
