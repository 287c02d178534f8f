------------------------- MODULE QueuesProofs -------------------------
EXTENDS Queues, FiniteSetTheorems, SequenceTheorems, TLAPS

Rank(I, i) == Cardinality({j \in I : j <= i})

(***************************************************************************)
(* The rank of an index in a finite set of naturals I is a bijection from  *)
(* I to 1..Cardinality(I): this is why Pick loses and repeats nothing.     *)
(***************************************************************************)
LEMMA RankBijective ==
  ASSUME NEW n \in Nat, NEW I \in SUBSET (1..n)
  PROVE  /\ IsFiniteSet(I)
         /\ \A i \in I : Rank(I, i) \in 1..Cardinality(I)
         /\ \A i, j \in I : i < j => Rank(I, i) < Rank(I, j)
         /\ \A k \in 1..Cardinality(I) : \E i \in I : Rank(I, i) = k
<1> DEFINE Below(i) == {j \in I : j <= i}
           R == [i \in I |-> Rank(I, i)]
<1>0. \A i \in I : i \in Nat
  OBVIOUS
<1>1. IsFiniteSet(I) /\ Cardinality(I) \in Nat
  <2>1. IsFiniteSet(1..n)
    BY FS_Interval
  <2> QED BY <2>1, FS_Subset, FS_CardinalityType
<1>2. \A i \in I : IsFiniteSet(Below(i)) /\ Cardinality(Below(i)) \in Nat
  BY <1>1, FS_Subset, FS_CardinalityType
<1>3. \A i, j \in I : i < j => Cardinality(Below(i)) < Cardinality(Below(j))
  <2> SUFFICES ASSUME NEW i \in I, NEW j \in I, i < j
               PROVE  Cardinality(Below(i)) < Cardinality(Below(j))
    OBVIOUS
  <2>1. \A k \in Below(i) : k \in Below(j)
    BY <1>0
  <2>2. Below(i) # Below(j)
    <3>1. j \in Below(j) /\ j \notin Below(i)
      OBVIOUS
    <3> QED BY <3>1
  <2>3. Below(i) \in SUBSET Below(j)
    BY <2>1
  <2> QED BY <1>2, <2>2, <2>3, FS_Subset
<1>4. \A i \in I : Cardinality(Below(i)) \in 1..Cardinality(I)
  <2> SUFFICES ASSUME NEW i \in I PROVE Cardinality(Below(i)) \in 1..Cardinality(I)
    OBVIOUS
  <2>1. Cardinality(Below(i)) <= Cardinality(I)
    BY <1>1, FS_Subset
  <2>2. Below(i) # {}
    <3>1. i \in Below(i)
      OBVIOUS
    <3> QED BY <3>1
  <2>3. Cardinality(Below(i)) # 0
    BY <1>2, <2>2, FS_EmptySet
  <2> QED BY <1>1, <1>2, <2>1, <2>3
<1>5. /\ IsFiniteSet(1..Cardinality(I))
      /\ Cardinality(1..Cardinality(I)) = Cardinality(I)
  <2>1. \A m \in Nat : /\ IsFiniteSet(1..m)
                       /\ Cardinality(1..m) = IF 1 > m THEN 0 ELSE m - 1 + 1
    BY FS_Interval
  <2> QED BY <1>1, <2>1
<1>6. R \in Injection(I, 1..Cardinality(I))
  <2>1. R \in [I -> 1..Cardinality(I)]
    BY <1>4 DEF Rank
  <2>2. \A i, j \in I : R[i] = R[j] => i = j
    <3> SUFFICES ASSUME NEW i \in I, NEW j \in I, R[i] = R[j], i # j PROVE FALSE
      OBVIOUS
    <3>1. i < j \/ j < i
      OBVIOUS
    <3> QED BY <3>1, <1>3, <1>2 DEF Rank
  <2> QED BY <2>1, <2>2 DEF Injection, IsInjective
<1>7. R \in Surjection(I, 1..Cardinality(I))
  BY <1>1, <1>5, <1>6, FS_Injection, FS_SurjSameCardinalityImpliesInj DEF Bijection
<1> QED
  <2>1. \A k \in 1..Cardinality(I) : \E i \in I : R[i] = k
    BY <1>7 DEF Surjection
  <2> QED BY <1>1, <1>3, <1>4, <2>1 DEF Rank

(***************************************************************************)
(* Pick keeps the type, exactly the elements at the chosen indices, their  *)
(* order, and the absence of duplicates.                                   *)
(***************************************************************************)
LEMMA PickProperties ==
  ASSUME NEW S, NEW q \in Seq(S), NEW I \in SUBSET DOMAIN q
  PROVE  /\ Pick(q, I) \in Seq(S)
         /\ ToSet(Pick(q, I)) = {q[i] : i \in I}
         /\ IsInjective(q) => IsInjective(Pick(q, I))
         /\ \A a, b \in DOMAIN Pick(q, I) : a < b =>
              \E i, j \in I : i < j /\ Pick(q, I)[a] = q[i] /\ Pick(q, I)[b] = q[j]
<1> DEFINE C == Cardinality(I)
           at(k) == CHOOSE i \in I : Rank(I, i) = k
           P == [k \in 1..C |-> q[at(k)]]
<1>0. /\ Pick(q, I) = P
      /\ DOMAIN q = 1..Len(q)
      /\ Len(q) \in Nat
      /\ \A i \in DOMAIN q : q[i] \in S
  BY DEF Pick, Rank
<1>1. /\ C \in Nat
      /\ \A i \in I : Rank(I, i) \in 1..C
      /\ \A i, j \in I : i < j => Rank(I, i) < Rank(I, j)
      /\ \A k \in 1..C : \E i \in I : Rank(I, i) = k
  BY <1>0, RankBijective, FS_CardinalityType
<1>2. \A k \in 1..C : at(k) \in I /\ Rank(I, at(k)) = k
  BY <1>1
<1>3. \A i \in I : at(Rank(I, i)) = i
  <2> SUFFICES ASSUME NEW i \in I PROVE at(Rank(I, i)) = i
    OBVIOUS
  <2>1. at(Rank(I, i)) \in I /\ Rank(I, at(Rank(I, i))) = Rank(I, i)
    BY <1>1, <1>2
  <2>2. \A j \in I : j # i => Rank(I, j) # Rank(I, i)
    <3> SUFFICES ASSUME NEW j \in I, j # i PROVE Rank(I, j) # Rank(I, i)
      OBVIOUS
    <3>1. i \in Nat /\ j \in Nat
      BY <1>0
    <3>2. i < j \/ j < i
      BY <3>1
    <3> QED BY <1>1, <3>2
  <2> QED BY <2>1, <2>2
<1>4. \A k, m \in 1..C : k < m => at(k) < at(m)
  <2> SUFFICES ASSUME NEW k \in 1..C, NEW m \in 1..C, k < m PROVE at(k) < at(m)
    OBVIOUS
  <2>1. at(k) \in Nat /\ at(m) \in Nat
    BY <1>0, <1>2
  <2>2. at(k) # at(m) /\ ~(at(m) < at(k))
    BY <1>1, <1>2
  <2> QED BY <2>1, <2>2
<1> HIDE DEF at
<1>5. P \in Seq(S)
  <2>1. P \in [1..C -> S]
    BY <1>0, <1>2
  <2> QED BY <1>1, <2>1
<1>6. ToSet(P) = {q[i] : i \in I}
  <2>1. \A k \in 1..C : \E i \in I : P[k] = q[i]
    BY <1>2
  <2>2. \A i \in I : \E k \in 1..C : q[i] = P[k]
    BY <1>1, <1>3
  <2>3. DOMAIN P = 1..C
    OBVIOUS
  <2> HIDE DEF P, C
  <2> QED BY <2>1, <2>2, <2>3 DEF ToSet
<1>7. \A a, b \in 1..C : a < b =>
        \E i, j \in I : i < j /\ P[a] = q[i] /\ P[b] = q[j]
  BY <1>2, <1>4
<1>8. IsInjective(q) => IsInjective(P)
  <2> SUFFICES ASSUME IsInjective(q), NEW a \in 1..C, NEW b \in 1..C, P[a] = P[b]
               PROVE  a = b
    BY DEF IsInjective
  <2>1. at(a) \in DOMAIN q /\ at(b) \in DOMAIN q /\ q[at(a)] = q[at(b)]
    BY <1>2
  <2>2. at(a) = at(b)
    BY <2>1 DEF IsInjective
  <2> QED BY <2>2, <1>2
<1> QED BY <1>0, <1>5, <1>6, <1>7, <1>8

(***************************************************************************)
(* Removing a node leaves the other nodes, in their order.                 *)
(***************************************************************************)
LEMMA WithoutProperties ==
  ASSUME NEW S, NEW q \in Seq(S), NEW t
  PROVE  /\ Without(q, t) \in Seq(S)
         /\ ToSet(Without(q, t)) = ToSet(q) \ {t}
         /\ IsInjective(q) => IsInjective(Without(q, t))
<1> DEFINE I == {i \in DOMAIN q : q[i] # t}
<1>1. I \in SUBSET DOMAIN q
  OBVIOUS
<1>2. {q[i] : i \in I} = ToSet(q) \ {t}
  BY DEF ToSet
<1> HIDE DEF I
<1>3. /\ Pick(q, I) \in Seq(S)
      /\ ToSet(Pick(q, I)) = {q[i] : i \in I}
      /\ IsInjective(q) => IsInjective(Pick(q, I))
  BY <1>1, PickProperties
<1> QED BY <1>2, <1>3 DEF Without, I

(***************************************************************************)
(* Adding a node that is not in the queue at its tail, and taking the head *)
(* off: the facts list_add_tail and list_del_init owe the scheduler.       *)
(***************************************************************************)
LEMMA AppendQueue ==
  ASSUME NEW S, NEW q \in Seq(S), NEW t \in S
  PROVE  /\ Append(q, t) \in Seq(S)
         /\ Append(q, t) # <<>>
         /\ ToSet(Append(q, t)) = ToSet(q) \cup {t}
         /\ IsInjective(q) /\ t \notin ToSet(q) => IsInjective(Append(q, t))
<1>1. /\ Append(q, t) \in Seq(S)
      /\ Append(q, t) # <<>>
      /\ DOMAIN Append(q, t) = 1..(Len(q) + 1)
      /\ DOMAIN q = 1..Len(q)
      /\ Len(q) \in Nat
      /\ \A i \in 1..Len(q) : Append(q, t)[i] = q[i]
      /\ Append(q, t)[Len(q) + 1] = t
  BY AppendProperties
<1> DEFINE A == Append(q, t)
<1> HIDE DEF A
<1>2. ToSet(A) = ToSet(q) \cup {t}
  <2>1. \A i \in 1..(Len(q) + 1) : i \in 1..Len(q) \/ i = Len(q) + 1
    BY <1>1
  <2>2. \A i \in 1..Len(q) : i \in 1..(Len(q) + 1)
    BY <1>1
  <2>3. Len(q) + 1 \in 1..(Len(q) + 1)
    BY <1>1
  <2> QED BY <1>1, <2>1, <2>2, <2>3 DEF ToSet, A
<1>3. IsInjective(q) /\ t \notin ToSet(q) => IsInjective(A)
  BY <1>1 DEF IsInjective, ToSet, A
<1> QED BY <1>1, <1>2, <1>3 DEF A

LEMMA ConcatQueue ==
  ASSUME NEW S, NEW q \in Seq(S), NEW r \in Seq(S)
  PROVE  /\ q \o r \in Seq(S)
         /\ ToSet(q \o r) = ToSet(q) \cup ToSet(r)
         /\ q # <<>> \/ r # <<>> => q \o r # <<>>
         /\ IsInjective(q) /\ IsInjective(r) /\ ToSet(q) \cap ToSet(r) = {}
              => IsInjective(q \o r)
<1> DEFINE c == q \o r
<1>1. /\ c \in Seq(S)
      /\ Len(c) = Len(q) + Len(r)
      /\ \A i \in 1..(Len(q) + Len(r)) : c[i] = IF i <= Len(q) THEN q[i] ELSE r[i - Len(q)]
  BY ConcatProperties
<1>2. /\ Len(q) \in Nat /\ Len(r) \in Nat
      /\ DOMAIN q = 1..Len(q) /\ DOMAIN r = 1..Len(r)
      /\ DOMAIN c = 1..(Len(q) + Len(r))
      /\ q # <<>> => Len(q) > 0
      /\ r # <<>> => Len(r) > 0
  BY <1>1
<1> HIDE DEF c
<1>3. \A i \in DOMAIN c : \/ i \in DOMAIN q /\ c[i] = q[i]
                          \/ i - Len(q) \in DOMAIN r /\ i \notin DOMAIN q /\ c[i] = r[i - Len(q)]
  BY <1>1, <1>2
<1>4. /\ \A i \in DOMAIN q : i \in DOMAIN c /\ c[i] = q[i]
      /\ \A j \in DOMAIN r : j + Len(q) \in DOMAIN c /\ c[j + Len(q)] = r[j]
  BY <1>1, <1>2
<1>5. ToSet(c) = ToSet(q) \cup ToSet(r)
  BY <1>3, <1>4 DEF ToSet
<1>6. IsInjective(q) /\ IsInjective(r) /\ ToSet(q) \cap ToSet(r) = {} => IsInjective(c)
  <2> SUFFICES ASSUME IsInjective(q), IsInjective(r), ToSet(q) \cap ToSet(r) = {},
                      NEW i \in DOMAIN c, NEW j \in DOMAIN c, c[i] = c[j]
               PROVE  i = j
    BY DEF IsInjective
  <2>1. i \in Nat /\ j \in Nat
    BY <1>2
  <2>2. i \in DOMAIN q <=> j \in DOMAIN q
    BY <1>3 DEF ToSet
  <2>3. CASE i \in DOMAIN q
    BY <2>2, <2>3, <1>3 DEF IsInjective
  <2>4. CASE i \notin DOMAIN q
    <3>1. i - Len(q) = j - Len(q)
      BY <2>2, <2>4, <1>3 DEF IsInjective
    <3> QED BY <2>1, <3>1, <1>2
  <2> QED BY <2>3, <2>4
<1>7. q # <<>> \/ r # <<>> => c # <<>>
  BY <1>1, <1>2
<1> QED BY <1>1, <1>5, <1>6, <1>7 DEF c

LEMMA HeadTailQueue ==
  ASSUME NEW S, NEW q \in Seq(S), q # <<>>
  PROVE  /\ Head(q) \in S
         /\ Head(q) \in ToSet(q)
         /\ Tail(q) \in Seq(S)
         /\ IsInjective(q) => /\ IsInjective(Tail(q))
                              /\ ToSet(Tail(q)) = ToSet(q) \ {Head(q)}
<1>1. /\ Head(q) \in S /\ Head(q) = q[1]
      /\ Tail(q) \in Seq(S)
      /\ Len(q) \in Nat /\ Len(q) > 0
      /\ DOMAIN q = 1..Len(q)
      /\ DOMAIN Tail(q) = 1..(Len(q) - 1)
      /\ \A i \in 1..(Len(q) - 1) : Tail(q)[i] = q[i + 1]
  BY HeadTailProperties
<1> DEFINE T == Tail(q)
<1> HIDE DEF T
<1>2. IsInjective(q) => IsInjective(T)
  BY <1>1 DEF IsInjective, T
<1>3. IsInjective(q) => ToSet(T) = ToSet(q) \ {q[1]}
  <2> SUFFICES ASSUME IsInjective(q) PROVE ToSet(T) = ToSet(q) \ {q[1]}
    OBVIOUS
  <2>1. \A i \in 1..(Len(q) - 1) : i + 1 \in 1..Len(q) /\ q[i + 1] # q[1]
    BY <1>1 DEF IsInjective
  <2>2. \A i \in 1..Len(q) : i # 1 => i - 1 \in 1..(Len(q) - 1) /\ T[i - 1] = q[i]
    BY <1>1 DEF T
  <2>3. \A x \in ToSet(T) : x \in ToSet(q) /\ x # q[1]
    BY <1>1, <2>1 DEF ToSet, T
  <2>4. \A x \in ToSet(q) : x # q[1] => x \in ToSet(T)
    <3> SUFFICES ASSUME NEW i \in 1..Len(q), q[i] # q[1]
                 PROVE  \E j \in DOMAIN T : T[j] = q[i]
      BY <1>1 DEF ToSet
    <3>1. i - 1 \in DOMAIN T
      BY <1>1, <2>2 DEF T
    <3> QED BY <2>2, <3>1
  <2> QED BY <2>3, <2>4
<1>4. q[1] \in ToSet(q)
  BY <1>1 DEF ToSet
<1> QED BY <1>1, <1>2, <1>3, <1>4 DEF T

(***************************************************************************)
(* A node that is in no queue: taking it out changes nothing.  So a call   *)
(* that moves the running task leaves the other queues as they are.        *)
(***************************************************************************)
LEMMA WithoutAbsent ==
  ASSUME NEW S, NEW q \in Seq(S), NEW t, t \notin ToSet(q)
  PROVE  Without(q, t) = q
<1> DEFINE n == Len(q)
           I == {i \in DOMAIN q : q[i] # t}
<1>1. n \in Nat /\ DOMAIN q = 1..n /\ q = [k \in 1..n |-> q[k]]
  OBVIOUS
<1>2. I = 1..n
  BY <1>1 DEF ToSet
<1> HIDE DEF I, n
<1>3. \A m \in Nat : Cardinality(1..m) = m
  <2>1. \A m \in Nat : Cardinality(1..m) = IF 1 > m THEN 0 ELSE m - 1 + 1
    BY FS_Interval
  <2> QED BY <2>1
<1>4. \A i \in 1..n : Cardinality({j \in 1..n : j <= i}) = i
  <2> SUFFICES ASSUME NEW i \in 1..n PROVE Cardinality({j \in 1..n : j <= i}) = i
    OBVIOUS
  <2>1. {j \in 1..n : j <= i} = 1..i /\ i \in Nat
    BY <1>1
  <2> QED BY <2>1, <1>3
<1>5. \A k \in 1..n : (CHOOSE i \in I : Cardinality({j \in I : j <= i}) = k) = k
  BY <1>2, <1>4
<1>6. Cardinality(I) = n
  BY <1>1, <1>2, <1>3
<1>7. Without(q, t) = [k \in 1..n |-> q[CHOOSE i \in I : Cardinality({j \in I : j <= i}) = k]]
  BY <1>6 DEF Without, Pick, I
<1> QED BY <1>1, <1>5, <1>7

(***************************************************************************)
(* Taking the first node out of a queue leaves its tail.                   *)
(***************************************************************************)
LEMMA WithoutHead ==
  ASSUME NEW S, NEW q \in Seq(S), q # <<>>, IsInjective(q)
  PROVE  Without(q, Head(q)) = Tail(q)
<1> DEFINE n == Len(q)
           I == {i \in DOMAIN q : q[i] # Head(q)}
<1>1. /\ n \in Nat /\ n > 0 /\ DOMAIN q = 1..n /\ Head(q) = q[1]
      /\ Tail(q) = [k \in 1..(n - 1) |-> q[k + 1]]
  <2>1. /\ n \in Nat /\ n > 0 /\ DOMAIN q = 1..n /\ Head(q) = q[1]
        /\ Tail(q) \in Seq(S) /\ Len(Tail(q)) = n - 1
        /\ \A k \in 1..(n - 1) : Tail(q)[k] = q[k + 1]
    BY HeadTailProperties
  <2>2. \A T \in Seq(S) : T = [k \in 1..Len(T) |-> T[k]]
    OBVIOUS
  <2> QED BY <2>1, <2>2
<1>2. I = 2..n
  BY <1>1 DEF IsInjective
<1> HIDE DEF I, n
<1>3. \A m \in Nat : m > 0 => Cardinality(2..m) = m - 1
  <2>1. \A m \in Nat : Cardinality(2..m) = IF 2 > m THEN 0 ELSE m - 2 + 1
    BY FS_Interval
  <2> QED BY <2>1
<1>4. \A i \in 2..n : Cardinality({j \in 2..n : j <= i}) = i - 1
  <2> SUFFICES ASSUME NEW i \in 2..n PROVE Cardinality({j \in 2..n : j <= i}) = i - 1
    OBVIOUS
  <2>1. {j \in 2..n : j <= i} = 2..i /\ i \in Nat /\ i > 0
    BY <1>1
  <2> QED BY <2>1, <1>3
<1>5. \A k \in 1..(n - 1) : (CHOOSE i \in I : Cardinality({j \in I : j <= i}) = k) = k + 1
  <2> SUFFICES ASSUME NEW k \in 1..(n - 1)
               PROVE  (CHOOSE i \in I : Cardinality({j \in I : j <= i}) = k) = k + 1
    OBVIOUS
  <2>1. k + 1 \in 2..n /\ (k + 1) - 1 = k /\ \A i \in 2..n : i - 1 = k => i = k + 1
    BY <1>1
  <2> QED BY <1>2, <1>4, <2>1
<1>6. Cardinality(I) = n - 1
  BY <1>1, <1>2, <1>3
<1>7. Without(q, Head(q)) =
        [k \in 1..(n - 1) |-> q[CHOOSE i \in I : Cardinality({j \in I : j <= i}) = k]]
  BY <1>6 DEF Without, Pick, I
<1> QED BY <1>1, <1>5, <1>7

(***************************************************************************)
(* A non-empty set of table indices has a first one.                       *)
(***************************************************************************)
LEMMA SmallestExists ==
  ASSUME NEW I \in SUBSET Nat, I # {}
  PROVE  \E i \in I : \A j \in I : i <= j
<1>1. PICK n \in I : TRUE
  OBVIOUS
<1> DEFINE J == {j \in 1..(n + 1) : j - 1 \in I}
<1>2. n + 1 \in Nat /\ n + 1 \in J /\ J \in SUBSET (1..(n + 1))
  OBVIOUS
<1> HIDE DEF J
<1>3. /\ IsFiniteSet(J)
      /\ \A i \in J : Rank(J, i) \in 1..Cardinality(J)
      /\ \A i, j \in J : i < j => Rank(J, i) < Rank(J, j)
      /\ \A k \in 1..Cardinality(J) : \E i \in J : Rank(J, i) = k
  BY <1>2, RankBijective
<1>4. Cardinality(J) \in Nat /\ 1 \in 1..Cardinality(J)
  BY <1>2, <1>3, FS_CardinalityType
<1>5. PICK i \in J : Rank(J, i) = 1
  BY <1>3, <1>4
<1>6. \A j \in J : i <= j
  <2> SUFFICES ASSUME NEW j \in J, j < i PROVE FALSE
    BY <1>2
  <2>1. Rank(J, j) < Rank(J, i) /\ Rank(J, j) \in 1..Cardinality(J)
    BY <1>3
  <2> QED BY <2>1, <1>4, <1>5
<1>7. i - 1 \in I /\ i \in 1..(n + 1)
  BY <1>2 DEF J
<1>8. \A j \in I : i - 1 <= j
  <2> SUFFICES ASSUME NEW j \in I PROVE i - 1 <= j
    OBVIOUS
  <2>1. CASE j <= n
    <3>1. j + 1 \in J
      BY <2>1 DEF J
    <3> QED BY <3>1, <1>6, <1>7
  <2>2. CASE j > n
    BY <2>2, <1>7
  <2> QED BY <2>1, <2>2
<1> QED BY <1>7, <1>8

-----------------------------------------------------------------------
(***************************************************************************)
(* Definitions by recursion, and folds: a value in T when every step of    *)
(* theirs leads from T to T.                                               *)
(***************************************************************************)
HasRecursion(a, n, T, base, F) ==
  \E g \in [a..n -> T] : \A i \in a..n : g[i] = IF i = a THEN base ELSE F[i][g[i - 1]]

LEMMA RecursionExists ==
  ASSUME NEW a \in Nat, NEW n \in Nat, NEW T, NEW base \in T,
         NEW F \in [1..n -> [T -> T]]
  PROVE  HasRecursion(a, n, T, base, F)
<1> DEFINE Is(g, m) == /\ g \in [a..m -> T]
                       /\ \A i \in a..m : g[i] = IF i = a THEN base ELSE F[i][g[i - 1]]
           Bad == {m \in 0..n : \A g : ~Is(g, m)}
<1>1. Bad = {}
  <2> SUFFICES ASSUME Bad # {} PROVE FALSE
    OBVIOUS
  <2>1. Bad \in SUBSET Nat
    OBVIOUS
  <2>2. PICK m \in Bad : \A j \in Bad : m <= j
    <3> HIDE DEF Bad
    <3> QED BY <2>1, SmallestExists
  <2>3. CASE m < a
    <3> DEFINE g == [i \in a..m |-> base]
    <3>1. a..m = {}
      BY <2>3
    <3>2. Is(g, m)
      BY <3>1
    <3> QED BY <2>2, <3>2
  <2>4. CASE m = a
    <3> DEFINE g == [i \in a..m |-> base]
    <3>1. Is(g, m)
      BY <2>4
    <3> QED BY <2>2, <3>1
  <2>5. CASE m > a
    <3>0. m \in 0..n /\ m \in Bad
      BY <2>2
    <3>1. m \in 1..n /\ m - 1 \in 0..n /\ m - 1 \notin Bad /\ m - 1 \in a..m
      <4> HIDE DEF Bad
      <4> QED BY <2>2, <2>5, <3>0
    <3>2. PICK g : Is(g, m - 1)
      BY <3>1
    <3> DEFINE h == [i \in a..m |-> IF i = m THEN F[m][g[m - 1]] ELSE g[i]]
    <3>3. g \in [a..(m - 1) -> T] /\ g[m - 1] \in T
      BY <2>5, <3>1, <3>2
    <3>4. F[m][g[m - 1]] \in T
      BY <3>1, <3>3
    <3>5. h \in [a..m -> T]
      BY <3>1, <3>3, <3>4
    <3>6. ASSUME NEW i \in a..m
          PROVE  h[i] = IF i = a THEN base ELSE F[i][h[i - 1]]
      <4>1. CASE i = m
        <5>1. h[m] = F[m][g[m - 1]] /\ h[m - 1] = g[m - 1]
          BY <2>5, <3>1
        <5> HIDE DEF h
        <5> QED BY <2>5, <3>1, <4>1, <5>1
      <4>2. CASE i # m
        <5>1. i \in a..(m - 1) /\ (i # a => i - 1 \in a..m /\ i - 1 # m)
          BY <3>1, <4>2
        <5>2. h[i] = g[i] /\ (i # a => h[i - 1] = g[i - 1])
          BY <5>1, <4>2
        <5>3. g[i] = IF i = a THEN base ELSE F[i][g[i - 1]]
          BY <3>2, <5>1
        <5> HIDE DEF h
        <5> QED BY <5>2, <5>3
      <4> QED BY <4>1, <4>2
    <3>7. Is(h, m)
      <4> HIDE DEF h
      <4> QED BY <3>5, <3>6
    <3> QED BY <2>2, <3>7
  <2> QED BY <2>2, <2>3, <2>4, <2>5
<1>2. PICK g : Is(g, n)
  <2>1. n \in 0..n
    OBVIOUS
  <2> HIDE DEF Is
  <2> QED BY <1>1, <2>1
<1> QED BY <1>2 DEF HasRecursion

LEMMA RecursionClosed ==
  ASSUME NEW a \in Nat, NEW n \in Nat, NEW T, NEW g, a <= n => g[a] \in T,
         \A i \in (a + 1)..n : g[i - 1] \in T => g[i] \in T
  PROVE  \A i \in a..n : g[i] \in T
<1> DEFINE Bad == {i \in a..n : g[i] \notin T}
<1> SUFFICES ASSUME Bad # {} PROVE FALSE
  OBVIOUS
<1>1. Bad \in SUBSET Nat
  OBVIOUS
<1>2. PICK m \in Bad : \A j \in Bad : m <= j
  <2> HIDE DEF Bad
  <2> QED BY <1>1, SmallestExists
<1>3. m # a
  BY <1>2
<1>4. m \in (a + 1)..n /\ m - 1 \in a..n /\ m - 1 \notin Bad
  BY <1>2, <1>3
<1> QED BY <1>2, <1>4

\* The sets that are left to fold, from the smallest.
HasFold(S, T, base, F, pick) ==
  \E g \in [SUBSET S -> T] : \A s \in SUBSET S :
    g[s] = IF s = {} THEN base ELSE F[pick[s]][g[s \ {pick[s]}]]

LEMMA FoldExists ==
  ASSUME NEW S, IsFiniteSet(S), NEW T, NEW base \in T, NEW F \in [S -> [T -> T]],
         NEW pick, \A s \in SUBSET S : s # {} => pick[s] \in s
  PROVE  HasFold(S, T, base, F, pick)
<1> DEFINE Upto(m) == {s \in SUBSET S : Cardinality(s) <= m}
           Is(g, m) == /\ g \in [Upto(m) -> T]
                       /\ \A s \in Upto(m) :
                            g[s] = IF s = {} THEN base ELSE F[pick[s]][g[s \ {pick[s]}]]
           Bad == {m \in Nat : \A g : ~Is(g, m)}
<1>1. ASSUME NEW s \in SUBSET S
      PROVE  /\ IsFiniteSet(s) /\ Cardinality(s) \in Nat
             /\ Cardinality(s) <= Cardinality(S) /\ (Cardinality(s) = 0 <=> s = {})
  BY FS_Subset, FS_CardinalityType, FS_EmptySet
<1>2. ASSUME NEW s \in SUBSET S, s # {}
      PROVE  /\ pick[s] \in s /\ s \ {pick[s]} \in SUBSET S
             /\ Cardinality(s \ {pick[s]}) = Cardinality(s) - 1
  BY <1>1, <1>2, FS_RemoveElement
<1>3. Bad = {}
  <2> SUFFICES ASSUME Bad # {} PROVE FALSE
    OBVIOUS
  <2>1. Bad \in SUBSET Nat
    OBVIOUS
  <2>2. PICK m \in Bad : \A j \in Bad : m <= j
    <3> HIDE DEF Bad
    <3> QED BY <2>1, SmallestExists
  <2>3. CASE m = 0
    <3> DEFINE g == [s \in Upto(m) |-> base]
    <3>1. \A s \in Upto(m) : s = {}
      BY <1>1, <2>3
    <3>2. Is(g, m)
      BY <3>1
    <3> QED BY <2>2, <3>2
  <2>4. CASE m # 0
    <3>0. m \in Nat /\ m \in Bad
      BY <2>2
    <3>1. m \in Nat /\ m - 1 \in Nat /\ m - 1 \notin Bad
      <4> HIDE DEF Bad
      <4> QED BY <2>2, <2>4, <3>0
    <3>2. PICK g : Is(g, m - 1)
      BY <3>1
    <3> HIDE DEF Bad
    <3> DEFINE step(s) == IF s = {} THEN base ELSE F[pick[s]][g[s \ {pick[s]}]]
               h == [s \in Upto(m) |-> step(s)]
    <3>3. ASSUME NEW s \in Upto(m), s # {}
          PROVE  s \ {pick[s]} \in Upto(m - 1) /\ s \ {pick[s]} \in Upto(m)
      <4>1. s \in SUBSET S /\ Cardinality(s) <= m
        BY <3>3
      <4>2. /\ s \ {pick[s]} \in SUBSET S /\ Cardinality(s) \in Nat
            /\ Cardinality(s \ {pick[s]}) = Cardinality(s) - 1
        BY <1>1, <1>2, <3>3, <4>1
      <4>3. Cardinality(s \ {pick[s]}) <= m - 1 /\ Cardinality(s \ {pick[s]}) <= m
        BY <3>1, <4>1, <4>2
      <4> QED BY <4>2, <4>3
    <3>4. ASSUME NEW s \in Upto(m)
          PROVE  step(s) \in T
      <4>1. CASE s # {}
        <5>1. g[s \ {pick[s]}] \in T /\ pick[s] \in S
          BY <1>2, <3>2, <3>3, <4>1
        <5> QED BY <4>1, <5>1
      <4> QED BY <4>1
    <3>5. \A s \in Upto(m - 1) : s \in Upto(m) /\ step(s) = g[s]
      <4>1. ASSUME NEW s \in SUBSET S, Cardinality(s) <= m - 1
            PROVE  Cardinality(s) <= m
        <5>1. Cardinality(s) \in Nat
          BY <1>1
        <5> QED BY <3>1, <4>1, <5>1
      <4>2. \A s \in Upto(m - 1) : step(s) = g[s]
        BY <3>2
      <4> HIDE DEF step
      <4> QED BY <4>1, <4>2
    <3>6. h \in [Upto(m) -> T] /\ \A s \in Upto(m) : h[s] = step(s)
      BY <3>4
    <3>7. ASSUME NEW s \in Upto(m)
          PROVE  h[s] = IF s = {} THEN base ELSE F[pick[s]][h[s \ {pick[s]}]]
      <4>1. CASE s # {}
        <5>1. h[s \ {pick[s]}] = g[s \ {pick[s]}]
          BY <3>3, <3>5, <3>6, <4>1
        <5>2. h[s] = F[pick[s]][g[s \ {pick[s]}]]
          BY <3>6, <4>1
        <5> QED BY <4>1, <5>1, <5>2
      <4>2. CASE s = {}
        BY <3>6, <4>2
      <4> QED BY <4>1, <4>2
    <3>8. Is(h, m)
      <4> HIDE DEF h
      <4> QED BY <3>6, <3>7
    <3> HIDE DEF Is, h
    <3> QED BY <3>0, <3>8 DEF Bad
  <2> QED BY <2>3, <2>4
<1>4. Cardinality(S) \in Nat /\ SUBSET S = Upto(Cardinality(S))
  BY <1>1
<1>5. PICK g : Is(g, Cardinality(S))
  <2> HIDE DEF Is
  <2> QED BY <1>3, <1>4
<1>6. /\ g \in [SUBSET S -> T]
      /\ \A s \in SUBSET S : g[s] = IF s = {} THEN base ELSE F[pick[s]][g[s \ {pick[s]}]]
  BY <1>4, <1>5
<1> QED BY <1>6 DEF HasFold

LEMMA FoldClosed ==
  ASSUME NEW S, IsFiniteSet(S), NEW T, NEW g, g[{}] \in T,
         \A s \in SUBSET S : s # {} => \E x \in s : g[s \ {x}] \in T => g[s] \in T
  PROVE  g[S] \in T
<1> DEFINE Bad == {m \in Nat : \E s \in SUBSET S : Cardinality(s) = m /\ g[s] \notin T}
<1>1. ASSUME NEW s \in SUBSET S
      PROVE  /\ IsFiniteSet(s) /\ Cardinality(s) \in Nat
             /\ (Cardinality(s) = 0 <=> s = {})
  BY FS_Subset, FS_CardinalityType, FS_EmptySet
<1>2. SUFFICES ASSUME Bad # {} PROVE FALSE
  BY <1>1
<1>3. Bad \in SUBSET Nat
  OBVIOUS
<1>4. PICK m \in Bad : \A j \in Bad : m <= j
  <2> HIDE DEF Bad
  <2> QED BY <1>2, <1>3, SmallestExists
<1>5. PICK s \in SUBSET S : Cardinality(s) = m /\ g[s] \notin T
  BY <1>4
<1>6. s # {}
  BY <1>5
<1>7. PICK x \in s : g[s \ {x}] \in T => g[s] \in T
  BY <1>6
<1>8. s \ {x} \in SUBSET S /\ Cardinality(s \ {x}) = m - 1 /\ m - 1 \in Nat
  <2>1. IsFiniteSet(s) /\ Cardinality(s) \in Nat /\ Cardinality(s) # 0
    BY <1>1, <1>6
  <2>2. Cardinality(s \ {x}) = Cardinality(s) - 1
    BY <2>1, FS_RemoveElement
  <2> QED BY <1>5, <2>1, <2>2
<1>9. m - 1 \notin Bad
  BY <1>4, <1>8
<1> QED BY <1>5, <1>7, <1>8, <1>9

-----------------------------------------------------------------------
(***************************************************************************)
(* Sums of natural numbers.                                                *)
(***************************************************************************)
\* g sums w up over every subset of S, one element after another.
IsSum(w, S, g) ==
  /\ IsFiniteSet(S) /\ w \in [S -> Nat]
  /\ g \in [SUBSET S -> Nat] /\ g[{}] = 0
  /\ \A s \in SUBSET S : s # {} => \E x \in s : g[s] = w[x] + g[s \ {x}]

LEMMA SumUnfolds ==
  ASSUME NEW n \in Nat, NEW w \in [1..n -> Nat]
  PROVE  \E g : IsSum(w, 1..n, g) /\ SumFunction(w) = g[1..n]
<1> DEFINE S == 1..n
           F == [k \in S |-> [c \in Nat |-> w[k] + c]]
           e(f, s) == IF s = {} THEN 0
                      ELSE w[CHOOSE x \in s : TRUE] + f[s \ {CHOOSE x \in s : TRUE}]
           iter == CHOOSE f : f = [s \in SUBSET S |-> e(f, s)]
<1>1. F \in [S -> [Nat -> Nat]] /\ IsFiniteSet(S) /\ 0 \in Nat
  <2>1. \A k \in S : \A c \in Nat : w[k] + c \in Nat
    OBVIOUS
  <2>2. IsFiniteSet(S)
    BY FS_Interval
  <2> QED BY <2>1, <2>2
<1>2. SumFunction(w) = iter[S]
  <2>1. DOMAIN w = S
    OBVIOUS
  <2> QED BY <2>1 DEF SumFunction, SumFunctionOnSet, FoldFunctionOnSet, MapThenFoldSet
<1> DEFINE pick == [s \in SUBSET S |-> CHOOSE x \in s : TRUE]
<1>3. ASSUME NEW s \in SUBSET S, s # {}
      PROVE  /\ pick[s] \in s /\ pick[s] \in S /\ s \ {pick[s]} \in SUBSET S
             /\ pick[s] = CHOOSE x \in s : TRUE
  BY <1>3
<1>4. \A k \in S : w[k] \in Nat
  OBVIOUS
<1>5. \A k \in S : \A c \in Nat : F[k][c] = w[k] + c
  OBVIOUS
<1> HIDE DEF pick, F, S
<1>6. \A s \in SUBSET S : s # {} => pick[s] \in s
  BY <1>3
<1>7. PICK g \in [SUBSET S -> Nat] : \A s \in SUBSET S :
        g[s] = IF s = {} THEN 0 ELSE F[pick[s]][g[s \ {pick[s]}]]
  <2>1. HasFold(S, Nat, 0, F, pick)
    BY <1>1, <1>6, FoldExists
  <2> QED BY <2>1 DEF HasFold
<1>8. \A s \in SUBSET S : g[s] = e(g, s)
  <2> SUFFICES ASSUME NEW s \in SUBSET S PROVE g[s] = e(g, s)
    OBVIOUS
  <2>1. CASE s = {}
    BY <1>7, <2>1
  <2>2. CASE s # {}
    <3>1. g[s] = F[pick[s]][g[s \ {pick[s]}]]
      BY <1>7, <2>2
    <3>2. g[s \ {pick[s]}] \in Nat /\ pick[s] \in S
      BY <1>3, <1>7, <2>2
    <3>3. g[s] = w[pick[s]] + g[s \ {pick[s]}]
      BY <1>5, <3>1, <3>2
    <3>4. pick[s] = CHOOSE x \in s : TRUE
      BY <1>3, <2>2
    <3> QED BY <2>2, <3>3, <3>4
  <2> QED BY <2>1, <2>2
<1> HIDE DEF e
<1>9. g = [s \in SUBSET S |-> e(g, s)]
  BY <1>8
<1>10. iter = [s \in SUBSET S |-> e(iter, s)]
  BY <1>9
<1> HIDE DEF iter
<1>11. \A s \in SUBSET S : iter[s] = e(iter, s)
  BY <1>10
<1>12. iter[{}] = 0
  <2>1. {} \in SUBSET S
    OBVIOUS
  <2>2. e(iter, {}) = 0
    BY DEF e
  <2>3. iter[{}] = e(iter, {})
    BY <1>11, <2>1
  <2> QED BY <2>2, <2>3
<1>13. ASSUME NEW s \in SUBSET S, s # {}
       PROVE  \E x \in s : x \in S /\ iter[s] = w[x] + iter[s \ {x}]
  <2>1. iter[s] = w[pick[s]] + iter[s \ {pick[s]}]
    BY <1>3, <1>11, <1>13 DEF e
  <2> QED BY <1>3, <1>13, <2>1
<1>14. ASSUME NEW t \in SUBSET S PROVE iter[t] \in Nat
  <2>1. IsFiniteSet(t)
    BY <1>1, FS_Subset
  <2>2. iter[{}] \in Nat
    BY <1>12
  <2>3. ASSUME NEW s \in SUBSET t, s # {}
        PROVE  \E x \in s : iter[s \ {x}] \in Nat => iter[s] \in Nat
    <3>1. PICK x \in s : x \in S /\ iter[s] = w[x] + iter[s \ {x}]
      BY <1>13, <2>3
    <3>2. iter[s \ {x}] \in Nat => iter[s] \in Nat
      BY <1>4, <3>1
    <3> QED BY <3>2
  <2> QED BY <2>1, <2>2, <2>3, FoldClosed
<1>15. IsSum(w, S, iter)
  <2>1. iter \in [SUBSET S -> Nat]
    BY <1>10, <1>14
  <2>2. w \in [S -> Nat]
    BY DEF S
  <2> QED BY <1>1, <1>12, <1>13, <2>1, <2>2 DEF IsSum
<1> QED BY <1>2, <1>15 DEF S

LEMMA SumIs ==
  ASSUME NEW n \in Nat, NEW w \in [1..n -> Nat]
  PROVE  SumFunction(w) \in Nat
<1>1. PICK g : IsSum(w, 1..n, g) /\ SumFunction(w) = g[1..n]
  BY SumUnfolds
<1> QED BY <1>1 DEF IsSum

\* The elements may be taken in any order.
LEMMA SumRemoves ==
  ASSUME NEW S, NEW w, NEW g, IsSum(w, S, g), NEW t \in SUBSET S, NEW x \in t
  PROVE  g[t] = w[x] + g[t \ {x}]
<1> DEFINE Bad == {m \in Nat : \E s \in SUBSET S : /\ Cardinality(s) = m
                                                   /\ \E y \in s : g[s] # w[y] + g[s \ {y}]}
<1>1. ASSUME NEW s \in SUBSET S
      PROVE  IsFiniteSet(s) /\ Cardinality(s) \in Nat
  BY FS_Subset, FS_CardinalityType DEF IsSum
<1>2. SUFFICES ASSUME Bad # {} PROVE FALSE
  BY <1>1
<1>3. Bad \in SUBSET Nat
  OBVIOUS
<1>4. PICK m \in Bad : \A j \in Bad : m <= j
  <2> HIDE DEF Bad
  <2> QED BY <1>2, <1>3, SmallestExists
<1>5. PICK s \in SUBSET S : Cardinality(s) = m /\ \E y \in s : g[s] # w[y] + g[s \ {y}]
  BY <1>4
<1>6. PICK y \in s : g[s] # w[y] + g[s \ {y}]
  BY <1>5
<1>7. PICK z \in s : g[s] = w[z] + g[s \ {z}]
  BY <1>6 DEF IsSum
<1>8. y # z /\ y \in S /\ z \in S
  BY <1>6, <1>7
<1>9. ASSUME NEW a \in s
      PROVE  /\ s \ {a} \in SUBSET S /\ Cardinality(s \ {a}) \in Nat
             /\ Cardinality(s \ {a}) < m
  <2>1. IsFiniteSet(s) /\ Cardinality(s) \in Nat
    BY <1>1
  <2>2. Cardinality(s \ {a}) = Cardinality(s) - 1
    BY <2>1, FS_RemoveElement
  <2>3. s \ {a} \in SUBSET S /\ Cardinality(s \ {a}) \in Nat
    BY <1>1
  <2> QED BY <1>5, <2>1, <2>2, <2>3
<1>10. ASSUME NEW a \in s, NEW b \in s \ {a}
       PROVE  g[s \ {a}] = w[b] + g[(s \ {a}) \ {b}]
  <2>1. Cardinality(s \ {a}) \notin Bad
    BY <1>4, <1>9
  <2> QED BY <1>9, <2>1
<1>11. /\ g[s \ {z}] = w[y] + g[(s \ {z}) \ {y}]
       /\ g[s \ {y}] = w[z] + g[(s \ {y}) \ {z}]
  BY <1>6, <1>7, <1>8, <1>10
<1>12. (s \ {z}) \ {y} = (s \ {y}) \ {z} /\ (s \ {y}) \ {z} \in SUBSET S
  OBVIOUS
<1>13. w[y] \in Nat /\ w[z] \in Nat /\ g[(s \ {y}) \ {z}] \in Nat
  BY <1>8, <1>12 DEF IsSum
<1> DEFINE rest == g[(s \ {y}) \ {z}]
<1>14. g[s \ {z}] = w[y] + rest /\ g[s \ {y}] = w[z] + rest
  BY <1>11, <1>12
<1> HIDE DEF rest
<1>15. rest \in Nat
  BY <1>13 DEF rest
<1> QED BY <1>6, <1>7, <1>13, <1>14, <1>15

LEMMA SumAgrees ==
  ASSUME NEW R, NEW w, NEW f, IsSum(w, R, f), NEW S, NEW v, NEW g, IsSum(v, S, g),
         S \subseteq R, \A k \in S : v[k] = w[k]
  PROVE  f[S] = g[S]
<1> DEFINE same == [s \in SUBSET S |-> IF f[s] = g[s] THEN 1 ELSE 0]
<1>1. IsFiniteSet(S) /\ v \in [S -> Nat] /\ g \in [SUBSET S -> Nat]
  BY DEF IsSum
<1>2. same[{}] \in {1}
  BY DEF IsSum
<1>3. ASSUME NEW s \in SUBSET S, s # {}
      PROVE  \E x \in s : same[s \ {x}] \in {1} => same[s] \in {1}
  <2>1. PICK x \in s : g[s] = v[x] + g[s \ {x}]
    BY <1>3 DEF IsSum
  <2>2. f[s] = w[x] + f[s \ {x}]
    <3>1. s \in SUBSET R
      OBVIOUS
    <3> QED BY <3>1, SumRemoves
  <2>3. v[x] = w[x] /\ s \ {x} \in SUBSET S
    OBVIOUS
  <2> QED BY <2>1, <2>2, <2>3
<1>4. same[S] \in {1}
  <2> DEFINE T == {1}
  <2>1. \A s \in SUBSET S : s # {} => \E x \in s : same[s \ {x}] \in T => same[s] \in T
    BY <1>3
  <2>2. same[{}] \in T
    BY <1>2
  <2> HIDE DEF same, T
  <2>3. same[S] \in T
    BY <1>1, <2>1, <2>2, FoldClosed
  <2> QED BY <2>3 DEF T
<1> QED BY <1>4

LEMMA SumGrows ==
  ASSUME NEW R, NEW w, NEW f, IsSum(w, R, f), NEW S, NEW v, NEW g, IsSum(v, S, g),
         NEW x \in R, S = R \ {x}, \A k \in S : v[k] = w[k]
  PROVE  f[R] = g[S] + w[x]
<1>1. R \in SUBSET R /\ S \subseteq R
  OBVIOUS
<1>2. f[R] = w[x] + f[R \ {x}]
  BY <1>1, SumRemoves
<1>3. f[S] = g[S]
  BY <1>1, SumAgrees
<1>4. w[x] \in Nat /\ g[S] \in Nat
  BY DEF IsSum
<1> QED BY <1>2, <1>3, <1>4

LEMMA SumStep ==
  ASSUME NEW n \in Nat, NEW w \in [1..(n + 1) -> Nat], NEW v \in [1..n -> Nat],
         \A k \in 1..n : v[k] = w[k]
  PROVE  SumFunction(w) = SumFunction(v) + w[n + 1]
<1>1. PICK f : IsSum(w, 1..(n + 1), f) /\ SumFunction(w) = f[1..(n + 1)]
  <2>1. n + 1 \in Nat
    OBVIOUS
  <2> QED BY <2>1, SumUnfolds
<1>2. PICK g : IsSum(v, 1..n, g) /\ SumFunction(v) = g[1..n]
  BY SumUnfolds
<1>3. n + 1 \in 1..(n + 1) /\ 1..n = (1..(n + 1)) \ {n + 1}
  OBVIOUS
<1> QED BY <1>1, <1>2, <1>3, SumGrows

\* P is the sum of the first k values of w, for every k.
Sums(w, n, P) ==
  /\ P \in [0..n -> Nat] /\ P[0] = 0
  /\ \A k \in 1..n : P[k] = P[k - 1] + w[k]

LEMMA SumOfFirst ==
  ASSUME NEW n \in Nat, NEW w, NEW g, IsSum(w, 1..n, g), NEW k \in 1..n
  PROVE  g[1..k] = g[1..(k - 1)] + w[k] /\ g[1..(k - 1)] \in Nat /\ w[k] \in Nat
<1>1. ASSUME NEW S, NEW t, NEW x, S = 1..n, t = 1..k, x = k
      PROVE  g[t] = w[x] + g[t \ {x}]
  <2>1. t \in SUBSET S /\ x \in t /\ IsSum(w, S, g)
    BY <1>1
  <2> QED BY <2>1, SumRemoves
<1>2. (1..k) \ {k} = 1..(k - 1) /\ 1..(k - 1) \in SUBSET (1..n)
  OBVIOUS
<1>3. g[1..k] = w[k] + g[1..(k - 1)]
  BY <1>1, <1>2
<1>4. g[1..(k - 1)] \in Nat /\ w[k] \in Nat
  BY <1>2 DEF IsSum
<1> QED BY <1>3, <1>4

LEMMA SumsAre ==
  ASSUME NEW n \in Nat, NEW w, NEW g, IsSum(w, 1..n, g)
  PROVE  \E P : Sums(w, n, P) /\ P[n] = g[1..n]
<1> DEFINE P == [k \in 0..n |-> g[1..k]]
<1>1. ASSUME NEW k \in 0..n PROVE g[1..k] \in Nat
  <2>1. 1..k \in SUBSET (1..n)
    OBVIOUS
  <2> QED BY <2>1 DEF IsSum
<1>2. P \in [0..n -> Nat]
  BY <1>1
<1>3. P[0] = 0
  <2>1. 1..0 = {}
    OBVIOUS
  <2> QED BY <2>1 DEF IsSum
<1>4. ASSUME NEW k \in 1..n PROVE P[k] = P[k - 1] + w[k]
  <2>1. k \in 0..n /\ k - 1 \in 0..n
    OBVIOUS
  <2>2. g[1..k] = g[1..(k - 1)] + w[k]
    BY SumOfFirst
  <2> QED BY <2>1, <2>2
<1>5. P[n] = g[1..n]
  OBVIOUS
<1> QED BY <1>2, <1>3, <1>4, <1>5 DEF Sums

LEMMA SumsExist ==
  ASSUME NEW n \in Nat, NEW w \in [1..n -> Nat]
  PROVE  \E P : Sums(w, n, P) /\ SumFunction(w) = P[n]
<1>1. PICK g : IsSum(w, 1..n, g) /\ SumFunction(w) = g[1..n]
  BY SumUnfolds
<1> QED BY <1>1, SumsAre

LEMMA SumIsLast ==
  ASSUME NEW n \in Nat, NEW w \in [1..n -> Nat], NEW P, Sums(w, n, P)
  PROVE  SumFunction(w) = P[n]
<1>1. PICK Q : Sums(w, n, Q) /\ SumFunction(w) = Q[n]
  BY SumsExist
<1> DEFINE apart == [k \in 0..n |-> P[k] - Q[k]]
           T == {0}
<1>2. apart[0] \in T
  BY <1>1 DEF Sums
<1>3. ASSUME NEW k \in (0 + 1)..n, apart[k - 1] \in T
      PROVE  apart[k] \in T
  <2>1. k \in 1..n /\ k \in 0..n /\ k - 1 \in 0..n
    OBVIOUS
  <2>2. P[k] = P[k - 1] + w[k] /\ Q[k] = Q[k - 1] + w[k] /\ w[k] \in Nat
    BY <1>1, <2>1 DEF Sums
  <2>3. P[k - 1] \in Nat /\ Q[k - 1] \in Nat
    BY <1>1, <2>1 DEF Sums
  <2>4. P[k - 1] = Q[k - 1]
    BY <1>3, <2>1, <2>3
  <2> QED BY <2>1, <2>2, <2>3, <2>4
<1> HIDE DEF apart, T
<1>4. \A k \in 0..n : apart[k] \in T
  BY <1>2, <1>3, RecursionClosed
<1>5. P[n] - Q[n] = 0 /\ P[n] \in Nat /\ Q[n] \in Nat
  BY <1>1, <1>4 DEF apart, T, Sums
<1> QED BY <1>1, <1>5

\* Sums of sequences of natural numbers.
LEMMA SumShort ==
  /\ SumFunction(<<>>) = 0
  /\ \A x \in Nat : SumFunction(<<x>>) = x
<1>1. SumFunction(<<>>) = 0
  <2> DEFINE w == <<>>
             P == [k \in 0..0 |-> 0]
  <2>1. w \in [1..0 -> Nat] /\ Sums(w, 0, P) /\ P[0] = 0
    BY DEF Sums
  <2> HIDE DEF w, P
  <2>2. SumFunction(w) = P[0]
    BY <2>1, SumIsLast
  <2> QED BY <2>1, <2>2 DEF w
<1>2. ASSUME NEW x \in Nat PROVE SumFunction(<<x>>) = x
  <2> DEFINE w == <<x>>
             P == [k \in 0..1 |-> IF k = 0 THEN 0 ELSE x]
  <2>1. w \in [1..1 -> Nat] /\ w[1] = x /\ P[0] = 0 /\ P[1] = x /\ P \in [0..1 -> Nat]
    OBVIOUS
  <2> HIDE DEF w, P
  <2>2. Sums(w, 1, P)
    <3> SUFFICES ASSUME NEW k \in 1..1 PROVE P[k] = P[k - 1] + w[k]
      BY <2>1 DEF Sums
    <3>1. k = 1 /\ k - 1 = 0
      OBVIOUS
    <3> QED BY <2>1, <3>1
  <2>3. SumFunction(w) = P[1]
    BY <2>1, <2>2, SumIsLast
  <2> QED BY <2>1, <2>3 DEF w
<1> QED BY <1>1, <1>2

LEMMA SumConcat ==
  ASSUME NEW s \in Seq(Nat), NEW t \in Seq(Nat)
  PROVE  /\ SumFunction(s \o t) = SumFunction(s) + SumFunction(t)
         /\ SumFunction(s) \in Nat /\ SumFunction(t) \in Nat
<1> DEFINE m == Len(s)
           n == Len(t)
           w == s \o t
<1>1. /\ m \in Nat /\ n \in Nat /\ m + n \in Nat
      /\ s \in [1..m -> Nat] /\ t \in [1..n -> Nat] /\ w \in [1..(m + n) -> Nat]
      /\ \A k \in 1..(m + n) : w[k] = IF k <= m THEN s[k] ELSE t[k - m]
  <2>1. m \in Nat /\ n \in Nat /\ s \in [1..m -> Nat] /\ t \in [1..n -> Nat]
    OBVIOUS
  <2>2. w \in Seq(Nat) /\ Len(w) = m + n
    OBVIOUS
  <2>3. ASSUME NEW k \in 1..(m + n) PROVE w[k] = IF k <= m THEN s[k] ELSE t[k - m]
    OBVIOUS
  <2> HIDE DEF m, n, w
  <2>4. w \in [1..(m + n) -> Nat]
    BY <2>2
  <2> QED BY <2>1, <2>3, <2>4
<1> HIDE DEF m, n, w
<1>2. PICK P : Sums(s, m, P) /\ SumFunction(s) = P[m]
  BY <1>1, SumsExist
<1>3. PICK Q : Sums(t, n, Q) /\ SumFunction(t) = Q[n]
  BY <1>1, SumsExist
<1> DEFINE R == [k \in 0..(m + n) |-> IF k <= m THEN P[k] ELSE P[m] + Q[k - m]]
<1>4. /\ P \in [0..m -> Nat] /\ Q \in [0..n -> Nat] /\ P[0] = 0 /\ Q[0] = 0
      /\ \A k \in 1..m : P[k] = P[k - 1] + s[k]
      /\ \A k \in 1..n : Q[k] = Q[k - 1] + t[k]
      /\ P[m] \in Nat /\ Q[n] \in Nat
  BY <1>1, <1>2, <1>3 DEF Sums
<1>5. R \in [0..(m + n) -> Nat]
  <2>1. ASSUME NEW k \in 0..(m + n), k <= m PROVE P[k] \in Nat
    BY <1>1, <1>4, <2>1
  <2>2. ASSUME NEW k \in 0..(m + n), ~(k <= m) PROVE P[m] + Q[k - m] \in Nat
    <3>1. k - m \in 0..n
      BY <1>1, <2>2
    <3>2. Q[k - m] \in Nat
      BY <1>4, <3>1
    <3> QED BY <1>4, <3>2
  <2> QED BY <2>1, <2>2
<1>6. R[0] = 0 /\ R[m + n] = P[m] + Q[n]
  BY <1>1, <1>4
<1>7. ASSUME NEW k \in 1..(m + n) PROVE R[k] = R[k - 1] + w[k]
  <2>0. k \in 0..(m + n) /\ k - 1 \in 0..(m + n)
    BY <1>1
  <2>1. CASE k <= m
    <3>1. k \in 1..m /\ k - 1 <= m
      BY <1>1, <2>1
    <3>2. R[k] = P[k] /\ R[k - 1] = P[k - 1] /\ w[k] = s[k]
      BY <1>1, <2>0, <2>1, <3>1
    <3> QED BY <1>4, <3>1, <3>2
  <2>2. CASE k > m
    <3>1. k - m \in 1..n /\ (k - 1) - m = (k - m) - 1 /\ (k - m) - 1 \in 0..n
      BY <1>1, <2>2
    <3>2. R[k] = P[m] + Q[k - m] /\ w[k] = t[k - m]
      BY <1>1, <2>0, <2>2
    <3>3. R[k - 1] = P[m] + Q[(k - m) - 1]
      <4>1. CASE k - 1 = m
        BY <1>1, <1>4, <2>0, <4>1
      <4>2. CASE k - 1 # m
        BY <1>1, <2>0, <2>2, <3>1, <4>2
      <4> QED BY <4>1, <4>2
    <3>4. Q[k - m] = Q[(k - m) - 1] + t[k - m]
      BY <1>4, <3>1
    <3>5. Q[(k - m) - 1] \in Nat /\ t[k - m] \in Nat
      BY <1>1, <1>4, <3>1
    <3> HIDE DEF R
    <3> QED BY <1>4, <3>2, <3>3, <3>4, <3>5
  <2> QED BY <1>1, <2>1, <2>2
<1> HIDE DEF R
<1>8. SumFunction(w) = R[m + n]
  <2>1. Sums(w, m + n, R)
    BY <1>5, <1>6, <1>7 DEF Sums
  <2> QED BY <1>1, <2>1, SumIsLast
<1> QED BY <1>2, <1>3, <1>4, <1>6, <1>8 DEF w

LEMMA SumTail ==
  ASSUME NEW s \in Seq(Nat), s # <<>>
  PROVE  /\ SumFunction(s) = s[1] + SumFunction(Tail(s))
         /\ s[1] \in Nat /\ Tail(s) \in Seq(Nat) /\ SumFunction(Tail(s)) \in Nat
<1>1. s[1] \in Nat /\ Tail(s) \in Seq(Nat) /\ <<s[1]>> \in Seq(Nat)
  OBVIOUS
<1>2. s = <<s[1]>> \o Tail(s)
  OBVIOUS
<1>3. /\ SumFunction(<<s[1]>> \o Tail(s)) = SumFunction(<<s[1]>>) + SumFunction(Tail(s))
      /\ SumFunction(Tail(s)) \in Nat
  BY <1>1, SumConcat
<1> QED BY <1>1, <1>2, <1>3, SumShort

LEMMA SumFew ==
  /\ \A x \in Nat : \A y \in Nat : SumFunction(<<x, y>>) = x + y
  /\ \A x \in Nat : \A y \in Nat : \A z \in Nat : SumFunction(<<x, y, z>>) = x + y + z
<1>1. ASSUME NEW x \in Nat, NEW y \in Nat PROVE SumFunction(<<x, y>>) = x + y
  <2> DEFINE s == <<x, y>>
  <2>1. s \in Seq(Nat) /\ s # <<>> /\ s[1] = x /\ Tail(s) = <<y>>
    OBVIOUS
  <2> HIDE DEF s
  <2>2. SumFunction(s) = x + SumFunction(<<y>>)
    BY <2>1, SumTail
  <2> QED BY <2>2, SumShort DEF s
<1>2. ASSUME NEW x \in Nat, NEW y \in Nat, NEW z \in Nat
      PROVE  SumFunction(<<x, y, z>>) = x + y + z
  <2> DEFINE s == <<x, y, z>>
  <2>1. s \in Seq(Nat) /\ s # <<>> /\ s[1] = x
    OBVIOUS
  <2>2. Tail(s) = <<y, z>>
    OBVIOUS
  <2> HIDE DEF s
  <2>3. SumFunction(s) = x + SumFunction(<<y, z>>)
    BY <2>1, <2>2, SumTail
  <2>4. SumFunction(s) = x + (y + z)
    BY <1>1, <2>3
  <2>5. x + (y + z) = x + y + z
    OBVIOUS
  <2> QED BY <2>4, <2>5 DEF s
<1> QED BY <1>1, <1>2

\* A value that occurs more than once counts as often.
LEMMA SumRepeats ==
  ASSUME NEW R, NEW w, NEW f, IsSum(w, R, f), NEW A \in SUBSET R, NEW B \in SUBSET (R \ A),
         NEW c \in Nat, \A k \in B : w[k] = c
  PROVE  f[A \cup B] = f[A] + c * Cardinality(B)
<1> DEFINE same == [s \in SUBSET B |-> IF f[A \cup s] = f[A] + c * Cardinality(s) THEN 1 ELSE 0]
           T == {1}
<1>1. IsFiniteSet(B) /\ f \in [SUBSET R -> Nat]
  BY FS_Subset DEF IsSum
<1>2. f[A] \in Nat
  BY <1>1
<1>3. same[{}] \in T
  <2>1. A \cup {} = A /\ Cardinality({}) = 0
    BY FS_EmptySet
  <2>2. f[A] = f[A] + c * 0
    BY <1>2
  <2> QED BY <2>1, <2>2
<1>4. ASSUME NEW s \in SUBSET B, s # {}
      PROVE  \E x \in s : same[s \ {x}] \in T => same[s] \in T
  <2>1. PICK x \in s : TRUE
    BY <1>4
  <2> SUFFICES ASSUME same[s \ {x}] \in T PROVE same[s] \in T
    OBVIOUS
  <2>2. /\ s \ {x} \in SUBSET B /\ A \cup s \in SUBSET R /\ x \in A \cup s
        /\ (A \cup s) \ {x} = A \cup (s \ {x})
    BY <2>1
  <2>3. f[A \cup s] = w[x] + f[A \cup (s \ {x})]
    <3>1. f[A \cup s] = w[x] + f[(A \cup s) \ {x}]
      BY <2>2, SumRemoves
    <3> QED BY <2>2, <3>1
  <2>4. f[A \cup (s \ {x})] = f[A] + c * Cardinality(s \ {x})
    BY <2>2
  <2>5. Cardinality(s) \in Nat /\ Cardinality(s \ {x}) = Cardinality(s) - 1
    <3>1. IsFiniteSet(s)
      BY <1>1, FS_Subset
    <3> QED BY <2>1, <3>1, FS_RemoveElement, FS_CardinalityType
  <2>6. w[x] = c
    BY <2>1
  <2> DEFINE n == Cardinality(s)
  <2>7. f[A \cup s] = c + (f[A] + c * (n - 1)) /\ n \in Nat
    BY <2>3, <2>4, <2>5, <2>6
  <2>8. f[A \cup s] = f[A] + c * n
    <3>1. ASSUME NEW a \in Nat, NEW m \in Nat PROVE c + (a + c * (m - 1)) = a + c * m
      OBVIOUS
    <3> HIDE DEF n
    <3> QED BY <1>2, <2>7, <3>1
  <2> QED BY <2>8
<1> HIDE DEF T
<1>5. same[B] \in T
  <2> HIDE DEF same
  <2> QED BY <1>1, <1>3, <1>4, FoldClosed
<1> QED BY <1>5 DEF T

=======================================================================
