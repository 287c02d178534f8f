------------------------- MODULE ThreadsProofs -------------------------
(***************************************************************************)
(* Theorems about the circular lists of kernel/list/list.c and about the   *)
(* scheduler with threads that is built on them, for any number of tasks   *)
(* and threads.                                                            *)
(*                                                                         *)
(* The proofs read the pointers as sequences: Whole(h, Q, H, E) says that  *)
(* the list of each head x in H leads, in both directions, through exactly *)
(* the entries of Q[x] and back to x, and that an entry in none of these   *)
(* lists is a list of its own.  Every list operation is shown to turn one  *)
(* such reading into another.                                              *)
(***************************************************************************)
EXTENDS Threads, QueuesProofs

Heap(N) == [next : [N -> N], prev : [N -> N]]

\* The i-th node of the ring of x: x itself, its entries, and x again.
Around(x, q, i) == IF i \in 1..Len(q) THEN q[i] ELSE x

In(q, e) == \E i \in 1..Len(q) : q[i] = e

\* No list holds an entry twice and no two lists share one.
Distinct(Q, H) ==
  \A x, y \in H : \A i \in 1..Len(Q[x]), j \in 1..Len(Q[y]) :
    Q[x][i] = Q[y][j] => x = y /\ i = j

\* The pointers of h lead through q, forth and back.
Leads(h, x, q) ==
  \A i \in 0..Len(q) : /\ h.next[Around(x, q, i)] = Around(x, q, i + 1)
                       /\ h.prev[Around(x, q, i + 1)] = Around(x, q, i)

Free(Q, H, e) == \A x \in H : ~In(Q[x], e)

Whole(h, Q, H, E) ==
  /\ h \in Heap(H \cup E)
  /\ Q \in [H -> Seq(E)]
  /\ Distinct(Q, H)
  /\ \A x \in H : Leads(h, x, Q[x])
  /\ \A e \in E : Free(Q, H, e) => h.next[e] = e /\ h.prev[e] = e

\* q without its i-th entry, and with e put behind its i-th.
Cut(q, i) == [k \in 1..(Len(q) - 1) |-> IF k < i THEN q[k] ELSE q[k + 1]]
Insert(q, i, e) ==
  [k \in 1..(Len(q) + 1) |-> IF k <= i THEN q[k] ELSE IF k = i + 1 THEN e ELSE q[k - 1]]

\* The pointers after e has been taken out from between a and b, or put there.
Unspliced(h, N, e, a, b) ==
  [next |-> [m \in N |-> IF m = e THEN e ELSE IF m = a THEN b ELSE h.next[m]],
   prev |-> [m \in N |-> IF m = e THEN e ELSE IF m = b THEN a ELSE h.prev[m]]]
Spliced(h, N, e, a, b) ==
  [next |-> [m \in N |-> IF m = e THEN b ELSE IF m = a THEN e ELSE h.next[m]],
   prev |-> [m \in N |-> IF m = e THEN a ELSE IF m = b THEN e ELSE h.prev[m]]]

-----------------------------------------------------------------------
LEMMA AroundIs ==
  ASSUME NEW H, NEW E, NEW x \in H, NEW q \in Seq(E)
  PROVE  /\ Len(q) \in Nat
         /\ Around(x, q, 0) = x /\ Around(x, q, Len(q) + 1) = x
         /\ \A i \in 1..Len(q) : Around(x, q, i) = q[i] /\ q[i] \in E
         /\ \A i \in Int : Around(x, q, i) \in H \cup E
BY DEF Around

\* No node is at two places.
Apart(Q, H) ==
  \A x, y \in H : \A i \in 0..(Len(Q[x]) + 1), j \in 0..(Len(Q[y]) + 1) :
    Around(x, Q[x], i) = Around(y, Q[y], j)
      => x = y /\ (i = j \/ (i \notin 1..Len(Q[x]) /\ j \notin 1..Len(Q[x])))

(***************************************************************************)
(* The rings have no node in common, and none twice.                       *)
(***************************************************************************)
LEMMA RingsApart ==
  ASSUME NEW h, NEW Q, NEW H, NEW E, H \cap E = {}, Whole(h, Q, H, E),
         NEW x \in H, NEW y \in H,
         NEW i \in 0..(Len(Q[x]) + 1), NEW j \in 0..(Len(Q[y]) + 1),
         Around(x, Q[x], i) = Around(y, Q[y], j)
  PROVE  /\ x = y
         /\ i = j \/ (i \notin 1..Len(Q[x]) /\ j \notin 1..Len(Q[x]))
<1>1. Q[x] \in Seq(E) /\ Q[y] \in Seq(E)
  BY DEF Whole
<1>2. /\ Len(Q[x]) \in Nat /\ Len(Q[y]) \in Nat
      /\ \A k \in 1..Len(Q[x]) : Q[x][k] \in E
      /\ \A k \in 1..Len(Q[y]) : Q[y][k] \in E
  BY <1>1, AroundIs
<1>3. CASE i \in 1..Len(Q[x])
  <2>1. Around(x, Q[x], i) = Q[x][i] /\ Q[x][i] \in E
    BY <1>2, <1>3 DEF Around
  <2>2. j \in 1..Len(Q[y])
    <3>1. y \notin E
      OBVIOUS
    <3>2. Around(y, Q[y], j) \in E
      BY <2>1
    <3> QED BY <3>1, <3>2 DEF Around
  <2>3. Around(y, Q[y], j) = Q[y][j]
    BY <2>2 DEF Around
  <2>4. Distinct(Q, H) /\ Q[x][i] = Q[y][j]
    BY <2>1, <2>3 DEF Whole
  <2>5. x = y /\ i = j
    BY <1>3, <2>2, <2>4 DEF Distinct
  <2> QED BY <2>5
<1>4. CASE i \notin 1..Len(Q[x])
  <2>1. Around(x, Q[x], i) = x /\ i \in {0, Len(Q[x]) + 1}
    BY <1>2, <1>4 DEF Around
  <2>2. j \notin 1..Len(Q[y])
    BY <1>2, <2>1 DEF Around
  <2>3. Around(y, Q[y], j) = y
    BY <2>2 DEF Around
  <2> QED BY <1>4, <2>1, <2>2, <2>3
<1> QED BY <1>3, <1>4

LEMMA CutIs ==
  ASSUME NEW E, NEW q \in Seq(E), NEW i \in 1..Len(q)
  PROVE  /\ Cut(q, i) \in Seq(E)
         /\ Len(Cut(q, i)) = Len(q) - 1
         /\ \A k \in 1..(Len(q) - 1) : Cut(q, i)[k] = IF k < i THEN q[k] ELSE q[k + 1]
<1>1. Len(q) \in Nat /\ \A k \in 1..Len(q) : q[k] \in E
  OBVIOUS
<1>2. Len(q) - 1 \in Nat
  BY <1>1
<1>3. Cut(q, i) \in [1..(Len(q) - 1) -> E]
  BY <1>1 DEF Cut
<1>4. Cut(q, i) \in Seq(E)
  BY <1>2, <1>3
<1>5. Len(Cut(q, i)) = Len(q) - 1
  BY <1>2, <1>4 DEF Cut
<1> QED BY <1>4, <1>5 DEF Cut

LEMMA InsertIs ==
  ASSUME NEW E, NEW q \in Seq(E), NEW i \in 0..Len(q), NEW e \in E
  PROVE  /\ Insert(q, i, e) \in Seq(E)
         /\ Len(Insert(q, i, e)) = Len(q) + 1
         /\ \A k \in 1..(Len(q) + 1) : Insert(q, i, e)[k] =
              IF k <= i THEN q[k] ELSE IF k = i + 1 THEN e ELSE q[k - 1]
<1>1. Len(q) \in Nat /\ \A k \in 1..Len(q) : q[k] \in E
  OBVIOUS
<1>2. Len(q) + 1 \in Nat
  BY <1>1
<1>3. Insert(q, i, e) \in [1..(Len(q) + 1) -> E]
  BY <1>1 DEF Insert
<1>4. Insert(q, i, e) \in Seq(E)
  BY <1>2, <1>3
<1>5. Len(Insert(q, i, e)) = Len(q) + 1
  BY <1>2, <1>4 DEF Insert
<1> QED BY <1>4, <1>5 DEF Insert

(***************************************************************************)
(* Taking the i-th entry out of the list of x.                             *)
(***************************************************************************)
LEMMA CutWhole ==
  ASSUME NEW h, NEW Q, NEW H, NEW E, H \cap E = {}, Whole(h, Q, H, E),
         NEW x \in H, NEW i \in 1..Len(Q[x])
  PROVE  LET a == Around(x, Q[x], i - 1)
             b == Around(x, Q[x], i + 1)
         IN  Whole(Unspliced(h, H \cup E, Q[x][i], a, b),
                   [Q EXCEPT ![x] = Cut(@, i)], H, E)
<1> DEFINE a == Around(x, Q[x], i - 1)
           b == Around(x, Q[x], i + 1)
           e == Q[x][i]
           g == Unspliced(h, H \cup E, e, a, b)
           q == Cut(Q[x], i)
           R == [Q EXCEPT ![x] = q]
<1>1. /\ h.next \in [H \cup E -> H \cup E] /\ h.prev \in [H \cup E -> H \cup E]
      /\ Q \in [H -> Seq(E)] /\ Distinct(Q, H)
      /\ \A y \in H : Leads(h, y, Q[y])
      /\ \A m \in E : Free(Q, H, m) => h.next[m] = m /\ h.prev[m] = m
  BY DEF Whole, Heap
<1>2. /\ Q[x] \in Seq(E) /\ Len(Q[x]) \in Nat /\ i \in Nat
      /\ e \in E /\ a \in H \cup E /\ b \in H \cup E
      /\ e = Around(x, Q[x], i)
  BY <1>1, AroundIs
<1>3. /\ q \in Seq(E) /\ Len(q) = Len(Q[x]) - 1
      /\ \A k \in 1..Len(q) : q[k] = IF k < i THEN Q[x][k] ELSE Q[x][k + 1]
  BY <1>2, CutIs
<1>4. R \in [H -> Seq(E)] /\ R[x] = q /\ \A y \in H : y # x => R[y] = Q[y]
  BY <1>1, <1>3
<1>5. g \in Heap(H \cup E)
  BY <1>1, <1>2 DEF Heap, Unspliced
<1>6. \A m \in H \cup E :
        /\ g.next[m] = IF m = e THEN e ELSE IF m = a THEN b ELSE h.next[m]
        /\ g.prev[m] = IF m = e THEN e ELSE IF m = b THEN a ELSE h.prev[m]
  BY DEF Unspliced
<1>7. /\ \A y \in H : \A k \in 0..(Len(Q[y]) + 1) :
           LET m == Around(y, Q[y], k)
           IN  /\ m = e => y = x /\ k = i
               /\ m = a => y = x /\ (k = i - 1 \/ k = Len(Q[x]) + 1)
               /\ m = b => y = x /\ (k = i + 1 \/ k = 0)
  <2> HIDE DEF a, b, e
  <2>1. /\ i \in 0..(Len(Q[x]) + 1) /\ i - 1 \in 0..(Len(Q[x]) + 1)
        /\ i + 1 \in 0..(Len(Q[x]) + 1) /\ i \in 1..Len(Q[x])
    BY <1>2
  <2>2. Apart(Q, H)
    BY RingsApart DEF Apart
  <2>3. a = Around(x, Q[x], i - 1) /\ b = Around(x, Q[x], i + 1)
    BY DEF a, b
  <2> SUFFICES ASSUME NEW y \in H, NEW k \in 0..(Len(Q[y]) + 1)
               PROVE  LET m == Around(y, Q[y], k)
                      IN  /\ m = e => y = x /\ k = i
                          /\ m = a => y = x /\ (k = i - 1 \/ k = Len(Q[x]) + 1)
                          /\ m = b => y = x /\ (k = i + 1 \/ k = 0)
    OBVIOUS
  <2>4. ASSUME Around(y, Q[y], k) = e PROVE y = x /\ k = i
    BY <1>2, <2>1, <2>2, <2>4 DEF Apart
  <2>5. ASSUME Around(y, Q[y], k) = a
        PROVE  y = x /\ (k = i - 1 \/ k = Len(Q[x]) + 1)
    <3>1. y = x /\ (k = i - 1 \/ (k \notin 1..Len(Q[x]) /\ i - 1 \notin 1..Len(Q[x])))
      BY <2>1, <2>2, <2>3, <2>5 DEF Apart
    <3> QED BY <1>2, <3>1
  <2>6. ASSUME Around(y, Q[y], k) = b
        PROVE  y = x /\ (k = i + 1 \/ k = 0)
    <3>1. y = x /\ (k = i + 1 \/ (k \notin 1..Len(Q[x]) /\ i + 1 \notin 1..Len(Q[x])))
      BY <2>1, <2>2, <2>3, <2>6 DEF Apart
    <3> QED BY <1>2, <3>1
  <2> QED BY <2>4, <2>5, <2>6
<1> HIDE DEF a, b, e, g, q, R
<1>8. Distinct(R, H)
  <2> SUFFICES ASSUME NEW y \in H, NEW z \in H, NEW k \in 1..Len(R[y]), NEW j \in 1..Len(R[z]),
                      R[y][k] = R[z][j]
               PROVE  y = z /\ k = j
    BY DEF Distinct
  <2> DEFINE up(w, n) == IF w = x /\ ~(n < i) THEN n + 1 ELSE n
  <2>1. \A w \in H : \A n \in 1..Len(R[w]) :
          up(w, n) \in 1..Len(Q[w]) /\ R[w][n] = Q[w][up(w, n)]
    <3> SUFFICES ASSUME NEW w \in H, NEW n \in 1..Len(R[w])
                 PROVE  up(w, n) \in 1..Len(Q[w]) /\ R[w][n] = Q[w][up(w, n)]
      OBVIOUS
    <3>1. CASE w = x
      <4>1. n \in Nat /\ n <= Len(Q[x]) - 1
        BY <1>2, <1>3, <1>4, <3>1
      <4>2. R[w][n] = IF n < i THEN Q[x][n] ELSE Q[x][n + 1]
        BY <1>3, <1>4, <3>1
      <4> QED BY <1>2, <3>1, <4>1, <4>2
    <3>2. CASE w # x
      BY <1>4, <3>2
    <3> QED BY <3>1, <3>2
  <2>2. Q[y][up(y, k)] = Q[z][up(z, j)]
    BY <2>1
  <2>3. y = z /\ up(y, k) = up(z, j)
    <3>1. up(y, k) \in 1..Len(Q[y]) /\ up(z, j) \in 1..Len(Q[z])
      BY <2>1
    <3> HIDE DEF up
    <3> QED BY <1>1, <2>2, <3>1 DEF Distinct
  <2>4. k \in Int /\ j \in Int /\ i \in Int
    BY <1>2
  <2> QED BY <2>3, <2>4
<1>9. \A y \in H : Leads(g, y, R[y])
  <2> SUFFICES ASSUME NEW y \in H, NEW k \in 0..Len(R[y])
               PROVE  /\ g.next[Around(y, R[y], k)] = Around(y, R[y], k + 1)
                      /\ g.prev[Around(y, R[y], k + 1)] = Around(y, R[y], k)
    BY DEF Leads
  <2>1. CASE y # x
    <3>1. R[y] = Q[y] /\ Q[y] \in Seq(E) /\ Len(Q[y]) \in Nat
      BY <1>1, <1>4, <2>1
    <3>2. /\ k \in 0..(Len(Q[y]) + 1) /\ k + 1 \in 0..(Len(Q[y]) + 1)
          /\ Around(y, Q[y], k) \in H \cup E /\ Around(y, Q[y], k + 1) \in H \cup E
      BY <3>1, AroundIs
    <3>3. /\ Around(y, Q[y], k) # e /\ Around(y, Q[y], k) # a
          /\ Around(y, Q[y], k + 1) # e /\ Around(y, Q[y], k + 1) # b
      BY <1>7, <2>1, <3>2
    <3>4. /\ h.next[Around(y, Q[y], k)] = Around(y, Q[y], k + 1)
          /\ h.prev[Around(y, Q[y], k + 1)] = Around(y, Q[y], k)
      BY <1>1, <3>1 DEF Leads
    <3> QED BY <1>6, <3>1, <3>2, <3>3, <3>4
  <2>2. CASE y = x
    <3> DEFINE up(n) == IF n < i THEN n ELSE n + 1
    <3>0. k \in Nat /\ k <= Len(Q[x]) - 1 /\ Len(Q[x]) \in Nat /\ i \in 1..Len(Q[x])
      BY <1>2, <1>3, <1>4, <2>2
    <3>1. \A n \in 0..Len(Q[x]) : Around(x, q, n) = Around(x, Q[x], up(n))
      <4> SUFFICES ASSUME NEW n \in 0..Len(Q[x])
                   PROVE  Around(x, q, n) = Around(x, Q[x], up(n))
        OBVIOUS
      <4>1. CASE n \in 1..Len(q)
        <5>1. up(n) \in 1..Len(Q[x]) /\ q[n] = Q[x][up(n)]
          BY <1>2, <1>3, <4>1
        <5> HIDE DEF up
        <5> QED BY <4>1, <5>1 DEF Around
      <4>2. CASE n \notin 1..Len(q)
        <5>1. up(n) \notin 1..Len(Q[x])
          BY <1>2, <1>3, <4>2
        <5> HIDE DEF up
        <5> QED BY <4>2, <5>1 DEF Around
      <4> QED BY <4>1, <4>2
    <3>2. /\ Around(y, R[y], k) = Around(x, Q[x], up(k))
          /\ Around(y, R[y], k + 1) = Around(x, Q[x], up(k + 1))
      <4>1. k \in 0..Len(Q[x]) /\ k + 1 \in 0..Len(Q[x])
        BY <3>0
      <4> HIDE DEF up
      <4> QED BY <1>4, <2>2, <3>1, <4>1
    <3>3. /\ up(k) \in 0..Len(Q[x]) /\ up(k) # i
          /\ up(k + 1) \in 1..(Len(Q[x]) + 1) /\ up(k + 1) # i
          /\ k = i - 1 => up(k) = i - 1 /\ up(k + 1) = i + 1
          /\ k # i - 1 => up(k + 1) = up(k) + 1 /\ up(k) # i - 1 /\ up(k + 1) # i + 1
      BY <3>0
    <3>4. /\ Around(x, Q[x], up(k)) \in H \cup E
          /\ Around(x, Q[x], up(k + 1)) \in H \cup E
          /\ Around(x, Q[x], up(k)) # e /\ Around(x, Q[x], up(k + 1)) # e
      <4>1. up(k) \in 0..(Len(Q[x]) + 1) /\ up(k + 1) \in 0..(Len(Q[x]) + 1)
        BY <3>0, <3>3
      <4> HIDE DEF up
      <4> QED BY <1>2, <1>7, <3>3, <4>1, AroundIs
    <3>5. CASE k = i - 1
      <4>1. Around(x, Q[x], up(k)) = a /\ Around(x, Q[x], up(k + 1)) = b
        BY <3>3, <3>5 DEF a, b
      <4> HIDE DEF up
      <4> QED BY <1>6, <3>2, <3>4, <4>1
    <3>6. CASE k # i - 1
      <4>1. Around(x, Q[x], up(k)) # a
        <5>1. up(k) \in 0..(Len(Q[x]) + 1) /\ up(k) # Len(Q[x]) + 1 /\ up(k) # i - 1
          BY <3>0, <3>3, <3>6
        <5> HIDE DEF up
        <5> QED BY <1>7, <5>1
      <4>2. Around(x, Q[x], up(k + 1)) # b
        <5>1. up(k + 1) \in 0..(Len(Q[x]) + 1) /\ up(k + 1) # 0 /\ up(k + 1) # i + 1
          BY <3>0, <3>3, <3>6
        <5> HIDE DEF up
        <5> QED BY <1>7, <5>1
      <4>3. /\ h.next[Around(x, Q[x], up(k))] = Around(x, Q[x], up(k) + 1)
            /\ h.prev[Around(x, Q[x], up(k) + 1)] = Around(x, Q[x], up(k))
        <5> HIDE DEF up
        <5> QED BY <1>1, <3>3 DEF Leads
      <4>4. up(k + 1) = up(k) + 1
        BY <3>3, <3>6
      <4> HIDE DEF up
      <4> QED BY <1>6, <3>2, <3>4, <4>1, <4>2, <4>3, <4>4
    <3> QED BY <3>5, <3>6
  <2> QED BY <2>1, <2>2
<1>10. ASSUME NEW m \in E, Free(R, H, m) PROVE g.next[m] = m /\ g.prev[m] = m
  <2>1. CASE m = e
    BY <1>2, <1>6, <2>1
  <2>2. CASE m # e
    <3>1. Free(Q, H, m)
      <4> SUFFICES ASSUME NEW y \in H, NEW k \in 1..Len(Q[y]), Q[y][k] = m PROVE FALSE
        BY DEF Free, In
      <4>1. CASE y # x
        BY <1>4, <1>10, <4>1 DEF Free, In
      <4>2. CASE y = x
        <5>1. k # i
          BY <2>2, <4>2 DEF e
        <5>2. CASE k < i
          <6>1. k \in 1..Len(q) /\ q[k] = m
            BY <1>2, <1>3, <4>2, <5>2
          <6> QED BY <1>4, <1>10, <6>1 DEF Free, In
        <5>3. CASE k > i
          <6>1. k - 1 \in 1..Len(q) /\ q[k - 1] = m
            BY <1>2, <1>3, <4>2, <5>3
          <6> QED BY <1>4, <1>10, <6>1 DEF Free, In
        <5> QED BY <1>2, <5>1, <5>2, <5>3
      <4> QED BY <4>1, <4>2
    <3>2. m # a /\ m # b
      <4>1. \A n \in Int : Around(x, Q[x], n) \in E => In(Q[x], Around(x, Q[x], n))
        BY DEF Around, In
      <4>2. i - 1 \in Int /\ i + 1 \in Int
        BY <1>2
      <4>3. ~In(Q[x], m)
        BY <3>1 DEF Free
      <4> QED BY <4>1, <4>2, <4>3 DEF a, b
    <3> QED BY <1>1, <1>6, <2>2, <3>1, <3>2
  <2> QED BY <2>1, <2>2
<1>11. Whole(g, R, H, E)
  BY <1>4, <1>5, <1>8, <1>9, <1>10 DEF Whole
<1>12. R = [Q EXCEPT ![x] = Cut(@, i)]
  BY DEF R, q
<1> QED BY <1>11, <1>12 DEF g, e, a, b

(***************************************************************************)
(* Putting a free entry behind the i-th node of the ring of x.             *)
(***************************************************************************)
LEMMA InsertWhole ==
  ASSUME NEW h, NEW Q, NEW H, NEW E, H \cap E = {}, Whole(h, Q, H, E),
         NEW x \in H, NEW i \in 0..Len(Q[x]), NEW e \in E, Free(Q, H, e)
  PROVE  LET a == Around(x, Q[x], i)
             b == Around(x, Q[x], i + 1)
         IN  Whole(Spliced(h, H \cup E, e, a, b),
                   [Q EXCEPT ![x] = Insert(@, i, e)], H, E)
<1> DEFINE a == Around(x, Q[x], i)
           b == Around(x, Q[x], i + 1)
           g == Spliced(h, H \cup E, e, a, b)
           q == Insert(Q[x], i, e)
           R == [Q EXCEPT ![x] = q]
           L == Len(Q[x])
<1>1. /\ h.next \in [H \cup E -> H \cup E] /\ h.prev \in [H \cup E -> H \cup E]
      /\ Q \in [H -> Seq(E)] /\ Distinct(Q, H)
      /\ \A y \in H : Leads(h, y, Q[y])
      /\ \A m \in E : Free(Q, H, m) => h.next[m] = m /\ h.prev[m] = m
  BY DEF Whole, Heap
<1>2. /\ Q[x] \in Seq(E) /\ L \in Nat /\ i \in Nat /\ i <= L
      /\ a \in H \cup E /\ b \in H \cup E
  BY <1>1, AroundIs
<1>3. /\ q \in Seq(E) /\ Len(q) = L + 1
      /\ \A k \in 1..(L + 1) : q[k] = IF k <= i THEN Q[x][k]
                                      ELSE IF k = i + 1 THEN e ELSE Q[x][k - 1]
  <2> DEFINE p == Q[x]
  <2>1. p \in Seq(E) /\ i \in 0..Len(p)
    BY <1>2
  <2> HIDE DEF p
  <2>2. /\ Insert(p, i, e) \in Seq(E) /\ Len(Insert(p, i, e)) = Len(p) + 1
        /\ \A k \in 1..(Len(p) + 1) : Insert(p, i, e)[k] =
              IF k <= i THEN p[k] ELSE IF k = i + 1 THEN e ELSE p[k - 1]
    BY <2>1, InsertIs
  <2> QED BY <2>2 DEF p
<1>4. R \in [H -> Seq(E)] /\ R[x] = q /\ \A y \in H : y # x => R[y] = Q[y]
  BY <1>1, <1>3
<1>5. g \in Heap(H \cup E)
  BY <1>1, <1>2 DEF Heap, Spliced
<1>6. \A m \in H \cup E :
        /\ g.next[m] = IF m = e THEN b ELSE IF m = a THEN e ELSE h.next[m]
        /\ g.prev[m] = IF m = e THEN a ELSE IF m = b THEN e ELSE h.prev[m]
  BY DEF Spliced
<1>7. /\ \A y \in H : \A k \in 0..(Len(Q[y]) + 1) :
           LET m == Around(y, Q[y], k)
           IN  /\ m # e /\ m \in H \cup E
               /\ m = a => y = x /\ (k = i \/ k \in {0, L + 1})
               /\ m = b => y = x /\ (k = i + 1 \/ k \in {0, L + 1})
               /\ m = a /\ k = 0 => i = 0
               /\ m = a /\ k = L + 1 => i = 0
               /\ m = b /\ k = 0 => i = L
               /\ m = b /\ k = L + 1 => i = L
  <2> HIDE DEF a, b
  <2>1. i \in 0..(L + 1) /\ i + 1 \in 0..(L + 1)
    BY <1>2
  <2>2. Apart(Q, H)
    BY RingsApart DEF Apart
  <2>3. a = Around(x, Q[x], i) /\ b = Around(x, Q[x], i + 1)
    BY DEF a, b
  <2> SUFFICES ASSUME NEW y \in H, NEW k \in 0..(Len(Q[y]) + 1)
               PROVE  LET m == Around(y, Q[y], k)
                      IN  /\ m # e /\ m \in H \cup E
                          /\ m = a => y = x /\ (k = i \/ k \in {0, L + 1})
                          /\ m = b => y = x /\ (k = i + 1 \/ k \in {0, L + 1})
                          /\ m = a /\ k = 0 => i = 0
                          /\ m = a /\ k = L + 1 => i = 0
                          /\ m = b /\ k = 0 => i = L
                          /\ m = b /\ k = L + 1 => i = L
    OBVIOUS
  <2>4. Around(y, Q[y], k) # e /\ Around(y, Q[y], k) \in H \cup E
    <3>1. Q[y] \in Seq(E) /\ k \in Int
      BY <1>1
    <3>2. Around(y, Q[y], k) \in H \cup E
      BY <3>1, AroundIs
    <3>3. e \notin H /\ ~In(Q[y], e)
      BY DEF Free
    <3>4. Around(y, Q[y], k) # e
      BY <3>3 DEF Around, In
    <3> QED BY <3>2, <3>4
  <2>5. ASSUME Around(y, Q[y], k) = a
        PROVE  y = x /\ (k = i \/ (k \notin 1..L /\ i \notin 1..L))
    BY <2>1, <2>2, <2>3, <2>5 DEF Apart
  <2>6. ASSUME Around(y, Q[y], k) = b
        PROVE  y = x /\ (k = i + 1 \/ (k \notin 1..L /\ i + 1 \notin 1..L))
    BY <2>1, <2>2, <2>3, <2>6 DEF Apart
  <2>7. Around(y, Q[y], k) = a => y = x /\ (k = i \/ k \in {0, L + 1})
    BY <1>2, <2>5
  <2>8. Around(y, Q[y], k) = b => y = x /\ (k = i + 1 \/ k \in {0, L + 1})
    BY <1>2, <2>6
  <2>9. /\ Around(y, Q[y], k) = a /\ k = 0 => i = 0
        /\ Around(y, Q[y], k) = a /\ k = L + 1 => i = 0
    BY <1>2, <2>5
  <2>10. /\ Around(y, Q[y], k) = b /\ k = 0 => i = L
         /\ Around(y, Q[y], k) = b /\ k = L + 1 => i = L
    BY <1>2, <2>6
  <2> QED BY <2>4, <2>7, <2>8, <2>9, <2>10
<1> HIDE DEF a, b, g, q, R, L
<1>8. Distinct(R, H)
  <2> SUFFICES ASSUME NEW y \in H, NEW z \in H, NEW k \in 1..Len(R[y]), NEW j \in 1..Len(R[z]),
                      R[y][k] = R[z][j]
               PROVE  y = z /\ k = j
    BY DEF Distinct
  <2> DEFINE New(w, n) == w = x /\ n = i + 1
             down(w, n) == IF w = x /\ n > i + 1 THEN n - 1 ELSE n
  <2>1. \A w \in H : \A n \in 1..Len(R[w]) :
          IF New(w, n) THEN R[w][n] = e
          ELSE down(w, n) \in 1..Len(Q[w]) /\ R[w][n] = Q[w][down(w, n)]
    <3> SUFFICES ASSUME NEW w \in H, NEW n \in 1..Len(R[w])
                 PROVE  IF New(w, n) THEN R[w][n] = e
                        ELSE down(w, n) \in 1..Len(Q[w]) /\ R[w][n] = Q[w][down(w, n)]
      OBVIOUS
    <3>1. CASE w = x
      <4>1. n \in Nat /\ n <= L + 1 /\ n >= 1
        BY <1>2, <1>3, <1>4, <3>1
      <4>2. R[w][n] = IF n <= i THEN Q[x][n] ELSE IF n = i + 1 THEN e ELSE Q[x][n - 1]
        BY <1>3, <1>4, <3>1
      <4>3. CASE n <= i
        BY <1>2, <3>1, <4>1, <4>2, <4>3 DEF L
      <4>4. CASE n = i + 1
        BY <1>2, <3>1, <4>1, <4>2, <4>4
      <4>5. CASE n > i + 1
        <5>1. ~New(w, n) /\ down(w, n) = n - 1 /\ n - 1 \in 1..L
          BY <1>2, <3>1, <4>1, <4>5
        <5>2. R[w][n] = Q[w][n - 1]
          BY <1>2, <3>1, <4>1, <4>2, <4>5
        <5> QED BY <3>1, <5>1, <5>2 DEF L
      <4> QED BY <1>2, <4>1, <4>3, <4>4, <4>5
    <3>2. CASE w # x
      BY <1>4, <3>2
    <3> QED BY <3>1, <3>2
  <2>2. \A w \in H : \A n \in 1..Len(Q[w]) : Q[w][n] # e
    BY DEF Free, In
  <2>3. k \in Int /\ j \in Int /\ i \in Int
    BY <1>2
  <2>4. CASE New(y, k) \/ New(z, j)
    <3>1. New(y, k) /\ New(z, j)
      <4> HIDE DEF down, New
      <4>1. ASSUME NEW w \in H, NEW n \in 1..Len(R[w]) PROVE New(w, n) <=> R[w][n] = e
        <5>1. CASE New(w, n)
          BY <2>1, <5>1
        <5>2. CASE ~New(w, n)
          <6>1. down(w, n) \in 1..Len(Q[w]) /\ R[w][n] = Q[w][down(w, n)]
            BY <2>1, <5>2
          <6> QED BY <2>2, <5>2, <6>1
        <5> QED BY <5>1, <5>2
      <4> QED BY <2>4, <4>1
    <3> QED BY <3>1
  <2>5. CASE ~New(y, k) /\ ~New(z, j)
    <3>1. /\ down(y, k) \in 1..Len(Q[y]) /\ down(z, j) \in 1..Len(Q[z])
          /\ Q[y][down(y, k)] = Q[z][down(z, j)]
      <4> HIDE DEF down, New
      <4> QED BY <2>1, <2>5
    <3>2. y = z /\ down(y, k) = down(z, j)
      <4> HIDE DEF down
      <4> QED BY <1>1, <3>1 DEF Distinct
    <3> QED BY <2>3, <2>5, <3>2
  <2> QED BY <2>4, <2>5
<1>9. \A y \in H : Leads(g, y, R[y])
  <2> SUFFICES ASSUME NEW y \in H, NEW k \in 0..Len(R[y])
               PROVE  /\ g.next[Around(y, R[y], k)] = Around(y, R[y], k + 1)
                      /\ g.prev[Around(y, R[y], k + 1)] = Around(y, R[y], k)
    BY DEF Leads
  <2>1. CASE y # x
    <3>1. R[y] = Q[y] /\ Q[y] \in Seq(E) /\ Len(Q[y]) \in Nat
      BY <1>1, <1>4, <2>1
    <3>2. k \in 0..(Len(Q[y]) + 1) /\ k + 1 \in 0..(Len(Q[y]) + 1)
      BY <3>1
    <3>3. /\ Around(y, Q[y], k) # e /\ Around(y, Q[y], k) # a
          /\ Around(y, Q[y], k + 1) # e /\ Around(y, Q[y], k + 1) # b
          /\ Around(y, Q[y], k) \in H \cup E /\ Around(y, Q[y], k + 1) \in H \cup E
      BY <1>7, <2>1, <3>2
    <3>4. /\ h.next[Around(y, Q[y], k)] = Around(y, Q[y], k + 1)
          /\ h.prev[Around(y, Q[y], k + 1)] = Around(y, Q[y], k)
      BY <1>1, <3>1 DEF Leads
    <3> QED BY <1>6, <3>1, <3>3, <3>4
  <2>2. CASE y = x
    <3>0. k \in Nat /\ k <= L + 1
      BY <1>2, <1>3, <1>4, <2>2
    <3>1. \A n \in 0..(L + 2) : Around(x, q, n) =
            IF n <= i THEN Around(x, Q[x], n)
            ELSE IF n = i + 1 THEN e ELSE Around(x, Q[x], n - 1)
      <4> SUFFICES ASSUME NEW n \in 0..(L + 2)
                   PROVE  Around(x, q, n) =
                            IF n <= i THEN Around(x, Q[x], n)
                            ELSE IF n = i + 1 THEN e ELSE Around(x, Q[x], n - 1)
        OBVIOUS
      <4>1. CASE n \in 1..Len(q)
        <5>1. CASE n <= i
          <6>1. n \in 1..Len(Q[x]) /\ q[n] = Q[x][n]
            BY <1>2, <1>3, <4>1, <5>1 DEF L
          <6> QED BY <4>1, <5>1, <6>1 DEF Around
        <5>2. CASE n = i + 1
          <6>1. q[n] = e /\ ~(n <= i)
            BY <1>2, <1>3, <4>1, <5>2
          <6> QED BY <4>1, <5>2, <6>1 DEF Around
        <5>3. CASE n > i + 1
          <6>1. n - 1 \in 1..Len(Q[x]) /\ q[n] = Q[x][n - 1] /\ ~(n <= i) /\ n # i + 1
            BY <1>2, <1>3, <4>1, <5>3 DEF L
          <6> QED BY <4>1, <6>1 DEF Around
        <5> QED BY <1>2, <5>1, <5>2, <5>3
      <4>2. CASE n \notin 1..Len(q)
        <5>1. n = 0 \/ n = L + 2
          BY <1>2, <1>3, <4>2
        <5>2. Around(x, q, n) = x
          BY <4>2 DEF Around
        <5>3. Around(x, Q[x], 0) = x /\ Around(x, Q[x], L + 1) = x
          BY <1>2, AroundIs DEF L
        <5>4. n = L + 2 => n - 1 = L + 1 /\ ~(n <= i) /\ n # i + 1
          BY <1>2
        <5>5. n = 0 => n <= i
          BY <1>2
        <5> QED BY <5>1, <5>2, <5>3, <5>4, <5>5
      <4> QED BY <4>1, <4>2
    <3> DEFINE at(n) == Around(x, Q[x], n)
    <3>2. /\ \A n \in 0..(L + 1) : at(n) # e /\ at(n) \in H \cup E
          /\ \A n \in 0..(L + 1) : at(n) = a => n = i \/ (n = L + 1 /\ i = 0) \/ (n = 0 /\ i = 0)
          /\ \A n \in 0..(L + 1) : at(n) = b => n = i + 1 \/ (n = L + 1 /\ i = L) \/ (n = 0 /\ i = L)
          /\ at(i) = a /\ at(i + 1) = b
          /\ \A n \in 0..L : h.next[at(n)] = at(n + 1) /\ h.prev[at(n + 1)] = at(n)
      <4>1. \A n \in 0..(L + 1) :
              /\ at(n) # e /\ at(n) \in H \cup E
              /\ at(n) = a => n = i \/ (n = L + 1 /\ i = 0) \/ (n = 0 /\ i = 0)
              /\ at(n) = b => n = i + 1 \/ (n = L + 1 /\ i = L) \/ (n = 0 /\ i = L)
        BY <1>7 DEF L
      <4>2. at(i) = a /\ at(i + 1) = b
        BY DEF a, b
      <4>3. \A n \in 0..L : h.next[at(n)] = at(n + 1) /\ h.prev[at(n + 1)] = at(n)
        BY <1>1 DEF Leads, L
      <4> QED BY <4>1, <4>2, <4>3
    <3>3. /\ Around(y, R[y], k) = IF k <= i THEN at(k) ELSE IF k = i + 1 THEN e ELSE at(k - 1)
          /\ Around(y, R[y], k + 1) = IF k + 1 <= i THEN at(k + 1)
                                      ELSE IF k = i THEN e ELSE at(k)
      <4>1. k \in 0..(L + 2) /\ k + 1 \in 0..(L + 2) /\ (k + 1) - 1 = k
            /\ (k + 1 = i + 1 <=> k = i)
        BY <1>2, <3>0
      <4>2. R[y] = q
        BY <1>4, <2>2
      <4>3. Around(x, q, k) = IF k <= i THEN at(k) ELSE IF k = i + 1 THEN e ELSE at(k - 1)
        BY <3>1, <4>1
      <4>4. Around(x, q, k + 1) = IF k + 1 <= i THEN at(k + 1)
                                  ELSE IF k + 1 = i + 1 THEN e ELSE at((k + 1) - 1)
        BY <3>1, <4>1
      <4>5. Around(x, q, k + 1) = IF k + 1 <= i THEN at(k + 1)
                                  ELSE IF k = i THEN e ELSE at(k)
        BY <4>1, <4>4
      <4> QED BY <2>2, <4>2, <4>3, <4>5
    <3> HIDE DEF at
    <3>4. CASE k < i
      <4>1. k \in 0..L /\ k \in 0..(L + 1) /\ k + 1 \in 0..(L + 1) /\ k # i /\ k # L + 1
            /\ k + 1 <= i /\ k + 1 # i + 1 /\ i # 0 /\ k + 1 # 0 /\ k + 1 # L + 1 /\ k <= i
        BY <1>2, <3>0, <3>4
      <4>2. Around(y, R[y], k) = at(k) /\ Around(y, R[y], k + 1) = at(k + 1)
        BY <3>3, <4>1
      <4>3. at(k) # a /\ at(k + 1) # b
        BY <3>2, <4>1
      <4> QED BY <1>6, <3>2, <4>1, <4>2, <4>3
    <3>5. CASE k = i
      <4>1. ~(k + 1 <= i) /\ k <= i
        BY <1>2, <3>5
      <4>2. Around(y, R[y], k) = a /\ Around(y, R[y], k + 1) = e
        BY <3>2, <3>3, <3>5, <4>1
      <4>3. a # e
        BY <1>2, <3>2
      <4> QED BY <1>2, <1>6, <4>2, <4>3
    <3>6. CASE k = i + 1
      <4>1. ~(k <= i) /\ ~(k + 1 <= i) /\ k # i /\ i + 1 \in 0..(L + 1)
        BY <1>2, <3>6
      <4>2. Around(y, R[y], k) = e /\ Around(y, R[y], k + 1) = b
        BY <3>2, <3>3, <3>6, <4>1
      <4>3. b # e
        BY <3>2, <4>1
      <4> QED BY <1>2, <1>6, <4>2, <4>3
    <3>7. CASE k > i + 1
      <4>1. k - 1 \in 0..L /\ k - 1 \in 0..(L + 1) /\ k \in 0..(L + 1) /\ k - 1 # i /\ k # i
            /\ k - 1 # 0 /\ k - 1 # L + 1 /\ (k - 1) + 1 = k /\ k # 0 /\ k # i + 1
            /\ ~(k <= i) /\ ~(k + 1 <= i) /\ (k = L + 1 => i # L)
        BY <1>2, <3>0, <3>7
      <4>2. Around(y, R[y], k) = at(k - 1) /\ Around(y, R[y], k + 1) = at(k)
        BY <3>3, <4>1
      <4>3. at(k - 1) # a /\ at(k) # b
        BY <3>2, <4>1
      <4>4. h.next[at(k - 1)] = at(k) /\ h.prev[at(k)] = at(k - 1)
        BY <3>2, <4>1
      <4> QED BY <1>6, <3>2, <4>1, <4>2, <4>3, <4>4
    <3> QED BY <1>2, <3>0, <3>4, <3>5, <3>6, <3>7
  <2> QED BY <2>1, <2>2
<1>10. ASSUME NEW m \in E, Free(R, H, m) PROVE g.next[m] = m /\ g.prev[m] = m
  <2>1. m # e
    <3>1. i + 1 \in 1..Len(q) /\ q[i + 1] = e
      BY <1>2, <1>3
    <3> QED BY <1>4, <1>10, <3>1 DEF Free, In
  <2>2. Free(Q, H, m)
    <3> SUFFICES ASSUME NEW y \in H, NEW k \in 1..Len(Q[y]), Q[y][k] = m PROVE FALSE
      BY DEF Free, In
    <3>1. CASE y # x
      BY <1>4, <1>10, <3>1 DEF Free, In
    <3>2. CASE y = x /\ k <= i
      <4>1. k \in 1..Len(q) /\ q[k] = m
        BY <1>2, <1>3, <3>2 DEF L
      <4> QED BY <1>4, <1>10, <4>1 DEF Free, In
    <3>3. CASE y = x /\ k > i
      <4>1. k + 1 \in 1..Len(q) /\ q[k + 1] = m
        <5>1. k + 1 \in 1..(L + 1) /\ ~(k + 1 <= i) /\ k + 1 # i + 1 /\ (k + 1) - 1 = k
          BY <1>2, <3>3 DEF L
        <5>2. q[k + 1] = Q[x][(k + 1) - 1]
          BY <1>3, <5>1
        <5> QED BY <1>3, <3>3, <5>1, <5>2
      <4> QED BY <1>4, <1>10, <4>1 DEF Free, In
    <3> QED BY <1>2, <3>1, <3>2, <3>3
  <2>3. m # a /\ m # b
    <3>1. \A n \in Int : Around(x, Q[x], n) \in E => In(Q[x], Around(x, Q[x], n))
      BY DEF Around, In
    <3>2. i \in Int /\ i + 1 \in Int
      BY <1>2
    <3>3. ~In(Q[x], m)
      BY <2>2 DEF Free
    <3> QED BY <3>1, <3>2, <3>3 DEF a, b
  <2> QED BY <1>1, <1>6, <2>1, <2>2, <2>3
<1>11. Whole(g, R, H, E)
  BY <1>4, <1>5, <1>8, <1>9, <1>10 DEF Whole
<1>12. R = [Q EXCEPT ![x] = Insert(@, i, e)]
  BY DEF R, q
<1> QED BY <1>11, <1>12 DEF g, a, b

-----------------------------------------------------------------------
(***************************************************************************)
(* What the pointer operations write, when the nodes they touch differ.    *)
(***************************************************************************)
LEMMA DelInitEffect ==
  ASSUME NEW N, NEW h \in Heap(N), NEW e \in N, h.prev[e] # e, h.next[e] # e
  PROVE  list_del_init(h, e) = Unspliced(h, N, e, h.prev[e], h.next[e])
<1> DEFINE a == h.prev[e]
           b == h.next[e]
           n1 == [h.next EXCEPT ![a] = b]
           p1 == [h.prev EXCEPT ![b] = a]
<1>1. h.next \in [N -> N] /\ h.prev \in [N -> N] /\ a \in N /\ b \in N /\ a # e /\ b # e
  BY DEF Heap
<1> HIDE DEF a, b
<1>2. n1[e] = b /\ h.prev[e] = a
  BY <1>1 DEF a, b
<1>3. list_del(h, e) = [next |-> n1, prev |-> p1]
  BY <1>2 DEF list_del, SetNext, SetPrev, a, b
<1>4. list_del_init(h, e) = [next |-> [n1 EXCEPT ![e] = e], prev |-> [p1 EXCEPT ![e] = e]]
  BY <1>3 DEF list_del_init, init_list_head, SetNext, SetPrev
<1>5. [n1 EXCEPT ![e] = e] = [m \in N |-> IF m = e THEN e ELSE IF m = a THEN b ELSE h.next[m]]
  BY <1>1
<1>6. [p1 EXCEPT ![e] = e] = [m \in N |-> IF m = e THEN e ELSE IF m = b THEN a ELSE h.prev[m]]
  BY <1>1
<1>7. list_del_init(h, e) = Unspliced(h, N, e, a, b)
  BY <1>4, <1>5, <1>6 DEF Unspliced
<1> QED BY <1>7 DEF a, b

LEMMA AddTailEffect ==
  ASSUME NEW N, NEW h \in Heap(N), NEW e \in N, NEW x \in N, x # e, h.prev[x] # e
  PROVE  list_add_tail(h, e, x) = Spliced(h, N, e, h.prev[x], x)
<1> DEFINE a == h.prev[x]
           n1 == [h.next EXCEPT ![e] = x]
           p1 == [h.prev EXCEPT ![e] = a]
<1>1. h.next \in [N -> N] /\ h.prev \in [N -> N] /\ a \in N /\ a # e
  BY DEF Heap
<1>2. p1[x] = a
  BY <1>1
<1> HIDE DEF a
<1>3. list_add_tail(h, e, x) = [next |-> [n1 EXCEPT ![a] = e], prev |-> [p1 EXCEPT ![x] = e]]
  BY <1>2 DEF list_add_tail, SetNext, SetPrev, a
<1>4. [n1 EXCEPT ![a] = e] = [m \in N |-> IF m = e THEN x ELSE IF m = a THEN e ELSE h.next[m]]
  BY <1>1
<1>5. [p1 EXCEPT ![x] = e] = [m \in N |-> IF m = e THEN a ELSE IF m = x THEN e ELSE h.prev[m]]
  BY <1>1
<1>6. list_add_tail(h, e, x) = Spliced(h, N, e, a, x)
  BY <1>3, <1>4, <1>5 DEF Spliced
<1> QED BY <1>6 DEF a

LEMMA AddEffect ==
  ASSUME NEW N, NEW h \in Heap(N), NEW e \in N, NEW x \in N, x # e, h.next[x] # e
  PROVE  list_add(h, e, x) = Spliced(h, N, e, x, h.next[x])
<1> DEFINE b == h.next[x]
           n1 == [h.next EXCEPT ![e] = b]
           p1 == [h.prev EXCEPT ![e] = x]
<1>1. h.next \in [N -> N] /\ h.prev \in [N -> N] /\ b \in N /\ b # e
  BY DEF Heap
<1>2. n1[x] = b
  BY <1>1
<1> HIDE DEF b
<1>3. list_add(h, e, x) = [next |-> [n1 EXCEPT ![x] = e], prev |-> [p1 EXCEPT ![b] = e]]
  BY <1>2 DEF list_add, SetNext, SetPrev, b
<1>4. [n1 EXCEPT ![x] = e] = [m \in N |-> IF m = e THEN b ELSE IF m = x THEN e ELSE h.next[m]]
  BY <1>1
<1>5. [p1 EXCEPT ![b] = e] = [m \in N |-> IF m = e THEN x ELSE IF m = b THEN e ELSE h.prev[m]]
  BY <1>1
<1>6. list_add(h, e, x) = Spliced(h, N, e, x, b)
  BY <1>3, <1>4, <1>5 DEF Spliced
<1> QED BY <1>6 DEF b

(***************************************************************************)
(* list_move_tail leaves the pointers as list_del_init and list_add_tail   *)
(* would: the new place of the node is written whatever it held.           *)
(***************************************************************************)
LEMMA MoveTailEffect ==
  ASSUME NEW N, NEW h \in Heap(N), NEW e \in N, NEW x \in N, x # e,
         h.prev[e] # e, h.next[e] # e, h.next[h.prev[e]] = e,
         list_del_init(h, e).prev[x] # e
  PROVE  LET g == list_del_init(h, e)
         IN  list_move_tail(h, e, x) = Spliced(g, N, e, g.prev[x], x)
<1> DEFINE a == h.prev[e]
           b == h.next[e]
           g == list_del_init(h, e)
           n1 == [h.next EXCEPT ![a] = b]
           p1 == [h.prev EXCEPT ![b] = a]
           d == [next |-> n1, prev |-> p1]
<1>1. h.next \in [N -> N] /\ h.prev \in [N -> N] /\ a \in N /\ b \in N /\ a # e /\ b # e
  BY DEF Heap
<1>2. g = Unspliced(h, N, e, a, b)
  BY DelInitEffect
<1> HIDE DEF a, b, g
<1>3. n1[e] = b /\ h.prev[e] = a
  BY <1>1 DEF a, b
<1>4. list_del(h, e) = d
  BY <1>3 DEF list_del, SetNext, SetPrev, a, b
<1>5. d \in Heap(N) /\ d.next = n1 /\ d.prev = p1
  BY <1>1 DEF Heap
<1>6. /\ n1 \in [N -> N] /\ p1 \in [N -> N]
      /\ \A m \in N : m # e => n1[m] = g.next[m] /\ p1[m] = g.prev[m]
  BY <1>1, <1>2 DEF Unspliced
<1> HIDE DEF d, n1, p1
<1>7. d.prev[x] = g.prev[x] /\ d.prev[x] # e
  <2>1. g.prev[x] # e
    BY DEF g
  <2> QED BY <1>5, <1>6, <2>1
<1>8. list_add_tail(d, e, x) = Spliced(d, N, e, d.prev[x], x)
  BY <1>5, <1>7, AddTailEffect
<1>9. Spliced(d, N, e, d.prev[x], x) = Spliced(g, N, e, g.prev[x], x)
  <2> DEFINE c == g.prev[x]
  <2>1. d.prev[x] = c
    BY <1>7
  <2> HIDE DEF c
  <2>2. [m \in N |-> IF m = e THEN x ELSE IF m = c THEN e ELSE d.next[m]]
        = [m \in N |-> IF m = e THEN x ELSE IF m = c THEN e ELSE g.next[m]]
    BY <1>5, <1>6
  <2>3. [m \in N |-> IF m = e THEN c ELSE IF m = x THEN e ELSE d.prev[m]]
        = [m \in N |-> IF m = e THEN c ELSE IF m = x THEN e ELSE g.prev[m]]
    BY <1>5, <1>6
  <2> QED BY <2>1, <2>2, <2>3 DEF Spliced, c
<1>10. list_move_tail(h, e, x) = Spliced(g, N, e, g.prev[x], x)
  BY <1>4, <1>8, <1>9 DEF list_move_tail
<1> QED BY <1>10 DEF g

LEMMA SelfLinked ==
  ASSUME NEW N, NEW h \in Heap(N), NEW e \in N, h.prev[e] = e, h.next[e] = e
  PROVE  list_del(h, e) = h /\ init_list_head(h, e) = h
<1>1. /\ h.next \in [N -> N] /\ h.prev \in [N -> N] /\ h = [next |-> h.next, prev |-> h.prev]
  BY DEF Heap
<1>2. [h.next EXCEPT ![e] = e] = h.next /\ [h.prev EXCEPT ![e] = e] = h.prev
  BY <1>1
<1>3. SetNext(h, e, e) = h /\ SetPrev(h, e, e) = h
  BY <1>1, <1>2 DEF SetNext, SetPrev
<1>4. list_del(h, e) = h
  BY <1>3 DEF list_del
<1>5. init_list_head(h, e) = h
  BY <1>3 DEF init_list_head
<1> QED BY <1>4, <1>5

(***************************************************************************)
(* The list operations, read on the sequences.                             *)
(***************************************************************************)
LEMMA Neighbours ==
  ASSUME NEW h, NEW Q, NEW H, NEW E, H \cap E = {}, Whole(h, Q, H, E),
         NEW x \in H, NEW i \in 1..Len(Q[x])
  PROVE  /\ Q[x] \in Seq(E) /\ Len(Q[x]) \in Nat /\ Q[x][i] \in E
         /\ h.prev[Q[x][i]] = Around(x, Q[x], i - 1)
         /\ h.next[Q[x][i]] = Around(x, Q[x], i + 1)
         /\ h.prev[Q[x][i]] # Q[x][i] /\ h.next[Q[x][i]] # Q[x][i]
         /\ h.next[h.prev[Q[x][i]]] = Q[x][i]
<1> DEFINE at(n) == Around(x, Q[x], n)
<1>1. Q[x] \in Seq(E) /\ Len(Q[x]) \in Nat /\ Leads(h, x, Q[x])
  BY DEF Whole
<1>2. Q[x][i] \in E /\ Q[x][i] = at(i)
  BY <1>1, AroundIs
<1>3. i \in 0..Len(Q[x]) /\ i - 1 \in 0..Len(Q[x]) /\ (i - 1) + 1 = i
  BY <1>1
<1>4. h.next[at(i)] = at(i + 1) /\ h.next[at(i - 1)] = at(i) /\ h.prev[at(i)] = at(i - 1)
  <2>1. h.next[at(i)] = at(i + 1)
    BY <1>1, <1>3 DEF Leads
  <2>2. h.next[at(i - 1)] = at((i - 1) + 1) /\ h.prev[at((i - 1) + 1)] = at(i - 1)
    BY <1>1, <1>3 DEF Leads
  <2> QED BY <1>3, <2>1, <2>2
<1>5. at(i - 1) # at(i) /\ at(i + 1) # at(i)
  <2>1. Apart(Q, H)
    BY RingsApart DEF Apart
  <2>2. /\ i - 1 \in 0..(Len(Q[x]) + 1) /\ i + 1 \in 0..(Len(Q[x]) + 1)
        /\ i \in 0..(Len(Q[x]) + 1) /\ i # i - 1 /\ i # i + 1
    BY <1>1
  <2> QED BY <2>1, <2>2 DEF Apart
<1> QED BY <1>1, <1>2, <1>4, <1>5

LEMMA DelInitWhole ==
  ASSUME NEW h, NEW Q, NEW H, NEW E, H \cap E = {}, Whole(h, Q, H, E),
         NEW x \in H, NEW i \in 1..Len(Q[x])
  PROVE  Whole(list_del_init(h, Q[x][i]), [Q EXCEPT ![x] = Cut(@, i)], H, E)
<1> DEFINE e == Q[x][i]
<1>1. /\ e \in H \cup E /\ h.prev[e] # e /\ h.next[e] # e
      /\ h.prev[e] = Around(x, Q[x], i - 1) /\ h.next[e] = Around(x, Q[x], i + 1)
  BY Neighbours
<1>2. h \in Heap(H \cup E)
  BY DEF Whole
<1> HIDE DEF e
<1>3. list_del_init(h, e) = Unspliced(h, H \cup E, e, Around(x, Q[x], i - 1), Around(x, Q[x], i + 1))
  BY <1>1, <1>2, DelInitEffect
<1>4. Whole(Unspliced(h, H \cup E, Q[x][i], Around(x, Q[x], i - 1), Around(x, Q[x], i + 1)),
            [Q EXCEPT ![x] = Cut(@, i)], H, E)
  BY CutWhole
<1> QED BY <1>3, <1>4 DEF e

LEMMA InsertLast ==
  ASSUME NEW E, NEW q \in Seq(E), NEW e \in E
  PROVE  Insert(q, Len(q), e) = Append(q, e)
<1>1. Len(q) \in Nat /\ Append(q, e) \in Seq(E) /\ Len(Append(q, e)) = Len(q) + 1
      /\ \A k \in 1..(Len(q) + 1) : Append(q, e)[k] = IF k <= Len(q) THEN q[k] ELSE e
  OBVIOUS
<1>2. /\ Insert(q, Len(q), e) \in Seq(E) /\ Len(Insert(q, Len(q), e)) = Len(q) + 1
      /\ \A k \in 1..(Len(q) + 1) : Insert(q, Len(q), e)[k] =
            IF k <= Len(q) THEN q[k] ELSE IF k = Len(q) + 1 THEN e ELSE q[k - 1]
  <2> DEFINE n == Len(q)
  <2>1. n \in 0..Len(q)
    BY <1>1
  <2> HIDE DEF n
  <2>2. /\ Insert(q, n, e) \in Seq(E) /\ Len(Insert(q, n, e)) = Len(q) + 1
        /\ \A k \in 1..(Len(q) + 1) : Insert(q, n, e)[k] =
              IF k <= n THEN q[k] ELSE IF k = n + 1 THEN e ELSE q[k - 1]
    BY <2>1, InsertIs
  <2> QED BY <2>2 DEF n
<1>3. \A k \in 1..(Len(q) + 1) : Insert(q, Len(q), e)[k] = Append(q, e)[k]
  BY <1>1, <1>2
<1>4. /\ Insert(q, Len(q), e) \in [1..(Len(q) + 1) -> E]
      /\ Append(q, e) \in [1..(Len(q) + 1) -> E]
  <2> HIDE DEF Insert
  <2>1. \A f \in Seq(E) : f \in [1..Len(f) -> E]
    OBVIOUS
  <2> QED BY <1>1, <1>2, <2>1
<1> QED BY <1>3, <1>4

LEMMA AddTailWhole ==
  ASSUME NEW h, NEW Q, NEW H, NEW E, H \cap E = {}, Whole(h, Q, H, E),
         NEW x \in H, NEW e \in E, Free(Q, H, e)
  PROVE  /\ Whole(list_add_tail(h, e, x), [Q EXCEPT ![x] = Append(@, e)], H, E)
         /\ h.prev[x] # e
<1> DEFINE L == Len(Q[x])
<1>1. h \in Heap(H \cup E) /\ Q[x] \in Seq(E) /\ Leads(h, x, Q[x]) /\ Q \in [H -> Seq(E)]
  BY DEF Whole
<1>2. L \in Nat /\ L \in 0..L /\ Around(x, Q[x], L + 1) = x
  BY <1>1, AroundIs
<1>3. h.prev[x] = Around(x, Q[x], L)
  <2>1. h.prev[Around(x, Q[x], L + 1)] = Around(x, Q[x], L)
    BY <1>1, <1>2 DEF Leads
  <2> QED BY <1>2, <2>1
<1>4. x # e /\ Around(x, Q[x], L) # e
  <2>1. x # e
    OBVIOUS
  <2>2. ~In(Q[x], e)
    BY DEF Free
  <2> QED BY <2>1, <2>2 DEF Around, In
<1>5. list_add_tail(h, e, x) = Spliced(h, H \cup E, e, Around(x, Q[x], L), Around(x, Q[x], L + 1))
  <2>1. x \in H \cup E /\ e \in H \cup E /\ h.prev[x] # e
    BY <1>3, <1>4
  <2>2. list_add_tail(h, e, x) = Spliced(h, H \cup E, e, h.prev[x], x)
    BY <1>1, <1>4, <2>1, AddTailEffect
  <2> QED BY <1>2, <1>3, <2>2
<1>6. Whole(list_add_tail(h, e, x), [Q EXCEPT ![x] = Insert(@, L, e)], H, E)
  <2>1. Whole(Spliced(h, H \cup E, e, Around(x, Q[x], L), Around(x, Q[x], L + 1)),
              [Q EXCEPT ![x] = Insert(@, L, e)], H, E)
    <3> HIDE DEF L
    <3>1. L \in 0..Len(Q[x])
      BY <1>2 DEF L
    <3> QED BY <3>1, InsertWhole
  <2> QED BY <1>5, <2>1
<1>7. [Q EXCEPT ![x] = Insert(@, L, e)] = [Q EXCEPT ![x] = Append(@, e)]
  BY <1>1, InsertLast
<1> QED BY <1>3, <1>4, <1>6, <1>7

LEMMA AddWhole ==
  ASSUME NEW h, NEW Q, NEW H, NEW E, H \cap E = {}, Whole(h, Q, H, E),
         NEW x \in H, NEW i \in 0..Len(Q[x]), NEW e \in E, Free(Q, H, e)
  PROVE  Whole(list_add(h, e, Around(x, Q[x], i)), [Q EXCEPT ![x] = Insert(@, i, e)], H, E)
<1> DEFINE a == Around(x, Q[x], i)
           b == Around(x, Q[x], i + 1)
<1>1. h \in Heap(H \cup E) /\ Q[x] \in Seq(E) /\ h.next[a] = b
  BY DEF Whole, Leads
<1>2. a \in H \cup E /\ a # e /\ b # e
  <2>1. x # e
    OBVIOUS
  <2>2. a # e /\ b # e
    BY <2>1 DEF Around, Free, In
  <2>3. i \in Int
    BY <1>1
  <2> QED BY <1>1, <2>2, <2>3, AroundIs
<1>3. Whole(Spliced(h, H \cup E, e, a, b), [Q EXCEPT ![x] = Insert(@, i, e)], H, E)
  BY InsertWhole
<1> HIDE DEF a, b
<1>4. list_add(h, e, a) = Spliced(h, H \cup E, e, a, b)
  BY <1>1, <1>2, AddEffect
<1> QED BY <1>3, <1>4 DEF a

LEMMA FreeEntry ==
  ASSUME NEW h, NEW Q, NEW H, NEW E, Whole(h, Q, H, E), NEW e \in E, Free(Q, H, e)
  PROVE  list_del(h, e) = h /\ init_list_head(h, e) = h
<1>1. h \in Heap(H \cup E) /\ h.next[e] = e /\ h.prev[e] = e
  BY DEF Whole
<1> QED BY <1>1, SelfLinked

LEMMA MoveFreeWhole ==
  ASSUME NEW h, NEW Q, NEW H, NEW E, H \cap E = {}, Whole(h, Q, H, E),
         NEW x \in H, NEW e \in E, Free(Q, H, e)
  PROVE  Whole(list_move_tail(h, e, x), [Q EXCEPT ![x] = Append(@, e)], H, E)
<1>1. list_del(h, e) = h
  BY FreeEntry
<1> QED BY <1>1, AddTailWhole DEF list_move_tail

\* The entry that is cut is in no list afterwards.
LEMMA CutFrees ==
  ASSUME NEW h, NEW Q, NEW H, NEW E, Whole(h, Q, H, E),
         NEW x \in H, NEW i \in 1..Len(Q[x])
  PROVE  Free([Q EXCEPT ![x] = Cut(@, i)], H, Q[x][i])
<1> DEFINE R == [Q EXCEPT ![x] = Cut(@, i)]
<1>1. Q \in [H -> Seq(E)] /\ Distinct(Q, H) /\ Q[x] \in Seq(E) /\ Len(Q[x]) \in Nat
  BY DEF Whole
<1>2. R[x] = Cut(Q[x], i) /\ \A y \in H : y # x => R[y] = Q[y]
  BY <1>1
<1>3. /\ Len(Cut(Q[x], i)) = Len(Q[x]) - 1
      /\ \A k \in 1..(Len(Q[x]) - 1) : Cut(Q[x], i)[k] = IF k < i THEN Q[x][k] ELSE Q[x][k + 1]
  BY <1>1, CutIs
<1> HIDE DEF R
<1> SUFFICES ASSUME NEW y \in H, NEW k \in 1..Len(R[y]), R[y][k] = Q[x][i] PROVE FALSE
  BY DEF Free, In, R
<1>4. CASE y # x
  BY <1>1, <1>2, <1>4 DEF Distinct
<1>5. CASE y = x
  <2>1. k \in 1..(Len(Q[x]) - 1) /\ Cut(Q[x], i)[k] = Q[x][i]
    BY <1>2, <1>3, <1>5
  <2>2. CASE k < i
    <3>1. k \in 1..Len(Q[x]) /\ Q[x][k] = Q[x][i] /\ k # i
      BY <1>1, <1>3, <2>1, <2>2
    <3> QED BY <1>1, <3>1 DEF Distinct
  <2>3. CASE ~(k < i)
    <3>1. k + 1 \in 1..Len(Q[x]) /\ Q[x][k + 1] = Q[x][i] /\ k + 1 # i
      BY <1>1, <1>3, <2>1, <2>3
    <3> QED BY <1>1, <3>1 DEF Distinct
  <2> QED BY <2>2, <2>3
<1> QED BY <1>4, <1>5

LEMMA MoveWhole ==
  ASSUME NEW h, NEW Q, NEW H, NEW E, H \cap E = {}, Whole(h, Q, H, E),
         NEW y \in H, NEW i \in 1..Len(Q[y]), NEW x \in H
  PROVE  LET R == [Q EXCEPT ![y] = Cut(@, i)]
         IN  Whole(list_move_tail(h, Q[y][i], x), [R EXCEPT ![x] = Append(@, Q[y][i])], H, E)
<1> DEFINE e == Q[y][i]
           R == [Q EXCEPT ![y] = Cut(@, i)]
           g == list_del_init(h, e)
<1>1. e \in E /\ h.prev[e] # e /\ h.next[e] # e /\ h.next[h.prev[e]] = e
  BY Neighbours
<1>2. Whole(g, R, H, E)
  BY DelInitWhole
<1>3. Free(R, H, e)
  BY CutFrees
<1>4. h \in Heap(H \cup E) /\ g \in Heap(H \cup E)
  BY <1>2 DEF Whole
<1> HIDE DEF e, R, g
<1>5. /\ Whole(list_add_tail(g, e, x), [R EXCEPT ![x] = Append(@, e)], H, E)
      /\ g.prev[x] # e
  BY <1>1, <1>2, <1>3, AddTailWhole
<1>6. x # e /\ x \in H \cup E /\ e \in H \cup E
  BY <1>1
<1>7. list_add_tail(g, e, x) = Spliced(g, H \cup E, e, g.prev[x], x)
  BY <1>4, <1>5, <1>6, AddTailEffect
<1>8. list_move_tail(h, e, x) = Spliced(g, H \cup E, e, g.prev[x], x)
  BY <1>1, <1>4, <1>5, <1>6, MoveTailEffect DEF g
<1> QED BY <1>5, <1>7, <1>8 DEF e, R

-----------------------------------------------------------------------
(***************************************************************************)
(* Following the next pointers of h from x, i times.                       *)
(***************************************************************************)
Walk(h, x, i) == CHOOSE f : f = [j \in 0..i |-> IF j = 0 THEN x ELSE h.next[f[j - 1]]]

LEMMA WalkDefined ==
  ASSUME NEW h, NEW x, NEW i \in Nat
  PROVE  /\ Nth(h, x, i) = Walk(h, x, i)[i]
         /\ Walk(h, x, i)[0] = x
         /\ \A j \in 1..i : Walk(h, x, i)[j] = h.next[Walk(h, x, i)[j - 1]]
<1> DEFINE Is(f, m) == f = [j \in 0..m |-> IF j = 0 THEN x ELSE h.next[f[j - 1]]]
           Bad == {m \in Nat : \A f : ~Is(f, m)}
<1>1. Bad = {}
  <2> SUFFICES ASSUME Bad # {} PROVE FALSE
    OBVIOUS
  <2>1. Bad \in SUBSET Nat
    OBVIOUS
  <2>2. PICK m \in Bad : \A j \in Bad : m <= j
    <3> HIDE DEF Bad
    <3> QED BY <2>1, SmallestExists
  <2>3. CASE m = 0
    <3> DEFINE g == [j \in 0..0 |-> x]
    <3>1. Is(g, 0)
      OBVIOUS
    <3> QED BY <2>3, <3>1
  <2>4. CASE m # 0
    <3>1. m \in Nat /\ m - 1 \in Nat /\ m - 1 \notin Bad
      <4> HIDE DEF Bad
      <4>1. m \in Nat /\ m - 1 \in Nat /\ ~(m <= m - 1)
        BY <2>1, <2>2, <2>4
      <4> QED BY <2>2, <4>1
    <3>2. PICK g : Is(g, m - 1)
      BY <3>1
    <3> DEFINE f == [j \in 0..m |-> IF j = m THEN h.next[g[m - 1]] ELSE g[j]]
    <3>3. \A j \in 0..m : f[j] = IF j = 0 THEN x ELSE h.next[f[j - 1]]
      <4> SUFFICES ASSUME NEW j \in 0..m
                   PROVE  f[j] = IF j = 0 THEN x ELSE h.next[f[j - 1]]
        OBVIOUS
      <4>0. \A k \in 0..(m - 1) : g[k] = IF k = 0 THEN x ELSE h.next[g[k - 1]]
        BY <3>2
      <4>1. CASE j = m
        <5>1. m - 1 \in 0..m /\ m - 1 # m
          BY <3>1
        <5>2. f[m - 1] = g[m - 1]
          BY <5>1
        <5>3. f[m] = h.next[g[m - 1]]
          BY <3>1
        <5> HIDE DEF f
        <5> QED BY <2>4, <4>1, <5>2, <5>3
      <4>2. CASE j # m
        <5>1. j \in 0..(m - 1) /\ (j # 0 => j - 1 \in 0..m /\ j - 1 # m)
          BY <3>1, <4>2
        <5>2. f[j] = g[j] /\ (j # 0 => f[j - 1] = g[j - 1])
          BY <5>1, <4>2
        <5> HIDE DEF f
        <5> QED BY <4>0, <5>1, <5>2
      <4> QED BY <4>1, <4>2
    <3>4. f = [j \in 0..m |-> f[j]]
      OBVIOUS
    <3>5. Is(f, m)
      <4> HIDE DEF f
      <4> QED BY <3>3, <3>4
    <3> HIDE DEF Is, f
    <3> QED BY <2>2, <3>5
  <2> QED BY <2>3, <2>4
<1>2. \E f : Is(f, i)
  <2> HIDE DEF Is
  <2> QED BY <1>1
<1>3. Is(Walk(h, x, i), i)
  BY <1>2 DEF Walk
<1>4. Nth(h, x, i) = Walk(h, x, i)[i]
  BY DEF Nth, Walk
<1> DEFINE f == Walk(h, x, i)
<1> HIDE DEF f
<1>5. f = [j \in 0..i |-> IF j = 0 THEN x ELSE h.next[f[j - 1]]]
  BY <1>3 DEF f
<1>6. \A j \in 0..i : f[j] = IF j = 0 THEN x ELSE h.next[f[j - 1]]
  BY <1>5
<1>7. 0 \in 0..i /\ \A j \in 1..i : j \in 0..i /\ j # 0
  OBVIOUS
<1>8. f[0] = x /\ \A j \in 1..i : f[j] = h.next[f[j - 1]]
  BY <1>6, <1>7
<1> QED BY <1>4, <1>8 DEF f

\* Whatever obeys the same rule is the walk.
LEMMA NthIs ==
  ASSUME NEW h, NEW x, NEW i \in Nat, NEW c, c[0] = x,
         \A j \in 1..i : c[j] = h.next[c[j - 1]]
  PROVE  Nth(h, x, i) = c[i]
<1> DEFINE f == Walk(h, x, i)
           Bad == {j \in 0..i : f[j] # c[j]}
<1>1. f[0] = x /\ \A j \in 1..i : f[j] = h.next[f[j - 1]]
  BY WalkDefined
<1> HIDE DEF f
<1>2. Bad = {}
  <2> SUFFICES ASSUME Bad # {} PROVE FALSE
    OBVIOUS
  <2>1. Bad \in SUBSET Nat
    OBVIOUS
  <2>2. PICK m \in Bad : \A j \in Bad : m <= j
    <3> HIDE DEF Bad
    <3> QED BY <2>1, SmallestExists
  <2>3. m # 0
    BY <1>1
  <2>4. m \in 1..i /\ m - 1 \in 0..i /\ m - 1 \notin Bad
    BY <2>2, <2>3
  <2>5. f[m - 1] = c[m - 1]
    BY <2>4
  <2>6. f[m] = c[m]
    BY <1>1, <2>4, <2>5
  <2> QED BY <2>6
<1>3. f[i] = c[i]
  BY <1>2
<1> QED BY <1>3, WalkDefined DEF f

\* A walk does not leave a set of nodes that is closed.
LEMMA NthIn ==
  ASSUME NEW h, NEW x, NEW i \in Nat, NEW W, x \in W, \A m \in W : h.next[m] \in W
  PROVE  Nth(h, x, i) \in W
<1> DEFINE f == Walk(h, x, i)
           Bad == {j \in 0..i : f[j] \notin W}
<1>1. f[0] = x /\ \A j \in 1..i : f[j] = h.next[f[j - 1]]
  BY WalkDefined
<1> HIDE DEF f
<1>2. Bad = {}
  <2> SUFFICES ASSUME Bad # {} PROVE FALSE
    OBVIOUS
  <2>1. Bad \in SUBSET Nat
    OBVIOUS
  <2>2. PICK m \in Bad : \A j \in Bad : m <= j
    <3> HIDE DEF Bad
    <3> QED BY <2>1, SmallestExists
  <2>3. m # 0
    BY <1>1
  <2>4. m \in 1..i /\ m - 1 \in 0..i /\ m - 1 \notin Bad
    BY <2>2, <2>3
  <2>5. f[m - 1] \in W
    BY <2>4
  <2>6. f[m] \in W
    BY <1>1, <2>4, <2>5
  <2> QED BY <2>6
<1>3. f[i] \in W
  BY <1>2
<1> QED BY <1>3, WalkDefined DEF f

(***************************************************************************)
(* From the j-th node of its ring, a walk passes the rest of the ring, the *)
(* head, and the ring once more.                                           *)
(***************************************************************************)
LEMMA WalkAround ==
  ASSUME NEW h, NEW x, NEW E, NEW q \in Seq(E), Leads(h, x, q),
         NEW j \in 0..Len(q), NEW i \in 0..(2 * Len(q) + 2 - j)
  PROVE  Nth(h, Around(x, q, j), i) =
           IF i + j <= Len(q) + 1 THEN Around(x, q, i + j)
           ELSE Around(x, q, i + j - (Len(q) + 1))
<1> DEFINE L == Len(q)
           at(n) == Around(x, q, n)
           c == [m \in 0..i |-> IF m + j <= L + 1 THEN at(m + j) ELSE at(m + j - (L + 1))]
<1>1. L \in Nat /\ j \in Nat /\ j <= L /\ i \in Nat /\ i <= 2 * L + 2 - j
  OBVIOUS
<1>2. at(0) = x /\ at(L + 1) = x
  BY <1>1 DEF Around
<1>3. \A n \in 0..L : h.next[at(n)] = at(n + 1)
  BY DEF Leads
<1> HIDE DEF L, at
<1>4. c[0] = at(j)
  <2>1. 0 \in 0..i /\ 0 + j = j /\ j <= L + 1
    BY <1>1
  <2> QED BY <2>1
<1>5. \A m \in 1..i : c[m] = h.next[c[m - 1]]
  <2> SUFFICES ASSUME NEW m \in 1..i PROVE c[m] = h.next[c[m - 1]]
    OBVIOUS
  <2>0. m - 1 \in 0..i /\ m \in 0..i /\ m \in Nat
    BY <1>1
  <2>1. CASE m + j <= L + 1
    <3>1. c[m] = at(m + j) /\ c[m - 1] = at(m - 1 + j)
      BY <1>1, <2>0, <2>1
    <3>2. m - 1 + j \in 0..L /\ (m - 1 + j) + 1 = m + j
      BY <1>1, <2>0, <2>1
    <3>3. h.next[at(m - 1 + j)] = at((m - 1 + j) + 1)
      BY <1>3, <3>2
    <3> HIDE DEF c
    <3> QED BY <3>1, <3>2, <3>3
  <2>2. CASE m + j = L + 2
    <3>1. c[m] = at(1) /\ c[m - 1] = at(L + 1)
      <4>1. ~(m + j <= L + 1) /\ m + j - (L + 1) = 1 /\ (m - 1) + j = L + 1 /\ L + 1 <= L + 1
        BY <1>1, <2>0, <2>2
      <4> QED BY <2>0, <4>1
    <3>2. h.next[at(0)] = at(0 + 1) /\ 0 + 1 = 1
      BY <1>1, <1>3
    <3> HIDE DEF c
    <3> QED BY <1>2, <3>1, <3>2
  <2>3. CASE m + j > L + 2
    <3> DEFINE n == m - 1 + j - (L + 1)
    <3>1. n \in 0..L /\ n + 1 = m + j - (L + 1)
      BY <1>1, <2>0, <2>3
    <3>2. c[m] = at(n + 1) /\ c[m - 1] = at(n)
      <4>1. ~(m + j <= L + 1) /\ ~((m - 1) + j <= L + 1) /\ n = (m - 1) + j - (L + 1)
        BY <1>1, <2>0, <2>3
      <4> HIDE DEF n
      <4> QED BY <2>0, <3>1, <4>1
    <3> HIDE DEF c, n
    <3> QED BY <1>3, <3>1, <3>2
  <2> QED BY <1>1, <2>0, <2>1, <2>2, <2>3
<1>6. c[i] = IF i + j <= L + 1 THEN at(i + j) ELSE at(i + j - (L + 1))
  BY <1>1
<1> HIDE DEF c
<1>7. Nth(h, at(j), i) = c[i]
  BY <1>1, <1>4, <1>5, NthIs
<1> QED BY <1>6, <1>7 DEF at, L

LEMMA NoLongerThan ==
  ASSUME NEW W, IsFiniteSet(W), NEW n \in Nat, NEW f \in [1..n -> W],
         \A i, j \in 1..n : f[i] = f[j] => i = j
  PROVE  n <= Cardinality(W)
<1>1. IsFiniteSet(1..n) /\ Cardinality(1..n) = n
  <2>1. IsFiniteSet(1..n) /\ Cardinality(1..n) = IF 1 > n THEN 0 ELSE n - 1 + 1
    BY FS_Interval
  <2> QED BY <2>1
<1>2. Cardinality(W) \in Nat
  BY FS_CardinalityType
<1>3. ~(Cardinality(W) < n)
  <2> SUFFICES ASSUME Cardinality(W) < n PROVE FALSE
    OBVIOUS
  <2>1. \E i, j \in 1..n : i # j /\ f[i] = f[j]
    BY <1>1, FS_PigeonHole
  <2> QED BY <2>1
<1> QED BY <1>2, <1>3

LEMMA RingLength ==
  ASSUME NEW h, NEW Q, NEW H, NEW E, H \cap E = {}, IsFiniteSet(H \cup E),
         Whole(h, Q, H, E), NEW x \in H
  PROVE  Len(Q[x]) \in Nat /\ Len(Q[x]) + 1 <= Cardinality(H \cup E)
<1> DEFINE n == Len(Q[x]) + 1
           f == [i \in 1..n |-> Around(x, Q[x], i)]
<1>1. Q[x] \in Seq(E) /\ Len(Q[x]) \in Nat
  BY DEF Whole
<1>2. n \in Nat
  BY <1>1
<1>3. f \in [1..n -> H \cup E]
  BY <1>1, AroundIs
<1>4. \A i, j \in 1..n : f[i] = f[j] => i = j
  <2> SUFFICES ASSUME NEW i \in 1..n, NEW j \in 1..n, f[i] = f[j] PROVE i = j
    OBVIOUS
  <2>1. Apart(Q, H)
    BY RingsApart DEF Apart
  <2>2. i \in 0..n /\ j \in 0..n /\ Around(x, Q[x], i) = Around(x, Q[x], j)
    BY <1>1
  <2>3. i = j \/ (i \notin 1..Len(Q[x]) /\ j \notin 1..Len(Q[x]))
    BY <2>1, <2>2 DEF Apart
  <2> QED BY <1>1, <2>3
<1> HIDE DEF n, f
<1>5. n <= Cardinality(H \cup E)
  BY <1>2, <1>3, <1>4, NoLongerThan
<1> QED BY <1>1, <1>5 DEF n

(***************************************************************************)
(* A list with heads H that can be read as sequences is whole.             *)
(***************************************************************************)
LEMMA WholeRings ==
  ASSUME NEW h, NEW Q, NEW H, NEW E, H \cap E = {}, Whole(h, Q, H, E)
  PROVE  /\ Rings(h)
         /\ \A e \in E : Free(Q, H, e) <=> h.next[e] = e
<1>1. /\ h \in Heap(H \cup E) /\ Q \in [H -> Seq(E)]
      /\ \A x \in H : Leads(h, x, Q[x])
      /\ \A e \in E : Free(Q, H, e) => h.next[e] = e /\ h.prev[e] = e
  BY DEF Whole
<1>2. \A e \in E : Free(Q, H, e) <=> h.next[e] = e
  BY <1>1, Neighbours DEF Free, In
<1>3. ASSUME NEW x \in H, NEW i \in 0..Len(Q[x]), NEW m, m = Around(x, Q[x], i)
      PROVE  h.prev[h.next[m]] = m /\ h.next[h.prev[m]] = m
  <2> DEFINE at(n) == Around(x, Q[x], n)
             L == Len(Q[x])
  <2>1. Q[x] \in Seq(E) /\ L \in Nat
    BY <1>1
  <2>2. at(0) = x /\ at(L + 1) = x
    BY <2>1, AroundIs
  <2>3. \A k \in 0..L : h.next[at(k)] = at(k + 1) /\ h.prev[at(k + 1)] = at(k)
    BY <1>1 DEF Leads
  <2> HIDE DEF at
  <2>4. m = at(i)
    BY <1>3 DEF at
  <2>5. h.prev[h.next[m]] = m
    BY <2>3, <2>4
  <2>6. CASE i = 0
    <3>1. L \in 0..L
      BY <2>1
    <3>2. h.next[at(L)] = at(L + 1) /\ h.prev[at(L + 1)] = at(L)
      BY <2>3, <3>1
    <3> QED BY <2>2, <2>4, <2>5, <2>6, <3>2
  <2>7. CASE i # 0
    <3>1. i - 1 \in 0..L /\ (i - 1) + 1 = i
      BY <2>1, <2>7
    <3>2. h.next[at(i - 1)] = at((i - 1) + 1) /\ h.prev[at((i - 1) + 1)] = at(i - 1)
      BY <2>3, <3>1
    <3> QED BY <2>4, <2>5, <3>1, <3>2
  <2> QED BY <2>6, <2>7
<1>4. ASSUME NEW m \in H \cup E
      PROVE  h.prev[h.next[m]] = m /\ h.next[h.prev[m]] = m
  <2>1. CASE m \in H
    <3>1. Q[m] \in Seq(E) /\ 0 \in 0..Len(Q[m]) /\ Around(m, Q[m], 0) = m
      BY <1>1, <2>1 DEF Around
    <3> QED BY <1>3, <2>1, <3>1
  <2>2. CASE m \in E /\ Free(Q, H, m)
    BY <1>1, <2>2
  <2>3. CASE m \in E /\ ~Free(Q, H, m)
    <3>1. PICK x \in H : In(Q[x], m)
      BY <2>3 DEF Free
    <3>2. PICK i \in 1..Len(Q[x]) : Q[x][i] = m
      BY <3>1 DEF In
    <3>3. Q[x] \in Seq(E) /\ i \in 0..Len(Q[x]) /\ Around(x, Q[x], i) = m
      BY <1>1, <3>2 DEF Around
    <3> QED BY <1>3, <3>3
  <2> QED BY <2>1, <2>2, <2>3
<1>5. Rings(h)
  BY <1>1, <1>4 DEF Rings, Heap
<1> QED BY <1>2, <1>5

-----------------------------------------------------------------------
(***************************************************************************)
(* Picking one index more, behind the others, appends its element.         *)
(***************************************************************************)
LEMMA PickAppend ==
  ASSUME NEW E, NEW q \in Seq(E), NEW j \in Nat, j + 1 \in 1..Len(q), NEW I \in SUBSET (1..j)
  PROVE  Pick(q, I \cup {j + 1}) = Append(Pick(q, I), q[j + 1])
<1> DEFINE J == I \cup {j + 1}
           C == Cardinality(I)
           at(K, k) == CHOOSE i \in K : Rank(K, i) = k
<1>1. /\ Len(q) \in Nat /\ J \in SUBSET (1..Len(q)) /\ I \in SUBSET (1..Len(q))
      /\ j + 1 \notin I
  OBVIOUS
<1>2. /\ IsFiniteSet(I) /\ C \in Nat
      /\ \A i \in I : Rank(I, i) \in 1..C
      /\ \A i, k \in I : i < k => Rank(I, i) < Rank(I, k)
      /\ \A k \in 1..C : \E i \in I : Rank(I, i) = k
  BY <1>1, RankBijective, FS_CardinalityType
<1>3. /\ \A i \in J : Rank(J, i) \in 1..Cardinality(J)
      /\ \A i, k \in J : i < k => Rank(J, i) < Rank(J, k)
  BY <1>1, RankBijective
<1>4. Cardinality(J) = C + 1
  BY <1>1, <1>2, FS_AddElement
<1>5. \A i \in I : Rank(J, i) = Rank(I, i)
  <2> SUFFICES ASSUME NEW i \in I PROVE Rank(J, i) = Rank(I, i)
    OBVIOUS
  <2>1. {m \in J : m <= i} = {m \in I : m <= i}
    OBVIOUS
  <2> QED BY <2>1 DEF Rank
<1>6. Rank(J, j + 1) = C + 1
  <2>1. \A m \in J : m <= j + 1
    OBVIOUS
  <2>2. {m \in J : m <= j + 1} = J
    BY <2>1
  <2> QED BY <1>4, <2>2 DEF Rank
<1> HIDE DEF J, C
<1>7. \A i, k \in J : Rank(J, i) = Rank(J, k) => i = k
  <2> SUFFICES ASSUME NEW i \in J, NEW k \in J, Rank(J, i) = Rank(J, k), i # k PROVE FALSE
    OBVIOUS
  <2>1. i < k \/ k < i
    BY <1>1
  <2>2. Rank(J, i) \in Int /\ Rank(J, k) \in Int
    BY <1>3
  <2> QED BY <1>3, <2>1, <2>2
<1>8. \A k \in 1..C : at(J, k) = at(I, k)
  <2> SUFFICES ASSUME NEW k \in 1..C PROVE at(J, k) = at(I, k)
    OBVIOUS
  <2>1. at(I, k) \in I /\ Rank(I, at(I, k)) = k
    BY <1>2
  <2>2. at(I, k) \in J /\ Rank(J, at(I, k)) = k
    BY <1>5, <2>1 DEF J
  <2>3. at(J, k) \in J /\ Rank(J, at(J, k)) = k
    BY <2>2
  <2> HIDE DEF at
  <2> QED BY <1>7, <2>2, <2>3
<1>9. at(J, C + 1) = j + 1
  <2>1. j + 1 \in J
    BY DEF J
  <2>2. at(J, C + 1) \in J /\ Rank(J, at(J, C + 1)) = C + 1
    BY <1>6, <2>1
  <2> HIDE DEF at
  <2> QED BY <1>6, <1>7, <2>1, <2>2
<1>10. \A k \in 1..C : at(I, k) \in 1..Len(q)
  BY <1>1, <1>2
<1>11. /\ Pick(q, I) = [k \in 1..C |-> q[at(I, k)]]
       /\ Pick(q, J) = [k \in 1..(C + 1) |-> q[at(J, k)]]
  BY <1>4 DEF Pick, Rank, C
<1> HIDE DEF at
<1>12. \A i \in 1..Len(q) : q[i] \in E
  OBVIOUS
<1>13. /\ Pick(q, I) \in Seq(E) /\ Len(Pick(q, I)) = C
       /\ \A k \in 1..C : Pick(q, I)[k] = q[at(I, k)]
  <2>1. Pick(q, I) \in [1..C -> E]
    BY <1>10, <1>11, <1>12
  <2>2. Pick(q, I) \in Seq(E)
    BY <1>2, <2>1 DEF C
  <2>3. Len(Pick(q, I)) = C
    BY <1>2, <2>1, <2>2 DEF C
  <2> QED BY <1>11, <2>2, <2>3
<1>14. C \in Nat
  BY <1>2 DEF C
<1>15. Pick(q, J) \in [1..(C + 1) -> E]
  <2>1. \A k \in 1..(C + 1) : k \in 1..C \/ k = C + 1
    BY <1>14
  <2> QED BY <1>1, <1>8, <1>9, <1>10, <1>11, <1>12, <2>1
<1> DEFINE p == Pick(q, I)
           e == q[j + 1]
<1> HIDE DEF p
<1>16. /\ Append(p, e) \in [1..(C + 1) -> E]
       /\ \A k \in 1..(C + 1) : Append(p, e)[k] = IF k <= C THEN p[k] ELSE e
  <2>1. p \in Seq(E) /\ Len(p) = C /\ e \in E
    BY <1>12, <1>13 DEF p
  <2>2. /\ Append(p, e) \in Seq(E) /\ Len(Append(p, e)) = C + 1
        /\ \A k \in 1..(C + 1) : Append(p, e)[k] = IF k <= C THEN p[k] ELSE e
    BY <1>14, <2>1
  <2>3. \A f \in Seq(E) : f \in [1..Len(f) -> E]
    OBVIOUS
  <2> QED BY <2>2, <2>3
<1>17. \A k \in 1..(C + 1) : Append(p, e)[k] = Pick(q, J)[k]
  <2> SUFFICES ASSUME NEW k \in 1..(C + 1) PROVE Append(p, e)[k] = Pick(q, J)[k]
    OBVIOUS
  <2>1. Pick(q, J)[k] = q[at(J, k)]
    BY <1>11
  <2>2. CASE k <= C
    <3>1. k \in 1..C
      BY <1>14, <2>2
    <3> QED BY <1>8, <1>13, <1>16, <2>1, <2>2, <3>1 DEF p
  <2>3. CASE ~(k <= C)
    <3>1. k = C + 1
      BY <1>14, <2>3
    <3> QED BY <1>9, <1>16, <2>1, <2>3, <3>1
  <2> QED BY <2>2, <2>3
<1>18. Append(p, e) = Pick(q, J)
  <2> DEFINE a == Append(p, e)
             b == Pick(q, J)
  <2>1. /\ a \in [1..(C + 1) -> E] /\ b \in [1..(C + 1) -> E]
        /\ \A k \in 1..(C + 1) : a[k] = b[k]
    BY <1>15, <1>16, <1>17
  <2> DEFINE D == 1..(C + 1)
  <2>2. a \in [D -> E] /\ b \in [D -> E] /\ \A k \in D : a[k] = b[k]
    BY <2>1
  <2> HIDE DEF a, b, D
  <2>3. a = [k \in D |-> a[k]] /\ b = [k \in D |-> b[k]]
    BY <2>2
  <2>4. a = b
    BY <2>2, <2>3
  <2> QED BY <2>4 DEF a, b
<1> QED BY <1>18 DEF p, J

\* What an earlier part of q left behind, and the entries of q from j on.
Rest(kept, q, j) ==
  [i \in 1..(Len(kept) + Len(q) - j) |->
     IF i <= Len(kept) THEN kept[i] ELSE q[i - Len(kept) + j]]

LEMMA RestIs ==
  ASSUME NEW E, NEW q \in Seq(E), NEW kept \in Seq(E), NEW j \in 0..Len(q)
  PROVE  /\ Rest(kept, q, j) \in Seq(E)
         /\ Len(Rest(kept, q, j)) = Len(kept) + Len(q) - j
         /\ j = Len(q) => Rest(kept, q, j) = kept
         /\ j < Len(q) =>
              LET i == Len(kept) + 1
              IN  /\ i \in 1..Len(Rest(kept, q, j))
                  /\ Rest(kept, q, j)[i] = q[j + 1]
                  /\ \A x : Around(x, Rest(kept, q, j), i + 1) = Around(x, q, j + 2)
                  /\ Cut(Rest(kept, q, j), i) = Rest(kept, q, j + 1)
                  /\ Rest(Append(kept, q[j + 1]), q, j + 1) = Rest(kept, q, j)
<1> DEFINE r == Rest(kept, q, j)
           K == Len(kept)
           L == Len(q)
<1>1. K \in Nat /\ L \in Nat /\ j \in Nat /\ j <= L
  OBVIOUS
<1>2. (\A i \in 1..K : kept[i] \in E) /\ (\A i \in 1..L : q[i] \in E)
  OBVIOUS
<1>3. \A f \in Seq(E) : f \in [1..Len(f) -> E]
  OBVIOUS
<1>4. kept \in [1..K -> E] /\ q \in [1..L -> E]
  BY <1>3
<1> HIDE DEF K, L
<1>5. K + L - j \in Nat /\ r \in [1..(K + L - j) -> E]
  <2>1. \A i \in 1..(K + L - j) : ~(i <= K) => i - K + j \in 1..L
    BY <1>1
  <2>2. \A i \in 1..(K + L - j) : i <= K => i \in 1..K
    BY <1>1
  <2> QED BY <1>1, <1>2, <2>1, <2>2 DEF Rest, K, L
<1>6. r \in Seq(E) /\ Len(r) = K + L - j
  <2>1. r \in Seq(E)
    BY <1>5
  <2> QED BY <1>5, <2>1
<1>7. \A i \in 1..(K + L - j) : r[i] = IF i <= K THEN kept[i] ELSE q[i - K + j]
  BY DEF Rest, K, L
<1> HIDE DEF r
<1>70. \A i \in 1..(K + L - j) : \A n \in Int : ~(i <= K) /\ n = i - K + j => r[i] = q[n]
  BY <1>7
<1>9. ASSUME j = L PROVE r = kept
  <2>1. K + L - j = K
    BY <1>1, <1>9
  <2>2. \A i \in 1..K : r[i] = kept[i]
    BY <1>1, <1>7, <2>1
  <2> QED BY <1>4, <1>5, <2>1, <2>2
<1>10. ASSUME j < L
       PROVE  /\ K + 1 \in 1..Len(r) /\ r[K + 1] = q[j + 1]
              /\ \A x : Around(x, r, K + 1 + 1) = Around(x, q, j + 2)
              /\ Cut(r, K + 1) = Rest(kept, q, j + 1)
              /\ Rest(Append(kept, q[j + 1]), q, j + 1) = r
  <2>1. K + 1 \in 1..Len(r) /\ r[K + 1] = q[j + 1]
    <3>1. K + 1 \in 1..(K + L - j) /\ ~(K + 1 <= K) /\ K + 1 - K + j = j + 1
      BY <1>1, <1>10
    <3>2. j + 1 = (K + 1) - K + j /\ j + 1 \in Int
      BY <1>1
    <3> HIDE DEF r
    <3> QED BY <1>6, <1>70, <3>1, <3>2
  <2>2. ASSUME NEW x PROVE Around(x, r, K + 1 + 1) = Around(x, q, j + 2)
    <3>1. CASE j + 2 <= L
      <4>1. K + 2 \in 1..(K + L - j) /\ ~(K + 2 <= K) /\ K + 2 - K + j = j + 2
            /\ j + 2 \in 1..L /\ K + 1 + 1 = K + 2
        BY <1>1, <3>1
      <4>2. r[K + 2] = q[j + 2]
        <5>1. j + 2 \in Int /\ j + 2 = (K + 2) - K + j
          BY <1>1
        <5> QED BY <1>70, <4>1, <5>1
      <4> QED BY <1>6, <4>1, <4>2 DEF Around, L
    <3>2. CASE ~(j + 2 <= L)
      <4>1. K + 1 + 1 \notin 1..(K + L - j) /\ j + 2 \notin 1..L
        BY <1>1, <1>10, <3>2
      <4> QED BY <1>6, <4>1 DEF Around, L
    <3> QED BY <3>1, <3>2
  <2>3. Cut(r, K + 1) = Rest(kept, q, j + 1)
    <3> DEFINE M == K + L - j - 1
    <3>1. M \in Nat /\ Len(r) - 1 = M /\ K + L - (j + 1) = M
      BY <1>1, <1>6, <1>10
    <3>2. \A k \in 1..M : (IF k < K + 1 THEN r[k] ELSE r[k + 1])
                          = IF k <= K THEN kept[k] ELSE q[k - K + (j + 1)]
      <4> SUFFICES ASSUME NEW k \in 1..M
                   PROVE  (IF k < K + 1 THEN r[k] ELSE r[k + 1])
                          = IF k <= K THEN kept[k] ELSE q[k - K + (j + 1)]
        OBVIOUS
      <4>1. k \in 1..(K + L - j) /\ k + 1 \in 1..(K + L - j) /\ (k < K + 1 <=> k <= K)
        BY <1>1, <3>1
      <4>2. CASE k <= K
        BY <1>7, <4>1, <4>2
      <4>3. CASE ~(k <= K)
        <5> DEFINE n == k - K + (j + 1)
        <5>1. ~(k + 1 <= K) /\ n = (k + 1) - K + j /\ n \in Int /\ ~(k < K + 1)
          BY <1>1, <4>1, <4>3
        <5> HIDE DEF n
        <5>2. r[k + 1] = q[n]
          BY <1>70, <4>1, <5>1
        <5> USE DEF n
        <5> QED BY <4>1, <4>3, <5>1, <5>2
      <4> QED BY <4>2, <4>3
    <3>3. Cut(r, K + 1) = [k \in 1..M |-> IF k < K + 1 THEN r[k] ELSE r[k + 1]]
      BY <3>1 DEF Cut
    <3>4. Rest(kept, q, j + 1) = [k \in 1..M |-> IF k <= K THEN kept[k] ELSE q[k - K + (j + 1)]]
      BY <3>1 DEF Rest, K, L
    <3> HIDE DEF M
    <3> QED BY <3>2, <3>3, <3>4
  <2>4. Rest(Append(kept, q[j + 1]), q, j + 1) = r
    <3> DEFINE a == Append(kept, q[j + 1])
    <3>1. /\ Len(a) = K + 1
          /\ \A k \in 1..(K + 1) : a[k] = IF k <= K THEN kept[k] ELSE q[j + 1]
      <4>1. j + 1 \in 1..L
        BY <1>1, <1>10
      <4>2. q[j + 1] \in E
        BY <1>2, <4>1
      <4> QED BY <4>2 DEF K
    <3>2. Len(a) + L - (j + 1) = K + L - j
      BY <1>1, <3>1
    <3> HIDE DEF a
    <3>3. Rest(a, q, j + 1) = [i \in 1..(K + L - j) |->
                                 IF i <= K + 1 THEN a[i] ELSE q[i - (K + 1) + (j + 1)]]
      BY <3>1, <3>2 DEF Rest, L
    <3>4. ASSUME NEW i \in 1..(K + L - j)
          PROVE  (IF i <= K + 1 THEN a[i] ELSE q[i - (K + 1) + (j + 1)]) = r[i]
      <4>1. CASE i <= K
        <5>1. i <= K + 1 /\ i \in 1..(K + 1)
          BY <1>1, <4>1
        <5> QED BY <1>7, <3>1, <4>1, <5>1
      <4>2. CASE i = K + 1
        <5>1. i <= K + 1 /\ i \in 1..(K + 1) /\ ~(i <= K)
          BY <1>1, <4>2
        <5> QED BY <2>1, <3>1, <4>2, <5>1
      <4>3. CASE i > K + 1
        <5>1. ~(i <= K + 1) /\ ~(i <= K) /\ i - (K + 1) + (j + 1) = i - K + j
          BY <1>1, <4>3
        <5> QED BY <1>7, <5>1
      <4> QED BY <1>1, <4>1, <4>2, <4>3
    <3>5. r = [i \in 1..(K + L - j) |-> r[i]]
      BY <1>5
    <3>6. Rest(a, q, j + 1) = r
      BY <3>3, <3>4, <3>5
    <3> QED BY <3>6 DEF a
  <2> QED BY <2>1, <2>2, <2>3, <2>4
<1>11. j < L => LET i == K + 1
                IN  /\ i \in 1..Len(r) /\ r[i] = q[j + 1]
                    /\ \A x : Around(x, r, i + 1) = Around(x, q, j + 2)
                    /\ Cut(r, i) = Rest(kept, q, j + 1)
                    /\ Rest(Append(kept, q[j + 1]), q, j + 1) = r
  BY <1>10
<1> QED BY <1>6, <1>9, <1>11 DEF r, K, L

-----------------------------------------------------------------------
Statuses == {"BLOCKED", "RUNNING", "READY", "EXITED"}
Proc == {pid0} \cup Pcb

LEMMA Constants ==
  /\ NumTask \in Nat \ {0} /\ NumThread \in Nat
  /\ Heads \cap Pcb = {} /\ Task \cap Tcb = {} /\ Heads \cup Pcb = Node
  /\ ready_queue \in Heads /\ sleep_queue \in Heads /\ ready_queue # sleep_queue
  /\ pid0 \notin Heads /\ pid0 \notin Pcb /\ pid0 \notin Task
  /\ IsFiniteSet(Pcb) /\ Cardinality(Pcb) \in Nat
<1>1. /\ NumTask \in Nat \ {0} /\ NumThread \in Nat
      /\ Heads \cap Pcb = {} /\ Heads \cup Pcb = Node
      /\ ready_queue \in Heads /\ sleep_queue \in Heads /\ ready_queue # sleep_queue
      /\ pid0 \notin Heads
  BY ThreadsAssumption DEF Node, Heads
<1>2. Task \cap Tcb = {} /\ pid0 \notin Pcb /\ pid0 \notin Task
  BY <1>1 DEF Task, Tcb, Pcb, pid0
<1>3. IsFiniteSet(Pcb)
  <2>1. IsFiniteSet(Task) /\ IsFiniteSet(Tcb)
    BY <1>1, FS_Interval DEF Task, Tcb
  <2> QED BY <2>1, FS_Union DEF Pcb
<1> QED BY <1>1, <1>2, <1>3, FS_CardinalityType

(***************************************************************************)
(* One round of the loop of check_sleeping, the i-th.                      *)
(***************************************************************************)
ScanStart(s) ==
  LET first == s.list.next[sleep_queue]
  IN  [s |-> s, pos |-> first, n |-> s.list.next[first]]

ScanRound(b, wk, k, i) ==
  LET now   == IF i >= k THEN ticks + 1 ELSE ticks
      after == IF get_timer(now) >= wk[b.pos] THEN do_unblock(b.s, b.pos) ELSE b.s
  IN  IF b.pos = sleep_queue THEN b
      ELSE [s |-> after, pos |-> b.n, n |-> after.list.next[b.n]]

ScanTo(s, wk, k, rounds) ==
  CHOOSE f : f = [i \in 0..rounds |->
                    IF i = 0 THEN ScanStart(s) ELSE ScanRound(f[i - 1], wk, k, i)]

LEMMA ScanDefined ==
  ASSUME NEW s, NEW wk, NEW k, NEW rounds \in Nat
  PROVE  /\ Scan(s, wk, k, rounds) = ScanTo(s, wk, k, rounds)[rounds]
         /\ ScanTo(s, wk, k, rounds)[0] = ScanStart(s)
         /\ \A i \in 1..rounds : ScanTo(s, wk, k, rounds)[i] =
                                   ScanRound(ScanTo(s, wk, k, rounds)[i - 1], wk, k, i)
<1> DEFINE Is(f, m) == f = [i \in 0..m |-> IF i = 0 THEN ScanStart(s)
                                           ELSE ScanRound(f[i - 1], wk, k, i)]
           Bad == {m \in Nat : \A f : ~Is(f, m)}
<1>1. Bad = {}
  <2> SUFFICES ASSUME Bad # {} PROVE FALSE
    OBVIOUS
  <2>1. Bad \in SUBSET Nat
    OBVIOUS
  <2>2. PICK m \in Bad : \A j \in Bad : m <= j
    <3> HIDE DEF Bad
    <3> QED BY <2>1, SmallestExists
  <2>3. CASE m = 0
    <3> DEFINE g == [i \in 0..0 |-> ScanStart(s)]
    <3>1. Is(g, 0)
      OBVIOUS
    <3> QED BY <2>3, <3>1
  <2>4. CASE m # 0
    <3>1. m \in Nat /\ m - 1 \in Nat /\ m - 1 \notin Bad
      <4> HIDE DEF Bad
      <4>1. m \in Nat /\ m - 1 \in Nat /\ ~(m <= m - 1)
        BY <2>1, <2>2, <2>4
      <4> QED BY <2>2, <4>1
    <3>2. PICK g : Is(g, m - 1)
      BY <3>1
    <3> DEFINE f == [i \in 0..m |-> IF i = m THEN ScanRound(g[m - 1], wk, k, m) ELSE g[i]]
    <3>3. \A i \in 0..m : f[i] = IF i = 0 THEN ScanStart(s) ELSE ScanRound(f[i - 1], wk, k, i)
      <4> SUFFICES ASSUME NEW i \in 0..m
                   PROVE  f[i] = IF i = 0 THEN ScanStart(s) ELSE ScanRound(f[i - 1], wk, k, i)
        OBVIOUS
      <4>0. \A j \in 0..(m - 1) : g[j] = IF j = 0 THEN ScanStart(s)
                                         ELSE ScanRound(g[j - 1], wk, k, j)
        BY <3>2
      <4>1. CASE i = m
        <5>1. m - 1 \in 0..m /\ m - 1 # m
          BY <3>1
        <5>2. f[m - 1] = g[m - 1]
          BY <5>1
        <5>3. f[m] = ScanRound(g[m - 1], wk, k, m)
          BY <3>1
        <5> HIDE DEF f
        <5> QED BY <2>4, <4>1, <5>2, <5>3
      <4>2. CASE i # m
        <5>1. i \in 0..(m - 1) /\ (i # 0 => i - 1 \in 0..m /\ i - 1 # m)
          BY <3>1, <4>2
        <5>2. f[i] = g[i] /\ (i # 0 => f[i - 1] = g[i - 1])
          BY <5>1, <4>2
        <5> HIDE DEF f
        <5> QED BY <4>0, <5>1, <5>2
      <4> QED BY <4>1, <4>2
    <3>4. f = [i \in 0..m |-> f[i]]
      OBVIOUS
    <3>5. Is(f, m)
      <4> HIDE DEF f
      <4> QED BY <3>3, <3>4
    <3> HIDE DEF Is, f
    <3> QED BY <2>2, <3>5
  <2> QED BY <2>3, <2>4
<1>2. \E f : Is(f, rounds)
  <2> HIDE DEF Is
  <2> QED BY <1>1
<1>3. Is(ScanTo(s, wk, k, rounds), rounds)
  BY <1>2 DEF ScanTo
<1>4. Scan(s, wk, k, rounds) = ScanTo(s, wk, k, rounds)[rounds]
  BY DEF Scan, ScanTo, ScanStart, ScanRound
<1> DEFINE f == ScanTo(s, wk, k, rounds)
<1> HIDE DEF f
<1>5. f = [i \in 0..rounds |-> IF i = 0 THEN ScanStart(s) ELSE ScanRound(f[i - 1], wk, k, i)]
  BY <1>3 DEF f
<1>6. \A i \in 0..rounds : f[i] = IF i = 0 THEN ScanStart(s) ELSE ScanRound(f[i - 1], wk, k, i)
  BY <1>5
<1>7. 0 \in 0..rounds /\ \A i \in 1..rounds : i \in 0..rounds /\ i # 0
  OBVIOUS
<1>8. f[0] = ScanStart(s) /\ \A i \in 1..rounds : f[i] = ScanRound(f[i - 1], wk, k, i)
  BY <1>6, <1>7
<1> QED BY <1>4, <1>8 DEF f

(***************************************************************************)
(* The state of the loop after j rounds: the entries found due have moved  *)
(* to the end of the ready queue, in their order, the others are where     *)
(* they were, and pos and n are the next two nodes.                        *)
(***************************************************************************)
DueTo(q, wk, k, j) ==
  {i \in 1..j : get_timer(IF i >= k THEN ticks + 1 ELSE ticks) >= wk[q[i]]}

Kept(q, wk, k, j)  == Pick(q, (1..j) \ DueTo(q, wk, k, j))
Moved(q, wk, k, j) == Pick(q, DueTo(q, wk, k, j))

QueuesAfter(Q, wk, k, j) ==
  [x \in Heads |-> IF x = sleep_queue
                   THEN Rest(Kept(Q[sleep_queue], wk, k, j), Q[sleep_queue], j)
                   ELSE Q[ready_queue] \o Moved(Q[sleep_queue], wk, k, j)]

StatusAfter(st, q, wk, k, j) ==
  [p \in Proc |-> IF \E i \in DueTo(q, wk, k, j) : q[i] = p THEN "READY" ELSE st[p]]

Scanned(b, s, Q, wk, k, j) ==
  /\ Whole(b.s.list, QueuesAfter(Q, wk, k, j), Heads, Pcb)
  /\ b.s.status = StatusAfter(s.status, Q[sleep_queue], wk, k, j)
  /\ b.pos = Around(sleep_queue, Q[sleep_queue], j + 1)
  /\ b.n = b.s.list.next[b.pos]

LEMMA RestStarts ==
  ASSUME NEW E, NEW q \in Seq(E) PROVE Rest(<< >>, q, 0) = q
<1>1. Len(<< >>) = 0 /\ 0 + Len(q) - 0 = Len(q) /\ Len(q) \in Nat
  OBVIOUS
<1>2. q = [i \in 1..Len(q) |-> q[i]]
  OBVIOUS
<1>3. \A i \in 1..Len(q) : (IF i <= 0 THEN << >>[i] ELSE q[i - 0 + 0]) = q[i]
  OBVIOUS
<1>4. Rest(<< >>, q, 0) = [i \in 1..Len(q) |-> IF i <= 0 THEN << >>[i] ELSE q[i - 0 + 0]]
  BY <1>1 DEF Rest
<1> QED BY <1>2, <1>3, <1>4

LEMMA AppendConcat ==
  ASSUME NEW p \in Seq(Pcb), NEW q \in Seq(Pcb), NEW e \in Pcb
  PROVE  Append(p \o q, e) = p \o Append(q, e)
<1>1. <<e>> \in Seq(Pcb) /\ p \o q \in Seq(Pcb)
  OBVIOUS
<1>2. Append(p \o q, e) = (p \o q) \o <<e>> /\ Append(q, e) = q \o <<e>>
  BY <1>1, AppendIsConcat
<1>3. (p \o q) \o <<e>> = p \o (q \o <<e>>)
  BY <1>1, ConcatAssociative
<1> QED BY <1>2, <1>3

LEMMA DueParts ==
  ASSUME NEW q \in Seq(Pcb), NEW wk, NEW k, NEW j \in 0..Len(q)
  PROVE  /\ DueTo(q, wk, k, j) \in SUBSET (1..j)
         /\ Kept(q, wk, k, j) \in Seq(Pcb)
         /\ Moved(q, wk, k, j) \in Seq(Pcb)
<1> DEFINE due == DueTo(q, wk, k, j)
<1>1. DOMAIN q = 1..Len(q) /\ Len(q) \in Nat
  OBVIOUS
<1>2. due \in SUBSET (1..j)
  BY DEF DueTo
<1>3. 1..j \in SUBSET (DOMAIN q)
  BY <1>1
<1>4. (1..j) \ due \in SUBSET DOMAIN q /\ due \in SUBSET DOMAIN q
  BY <1>2, <1>3
<1> HIDE DEF due
<1>5. Pick(q, (1..j) \ due) \in Seq(Pcb) /\ Pick(q, due) \in Seq(Pcb)
  BY <1>1, <1>4, PickProperties
<1> QED BY <1>2, <1>5 DEF due, Kept, Moved

LEMMA ScanStartIs ==
  ASSUME NEW s, NEW Q, Whole(s.list, Q, Heads, Pcb), s.status \in [Proc -> Statuses],
         NEW wk, NEW k
  PROVE  Scanned(ScanStart(s), s, Q, wk, k, 0)
<1> DEFINE q == Q[sleep_queue]
<1>1. Q \in [Heads -> Seq(Pcb)] /\ q \in Seq(Pcb) /\ Leads(s.list, sleep_queue, q)
  BY Constants DEF Whole
<1>2. DueTo(q, wk, k, 0) = {} /\ (1..0) \ DueTo(q, wk, k, 0) = {}
  BY DEF DueTo
<1>3. Pick(q, {}) = << >>
  BY FS_EmptySet DEF Pick
<1>4. 0 \in 0..Len(q)
  BY <1>1
<1>5. Rest(<< >>, q, 0) = q
  BY <1>1, RestStarts
<1>6. Q[ready_queue] \o << >> = Q[ready_queue]
  <2>1. Q[ready_queue] \in Seq(Pcb)
    BY <1>1, Constants
  <2> QED BY <2>1, ConcatEmptySeq
<1>7. QueuesAfter(Q, wk, k, 0) = Q
  <2>1. Kept(q, wk, k, 0) = << >> /\ Moved(q, wk, k, 0) = << >>
    BY <1>2, <1>3 DEF Kept, Moved
  <2>2. QueuesAfter(Q, wk, k, 0) = [x \in Heads |-> IF x = sleep_queue THEN q ELSE Q[ready_queue]]
    BY <1>5, <1>6, <2>1 DEF QueuesAfter
  <2>3. Q = [x \in Heads |-> Q[x]]
    BY <1>1
  <2>4. \A x \in Heads : x # sleep_queue => x = ready_queue
    BY DEF Heads
  <2> QED BY <2>2, <2>3, <2>4
<1>8. StatusAfter(s.status, q, wk, k, 0) = s.status
  <2>1. StatusAfter(s.status, q, wk, k, 0) = [p \in Proc |-> s.status[p]]
    BY <1>2 DEF StatusAfter
  <2> QED BY <2>1
<1>9. s.list.next[sleep_queue] = Around(sleep_queue, q, 0 + 1)
  <2>1. Around(sleep_queue, q, 0) = sleep_queue
    BY DEF Around
  <2> QED BY <1>1, <1>4, <2>1 DEF Leads
<1> HIDE DEF q
<1> QED BY <1>7, <1>8, <1>9 DEF Scanned, ScanStart, q

(***************************************************************************)
(* Round j + 1 turns the state after j rounds into the one after j + 1.    *)
(***************************************************************************)
LEMMA ScanRoundIs ==
  ASSUME NEW s, NEW Q, Q \in [Heads -> Seq(Pcb)], s.status \in [Proc -> Statuses],
         NEW wk, NEW k, NEW j \in Nat, j < Len(Q[sleep_queue]),
         NEW b, Scanned(b, s, Q, wk, k, j)
  PROVE  Scanned(ScanRound(b, wk, k, j + 1), s, Q, wk, k, j + 1)
<1> DEFINE q     == Q[sleep_queue]
           L     == Len(q)
           e     == q[j + 1]
           kept  == Kept(q, wk, k, j)
           moved == Moved(q, wk, k, j)
           R     == QueuesAfter(Q, wk, k, j)
           now   == IF j + 1 >= k THEN ticks + 1 ELSE ticks
           late  == get_timer(now) >= wk[b.pos]
           after == IF late THEN do_unblock(b.s, b.pos) ELSE b.s
           i     == Len(kept) + 1
<1>1. /\ q \in Seq(Pcb) /\ L \in Nat /\ j \in 0..L /\ j + 1 \in 1..L /\ j + 1 \in 0..L
      /\ e \in Pcb /\ Q[ready_queue] \in Seq(Pcb)
  BY Constants
<1>2. /\ Whole(b.s.list, R, Heads, Pcb)
      /\ b.s.status = StatusAfter(s.status, q, wk, k, j)
      /\ b.pos = Around(sleep_queue, q, j + 1)
      /\ b.n = b.s.list.next[b.pos]
  BY DEF Scanned
<1>3. b.pos = e /\ e # sleep_queue
  BY <1>1, <1>2, Constants DEF Around
<1>4. /\ DueTo(q, wk, k, j) \in SUBSET (1..j)
      /\ kept \in Seq(Pcb) /\ moved \in Seq(Pcb)
  BY <1>1, DueParts
<1>5. R[sleep_queue] = Rest(kept, q, j) /\ R[ready_queue] = Q[ready_queue] \o moved
  BY Constants DEF QueuesAfter
<1>6. /\ i \in 1..Len(R[sleep_queue]) /\ R[sleep_queue][i] = e
      /\ \A x : Around(x, R[sleep_queue], i + 1) = Around(x, q, j + 2)
      /\ Cut(R[sleep_queue], i) = Rest(kept, q, j + 1)
      /\ Rest(Append(kept, e), q, j + 1) = Rest(kept, q, j)
  <2> HIDE DEF kept, q
  <2>1. j < Len(q)
    BY DEF q
  <2> QED BY <1>1, <1>4, <1>5, <2>1, RestIs
<1>7. b.n = Around(sleep_queue, q, j + 2)
  <2> HIDE DEF i, R, e
  <2>1. /\ Heads \cap Pcb = {} /\ sleep_queue \in Heads
        /\ Whole(b.s.list, R, Heads, Pcb) /\ i \in 1..Len(R[sleep_queue])
    BY <1>2, <1>6, Constants
  <2>2. b.s.list.next[R[sleep_queue][i]] = Around(sleep_queue, R[sleep_queue], i + 1)
    BY ONLY <2>1, Neighbours
  <2> QED BY <1>2, <1>3, <1>6, <2>2
<1>8. ScanRound(b, wk, k, j + 1) = [s |-> after, pos |-> b.n, n |-> after.list.next[b.n]]
  BY <1>3 DEF ScanRound
<1>9. late <=> j + 1 \in DueTo(q, wk, k, j + 1)
  BY <1>1, <1>3 DEF DueTo
<1>10. DueTo(q, wk, k, j + 1) = DueTo(q, wk, k, j) \cup (IF late THEN {j + 1} ELSE {})
  <2>1. ASSUME NEW m
        PROVE  m \in DueTo(q, wk, k, j + 1)
                 <=> m \in DueTo(q, wk, k, j) \/ (late /\ m = j + 1)
    <3>1. m \in 1..(j + 1) <=> m \in 1..j \/ m = j + 1
      BY <1>1
    <3>2. j + 1 \notin 1..j
      BY <1>1
    <3> HIDE DEF q, late
    <3> QED BY <1>9, <3>1, <3>2 DEF DueTo
  <2> HIDE DEF late
  <2> QED BY <2>1
<1>11. (1..(j + 1)) \ DueTo(q, wk, k, j + 1)
       = ((1..j) \ DueTo(q, wk, k, j)) \cup (IF late THEN {} ELSE {j + 1})
  <2>1. 1..(j + 1) = (1..j) \cup {j + 1} /\ j + 1 \notin 1..j
    BY <1>1
  <2>2. j + 1 \notin DueTo(q, wk, k, j)
    BY <1>4, <2>1
  <2> HIDE DEF late, q
  <2> QED BY <1>10, <2>1, <2>2
<1>12. ASSUME late
       PROVE  /\ Kept(q, wk, k, j + 1) = kept
              /\ Moved(q, wk, k, j + 1) = Append(moved, e)
  <2> HIDE DEF late, q
  <2>1. Kept(q, wk, k, j + 1) = kept
    BY <1>11, <1>12 DEF Kept
  <2>2. Pick(q, DueTo(q, wk, k, j) \cup {j + 1}) = Append(Pick(q, DueTo(q, wk, k, j)), q[j + 1])
    BY <1>1, <1>4, PickAppend
  <2> QED BY <1>10, <1>12, <2>1, <2>2 DEF Moved
<1>13. ASSUME ~late
       PROVE  /\ Kept(q, wk, k, j + 1) = Append(kept, e)
              /\ Moved(q, wk, k, j + 1) = moved
  <2> HIDE DEF late, q
  <2>1. Moved(q, wk, k, j + 1) = moved
    BY <1>10, <1>13 DEF Moved
  <2> DEFINE I == (1..j) \ DueTo(q, wk, k, j)
  <2>2. I \in SUBSET (1..j)
    OBVIOUS
  <2> HIDE DEF I
  <2>3. Pick(q, I \cup {j + 1}) = Append(Pick(q, I), q[j + 1])
    BY <1>1, <2>2, PickAppend
  <2> QED BY <1>11, <1>13, <2>1, <2>3 DEF Kept, I
<1> HIDE DEF q, L, e, kept, moved, R, now, late, i
<1>14. Whole(after.list, QueuesAfter(Q, wk, k, j + 1), Heads, Pcb)
  <2>1. CASE late
    <3> DEFINE T == [R EXCEPT ![sleep_queue] = Cut(@, i)]
    <3>1. Whole(list_move_tail(b.s.list, e, ready_queue),
                [T EXCEPT ![ready_queue] = Append(@, e)], Heads, Pcb)
      BY <1>2, <1>6, Constants, MoveWhole
    <3>2. after.list = list_move_tail(b.s.list, e, ready_queue)
      BY <1>3, <2>1 DEF do_unblock
    <3>3. [T EXCEPT ![ready_queue] = Append(@, e)] = QueuesAfter(Q, wk, k, j + 1)
      <4>1. R \in [Heads -> Seq(Pcb)]
        BY <1>2 DEF Whole
      <4>2. [T EXCEPT ![ready_queue] = Append(@, e)]
            = [x \in Heads |-> IF x = sleep_queue THEN Cut(R[sleep_queue], i)
                               ELSE Append(R[ready_queue], e)]
        <5> DEFINE c == Cut(R[sleep_queue], i)
        <5>1. T = [x \in Heads |-> IF x = sleep_queue THEN c ELSE R[x]]
          BY <4>1
        <5>2. /\ ready_queue # sleep_queue /\ ready_queue \in Heads
              /\ \A x \in Heads : x # sleep_queue => x = ready_queue
          BY Constants DEF Heads
        <5> HIDE DEF T, c
        <5>3. T[ready_queue] = R[ready_queue]
          BY <5>1, <5>2
        <5>4. [T EXCEPT ![ready_queue] = Append(@, e)]
              = [x \in Heads |-> IF x = ready_queue THEN Append(R[ready_queue], e) ELSE T[x]]
          BY <5>1, <5>3
        <5>5. [T EXCEPT ![ready_queue] = Append(@, e)]
              = [x \in Heads |-> IF x = sleep_queue THEN c ELSE Append(R[ready_queue], e)]
          BY <5>1, <5>2, <5>4
        <5> QED BY <5>5 DEF c
      <4>3. Append(R[ready_queue], e) = Q[ready_queue] \o Append(moved, e)
        <5> DEFINE p == Q[ready_queue]
        <5>1. p \in Seq(Pcb) /\ moved \in Seq(Pcb) /\ e \in Pcb
          BY <1>1, <1>4
        <5>2. R[ready_queue] = p \o moved
          BY <1>5
        <5> HIDE DEF p
        <5>3. Append(p \o moved, e) = p \o Append(moved, e)
          BY <5>1, AppendConcat
        <5> QED BY <5>2, <5>3 DEF p
      <4> QED BY <1>6, <1>12, <2>1, <4>2, <4>3 DEF QueuesAfter, q
    <3> QED BY <3>1, <3>2, <3>3
  <2>2. CASE ~late
    <3>1. QueuesAfter(Q, wk, k, j + 1) = R
      BY <1>6, <1>13, <2>2 DEF QueuesAfter, R, q, kept, moved
    <3> QED BY <1>2, <2>2, <3>1
  <2> QED BY <2>1, <2>2
<1>15. after.status = StatusAfter(s.status, q, wk, k, j + 1)
  <2>1. CASE late
    <3>1. after.status = [b.s.status EXCEPT ![e] = "READY"]
      BY <1>3, <2>1 DEF do_unblock
    <3>2. e \in Proc
      BY <1>1 DEF Proc
    <3>3. ASSUME NEW p \in Proc
          PROVE  (\E m \in DueTo(q, wk, k, j + 1) : q[m] = p)
                 <=> p = e \/ \E m \in DueTo(q, wk, k, j) : q[m] = p
      BY <1>10, <2>1 DEF e
    <3>4. b.s.status = [p \in Proc |-> IF \E m \in DueTo(q, wk, k, j) : q[m] = p
                                       THEN "READY" ELSE s.status[p]]
      BY <1>2 DEF StatusAfter
    <3>5. after.status = [p \in Proc |-> IF p = e THEN "READY" ELSE b.s.status[p]]
      BY <3>1, <3>2, <3>4
    <3>6. after.status = [p \in Proc |-> IF \E m \in DueTo(q, wk, k, j + 1) : q[m] = p
                                         THEN "READY" ELSE s.status[p]]
      BY <3>3, <3>4, <3>5
    <3> QED BY <3>6 DEF StatusAfter
  <2>2. CASE ~late
    <3>1. DueTo(q, wk, k, j + 1) = DueTo(q, wk, k, j)
      BY <1>10, <2>2
    <3> QED BY <1>2, <2>2, <3>1 DEF StatusAfter
  <2> QED BY <2>1, <2>2
<1>16. (j + 1) + 1 = j + 2
  OBVIOUS
<1> HIDE DEF after
<1> QED BY <1>7, <1>8, <1>14, <1>15, <1>16 DEF Scanned, q

(***************************************************************************)
(* check_sleeping ends at the head of the sleep queue.  The entries due    *)
(* are now at the end of the ready queue, in their order.                  *)
(***************************************************************************)
LEMMA CheckSleepingIs ==
  ASSUME NEW s, NEW Q, Whole(s.list, Q, Heads, Pcb), s.status \in [Proc -> Statuses],
         NEW wk, NEW k
  PROVE  LET end == check_sleeping(s, wk, k)
             q   == Q[sleep_queue]
             L   == Len(q)
         IN  /\ end.pos = sleep_queue
             /\ end.s.status = StatusAfter(s.status, q, wk, k, L)
             /\ Whole(end.s.list, [x \in Heads |->
                                     IF x = sleep_queue THEN Kept(q, wk, k, L)
                                     ELSE Q[ready_queue] \o Moved(q, wk, k, L)], Heads, Pcb)
             /\ L \in Nat /\ L <= Cardinality(Pcb)
<1> DEFINE q == Q[sleep_queue]
           L == Len(q)
           C == Cardinality(Pcb)
           f == ScanTo(s, wk, k, C)
<1>1. Q \in [Heads -> Seq(Pcb)] /\ q \in Seq(Pcb) /\ L \in Nat /\ Distinct(Q, Heads)
  BY Constants DEF Whole
<1>2. C \in Nat /\ L <= C
  <2>1. \A i, j \in 1..L : q[i] = q[j] => i = j
    BY <1>1, Constants DEF Distinct
  <2>2. q \in [1..L -> Pcb]
    BY <1>1
  <2> HIDE DEF q, L
  <2> QED BY <1>1, <2>1, <2>2, Constants, NoLongerThan
<1> HIDE DEF C, f
<1>3. /\ check_sleeping(s, wk, k) = f[C] /\ f[0] = ScanStart(s)
      /\ \A i \in 1..C : f[i] = ScanRound(f[i - 1], wk, k, i)
  <2>1. check_sleeping(s, wk, k) = Scan(s, wk, k, C)
    BY DEF check_sleeping, C
  <2>2. /\ Scan(s, wk, k, C) = ScanTo(s, wk, k, C)[C]
        /\ ScanTo(s, wk, k, C)[0] = ScanStart(s)
        /\ \A i \in 1..C : ScanTo(s, wk, k, C)[i] =
                             ScanRound(ScanTo(s, wk, k, C)[i - 1], wk, k, i)
    BY <1>2, ScanDefined
  <2> QED BY <2>1, <2>2 DEF f
<1> DEFINE Bad == {j \in 0..L : ~Scanned(f[j], s, Q, wk, k, j)}
<1>4. Bad = {}
  <2> SUFFICES ASSUME Bad # {} PROVE FALSE
    OBVIOUS
  <2>1. Bad \in SUBSET Nat
    BY <1>1
  <2>2. PICK m \in Bad : \A j \in Bad : m <= j
    <3> HIDE DEF Bad
    <3> QED BY <2>1, SmallestExists
  <2>3. m # 0
    BY <1>3, <2>2, ScanStartIs
  <2>4. m \in 1..C /\ m \in 0..L /\ m - 1 \in Nat /\ m - 1 < L /\ (m - 1) + 1 = m
    BY <1>1, <1>2, <2>2, <2>3
  <2>5. m - 1 \in 0..L /\ ~(m <= m - 1)
    BY <1>1, <2>4
  <2>6. m - 1 \notin Bad
    <3> HIDE DEF Bad
    <3> QED BY <2>2, <2>5
  <2>7. Scanned(f[m - 1], s, Q, wk, k, m - 1)
    BY <2>5, <2>6
  <2>8. Scanned(ScanRound(f[m - 1], wk, k, m), s, Q, wk, k, m)
    <3> DEFINE j == m - 1
    <3>1. j \in Nat /\ j < Len(Q[sleep_queue]) /\ Scanned(f[j], s, Q, wk, k, j) /\ j + 1 = m
      BY <2>4, <2>7
    <3> HIDE DEF j
    <3>2. Scanned(ScanRound(f[j], wk, k, j + 1), s, Q, wk, k, j + 1)
      BY <1>1, <3>1, ScanRoundIs
    <3> QED BY <3>1, <3>2 DEF j
  <2>9. f[m] = ScanRound(f[m - 1], wk, k, m)
    BY <1>3, <2>4
  <2> QED BY <2>2, <2>8, <2>9
<1>5. Scanned(f[L], s, Q, wk, k, L)
  BY <1>1, <1>4
<1>6. f[L].pos = sleep_queue
  <2>1. Around(sleep_queue, q, L + 1) = sleep_queue
    BY <1>1 DEF Around
  <2> QED BY <1>5, <2>1 DEF Scanned
<1> DEFINE Off == {j \in L..C : f[j] # f[L]}
<1>7. Off = {}
  <2> SUFFICES ASSUME Off # {} PROVE FALSE
    OBVIOUS
  <2>1. Off \in SUBSET Nat
    BY <1>1
  <2>2. PICK m \in Off : \A j \in Off : m <= j
    <3> HIDE DEF Off
    <3> QED BY <2>1, SmallestExists
  <2>3. m # L
    BY <2>2
  <2>4. m \in 1..C /\ m - 1 \in L..C /\ ~(m <= m - 1)
    BY <1>1, <1>2, <2>2, <2>3
  <2>5. m - 1 \notin Off
    <3> HIDE DEF Off
    <3> QED BY <2>2, <2>4
  <2>6. f[m - 1] = f[L]
    BY <2>4, <2>5
  <2>7. f[m] = ScanRound(f[m - 1], wk, k, m)
    BY <1>3, <2>4
  <2>8. f[m] = f[L]
    BY <1>6, <2>6, <2>7 DEF ScanRound
  <2> QED BY <2>2, <2>8
<1>8. f[C] = f[L]
  BY <1>1, <1>2, <1>7
<1>9. QueuesAfter(Q, wk, k, L) = [x \in Heads |-> IF x = sleep_queue THEN Kept(q, wk, k, L)
                                                  ELSE Q[ready_queue] \o Moved(q, wk, k, L)]
  <2>1. L \in 0..Len(q)
    BY <1>1
  <2>2. Kept(q, wk, k, L) \in Seq(Pcb)
    <3> HIDE DEF q, L
    <3> QED BY <1>1, <2>1, DueParts
  <2>3. Rest(Kept(q, wk, k, L), q, L) = Kept(q, wk, k, L)
    <3> DEFINE p == Kept(q, wk, k, L)
               n == L
    <3>1. p \in Seq(Pcb) /\ n \in 0..Len(q) /\ n = Len(q)
      BY <2>1, <2>2
    <3> HIDE DEF p, n, q
    <3>2. Rest(p, q, n) = p
      BY <1>1, <3>1, RestIs
    <3> QED BY <3>2 DEF p, n
  <2> QED BY <2>3 DEF QueuesAfter
<1>10. /\ Whole(f[L].s.list, QueuesAfter(Q, wk, k, L), Heads, Pcb)
       /\ f[L].s.status = StatusAfter(s.status, q, wk, k, L)
  BY <1>5 DEF Scanned
<1> QED BY <1>1, <1>2, <1>3, <1>6, <1>8, <1>9, <1>10 DEF C

-----------------------------------------------------------------------
(***************************************************************************)
(* list_for_each visits exactly the entries, in their order.               *)
(***************************************************************************)
LEMMA EntriesIs ==
  ASSUME NEW h, NEW Q, NEW H, NEW E, H \cap E = {}, IsFiniteSet(H \cup E),
         Whole(h, Q, H, E), NEW x \in H
  PROVE  Entries(h, x) = Q[x]
<1> DEFINE q   == Q[x]
           L   == Len(q)
           far == Cardinality(DOMAIN h.next)
           P(i) == /\ Nth(h, x, i + 1) = x
                   /\ \A j \in 1..i : Nth(h, x, j) # x
           len == CHOOSE i \in 0..far : P(i)
<1>1. q \in Seq(E) /\ L \in Nat /\ Leads(h, x, q) /\ DOMAIN h.next = H \cup E
  BY DEF Whole, Heap
<1>2. L <= far /\ far \in Nat
  <2>1. L + 1 <= Cardinality(H \cup E) /\ Cardinality(H \cup E) \in Nat
    BY RingLength, FS_CardinalityType
  <2> QED BY <1>1, <2>1
<1>3. (\A i \in 1..L : q[i] \in E) /\ x \notin E
  BY <1>1
<1>4. \A i \in 0..(L + 1) : Nth(h, x, i) = Around(x, q, i)
  <2> SUFFICES ASSUME NEW i \in 0..(L + 1) PROVE Nth(h, x, i) = Around(x, q, i)
    OBVIOUS
  <2> DEFINE j == 0
  <2>1. j \in 0..Len(q) /\ i \in 0..(2 * Len(q) + 2 - j) /\ i + j <= Len(q) + 1 /\ i + j = i
    BY <1>1
  <2>2. Around(x, q, j) = x
    BY DEF Around
  <2> HIDE DEF j, q
  <2>3. Nth(h, Around(x, q, j), i) = Around(x, q, i + j)
    BY <1>1, <2>1, WalkAround
  <2> QED BY <2>1, <2>2, <2>3
<1>5. \A i \in 1..L : Nth(h, x, i) = q[i]
  BY <1>1, <1>4 DEF Around
<1>6. Nth(h, x, L + 1) = x
  <2>1. L + 1 \in 0..(L + 1) /\ L + 1 \notin 1..L
    BY <1>1
  <2> QED BY <1>4, <2>1 DEF Around
<1> HIDE DEF far, q, L
<1>7. P(L) /\ L \in 0..far
  BY <1>1, <1>2, <1>3, <1>5, <1>6
<1>8. len = L
  <2>1. len \in 0..far /\ P(len)
    <3> HIDE DEF P
    <3> QED BY <1>7
  <2> HIDE DEF len
  <2>2. ~(len < L)
    <3> SUFFICES ASSUME len < L PROVE FALSE
      OBVIOUS
    <3>1. len + 1 \in 1..L
      BY <1>1, <2>1
    <3>2. Nth(h, x, len + 1) = q[len + 1] /\ q[len + 1] \in E
      BY <1>3, <1>5, <3>1
    <3> QED BY <1>3, <2>1, <3>2
  <2>3. ~(L < len)
    <3> SUFFICES ASSUME L < len PROVE FALSE
      OBVIOUS
    <3>1. L + 1 \in 1..len
      BY <1>1, <2>1
    <3> QED BY <1>6, <2>1, <3>1
  <2> QED BY <1>1, <2>1, <2>2, <2>3
<1>9. Entries(h, x) = [i \in 1..len |-> Nth(h, x, i)]
  BY DEF Entries, far
<1>10. [i \in 1..L |-> Nth(h, x, i)] = [i \in 1..L |-> q[i]]
  BY <1>5
<1>11. q = [i \in 1..L |-> q[i]]
  BY <1>1 DEF L
<1> HIDE DEF len
<1> QED BY <1>8, <1>9, <1>10, <1>11 DEF q

\* Lists that are all empty.
LEMMA UnlinkedWhole ==
  ASSUME NEW H, NEW E, H \cap E = {}
  PROVE  Whole(Unlinked(H \cup E), [x \in H |-> << >>], H, E)
<1> DEFINE h == Unlinked(H \cup E)
           Q == [x \in H |-> << >>]
<1>1. h \in Heap(H \cup E) /\ \A m \in H \cup E : h.next[m] = m /\ h.prev[m] = m
  BY DEF Unlinked, Heap
<1>2. Q \in [H -> Seq(E)] /\ \A x \in H : Q[x] = << >> /\ Len(Q[x]) = 0
  OBVIOUS
<1>3. Distinct(Q, H)
  BY <1>2 DEF Distinct
<1>4. ASSUME NEW x \in H PROVE Leads(h, x, Q[x])
  <2>1. \A i : Around(x, Q[x], i) = x
    BY <1>2 DEF Around
  <2> QED BY <1>1, <2>1 DEF Leads
<1> HIDE DEF h, Q
<1>5. Whole(h, Q, H, E)
  BY <1>1, <1>2, <1>3, <1>4 DEF Whole
<1> QED BY <1>5 DEF h, Q

-----------------------------------------------------------------------
(***************************************************************************)
(* init_pcb, after t tasks.                                                *)
(***************************************************************************)
Queued(n) ==
  CHOOSE f : f = [t \in 0..n |-> IF t = 0 THEN Unlinked(Node)
                                 ELSE list_add_tail(f[t - 1], t, ready_queue)]

LEMMA QueuedDefined ==
  ASSUME NEW n \in Nat
  PROVE  /\ Queued(n)[0] = Unlinked(Node)
         /\ \A t \in 1..n : Queued(n)[t] = list_add_tail(Queued(n)[t - 1], t, ready_queue)
<1> DEFINE Is(f, m) == f = [t \in 0..m |-> IF t = 0 THEN Unlinked(Node)
                                           ELSE list_add_tail(f[t - 1], t, ready_queue)]
           Bad == {m \in Nat : \A f : ~Is(f, m)}
<1>1. Bad = {}
  <2> SUFFICES ASSUME Bad # {} PROVE FALSE
    OBVIOUS
  <2>1. Bad \in SUBSET Nat
    OBVIOUS
  <2>2. PICK m \in Bad : \A j \in Bad : m <= j
    <3> HIDE DEF Bad
    <3> QED BY <2>1, SmallestExists
  <2>3. CASE m = 0
    <3> DEFINE g == [t \in 0..0 |-> Unlinked(Node)]
    <3>1. Is(g, 0)
      OBVIOUS
    <3> QED BY <2>3, <3>1
  <2>4. CASE m # 0
    <3>1. m \in Nat /\ m - 1 \in Nat /\ m - 1 \notin Bad
      <4> HIDE DEF Bad
      <4>1. m \in Nat /\ m - 1 \in Nat /\ ~(m <= m - 1)
        BY <2>1, <2>2, <2>4
      <4> QED BY <2>2, <4>1
    <3>2. PICK g : Is(g, m - 1)
      BY <3>1
    <3> DEFINE f == [t \in 0..m |-> IF t = m THEN list_add_tail(g[m - 1], m, ready_queue) ELSE g[t]]
    <3>3. \A t \in 0..m : f[t] = IF t = 0 THEN Unlinked(Node)
                                 ELSE list_add_tail(f[t - 1], t, ready_queue)
      <4> SUFFICES ASSUME NEW t \in 0..m
                   PROVE  f[t] = IF t = 0 THEN Unlinked(Node)
                                 ELSE list_add_tail(f[t - 1], t, ready_queue)
        OBVIOUS
      <4>0. \A k \in 0..(m - 1) : g[k] = IF k = 0 THEN Unlinked(Node)
                                         ELSE list_add_tail(g[k - 1], k, ready_queue)
        BY <3>2
      <4>1. CASE t = m
        <5>1. m - 1 \in 0..m /\ m - 1 # m
          BY <3>1
        <5>2. f[m - 1] = g[m - 1]
          BY <5>1
        <5>3. f[m] = list_add_tail(g[m - 1], m, ready_queue)
          BY <3>1
        <5> HIDE DEF f
        <5> QED BY <2>4, <4>1, <5>2, <5>3
      <4>2. CASE t # m
        <5>1. t \in 0..(m - 1) /\ (t # 0 => t - 1 \in 0..m /\ t - 1 # m)
          BY <3>1, <4>2
        <5>2. f[t] = g[t] /\ (t # 0 => f[t - 1] = g[t - 1])
          BY <5>1, <4>2
        <5> HIDE DEF f
        <5> QED BY <4>0, <5>1, <5>2
      <4> QED BY <4>1, <4>2
    <3>4. f = [t \in 0..m |-> f[t]]
      OBVIOUS
    <3>5. Is(f, m)
      <4> HIDE DEF f
      <4> QED BY <3>3, <3>4
    <3> HIDE DEF Is, f
    <3> QED BY <2>2, <3>5
  <2> QED BY <2>3, <2>4
<1>2. \E f : Is(f, n)
  <2> HIDE DEF Is
  <2> QED BY <1>1
<1>3. Is(Queued(n), n)
  BY <1>2 DEF Queued
<1> DEFINE f == Queued(n)
<1> HIDE DEF f
<1>4. f = [t \in 0..n |-> IF t = 0 THEN Unlinked(Node) ELSE list_add_tail(f[t - 1], t, ready_queue)]
  BY <1>3 DEF f
<1>5. \A t \in 0..n : f[t] = IF t = 0 THEN Unlinked(Node) ELSE list_add_tail(f[t - 1], t, ready_queue)
  BY <1>4
<1>6. 0 \in 0..n /\ \A t \in 1..n : t \in 0..n /\ t # 0
  OBVIOUS
<1>7. f[0] = Unlinked(Node) /\ \A t \in 1..n : f[t] = list_add_tail(f[t - 1], t, ready_queue)
  BY <1>5, <1>6
<1> QED BY <1>7 DEF f

QueuedTo(t) == [x \in Heads |-> IF x = ready_queue THEN [i \in 1..t |-> i] ELSE << >>]

LEMMA QueuedWhole ==
  /\ Init => list = Queued(NumTask)[NumTask]
  /\ Whole(Queued(NumTask)[NumTask], QueuedTo(NumTask), Heads, Pcb)
<1> DEFINE f == Queued(NumTask)
           Bad == {t \in 0..NumTask : ~Whole(f[t], QueuedTo(t), Heads, Pcb)}
<1>1. /\ f[0] = Unlinked(Node)
      /\ \A t \in 1..NumTask : f[t] = list_add_tail(f[t - 1], t, ready_queue)
  BY QueuedDefined, Constants
<1> HIDE DEF f
<1>2. NumTask \in Nat /\ \A t \in 1..NumTask : t \in Pcb
  BY Constants DEF Pcb, Task
<1>3. Whole(f[0], QueuedTo(0), Heads, Pcb)
  <2>1. [i \in 1..0 |-> i] = << >>
    OBVIOUS
  <2>2. QueuedTo(0) = [x \in Heads |-> << >>]
    BY <2>1 DEF QueuedTo
  <2> QED BY <1>1, <2>2, UnlinkedWhole, Constants
<1>4. ASSUME NEW t \in 1..NumTask, Whole(f[t - 1], QueuedTo(t - 1), Heads, Pcb)
      PROVE  Whole(f[t], QueuedTo(t), Heads, Pcb)
  <2> DEFINE Q == QueuedTo(t - 1)
             p == [i \in 1..(t - 1) |-> i]
  <2>1. /\ Q[ready_queue] = p /\ Q \in [Heads -> Seq(Pcb)]
        /\ \A x \in Heads : x # ready_queue => Q[x] = << >>
    BY <1>4, Constants DEF Whole, QueuedTo
  <2>2. p \in Seq(Pcb) /\ Len(p) = t - 1
    <3>1. p \in Seq(Pcb)
      BY <2>1, Constants
    <3> QED BY <3>1
  <2>3. Free(Q, Heads, t)
    <3>1. ~In(p, t)
      BY <2>2 DEF In
    <3>2. ~In(<< >>, t)
      BY DEF In
    <3> HIDE DEF p, Q
    <3> QED BY <2>1, <3>1, <3>2 DEF Free
  <2>4. Whole(f[t], [Q EXCEPT ![ready_queue] = Append(@, t)], Heads, Pcb)
    BY <1>1, <1>2, <1>4, <2>3, AddTailWhole, Constants
  <2>5. Append(p, t) = [i \in 1..t |-> i]
    <3>1. t \in Pcb /\ t \in Nat
      BY <1>2
    <3> DEFINE a == Append(p, t)
    <3>2. a \in Seq(Pcb) /\ Len(a) = t /\ \A i \in 1..t : a[i] = i
      BY <2>2, <3>1
    <3> HIDE DEF a
    <3>3. a = [i \in 1..t |-> a[i]]
      BY <3>2
    <3>4. a = [i \in 1..t |-> i]
      BY <3>2, <3>3
    <3> QED BY <3>4 DEF a
  <2> HIDE DEF p, Q
  <2>6. [Q EXCEPT ![ready_queue] = Append(@, t)]
        = [x \in Heads |-> IF x = ready_queue THEN Append(p, t) ELSE << >>]
    BY <2>1
  <2> QED BY <2>4, <2>5, <2>6 DEF QueuedTo
<1>5. Bad = {}
  <2> SUFFICES ASSUME Bad # {} PROVE FALSE
    OBVIOUS
  <2>1. Bad \in SUBSET Nat
    OBVIOUS
  <2>2. PICK m \in Bad : \A j \in Bad : m <= j
    <3> HIDE DEF Bad
    <3> QED BY <2>1, SmallestExists
  <2>3. m # 0
    BY <1>3, <2>2
  <2>4. m \in 1..NumTask /\ m - 1 \in 0..NumTask /\ ~(m <= m - 1)
    BY <1>2, <2>2, <2>3
  <2>5. m - 1 \notin Bad
    <3> HIDE DEF Bad
    <3> QED BY <2>2, <2>4
  <2>6. Whole(f[m - 1], QueuedTo(m - 1), Heads, Pcb)
    BY <2>4, <2>5
  <2> QED BY <1>4, <2>2, <2>4, <2>6
<1>6. Whole(f[NumTask], QueuedTo(NumTask), Heads, Pcb)
  BY <1>2, <1>5
<1>7. Init => list = f[NumTask]
  BY DEF Init, Queued, f
<1> QED BY <1>6, <1>7 DEF f

-----------------------------------------------------------------------
(***************************************************************************)
(* What is in a list after an operation.                                   *)
(***************************************************************************)
LEMMA InAppend ==
  ASSUME NEW q \in Seq(Pcb), NEW e \in Pcb, NEW p
  PROVE  In(Append(q, e), p) <=> In(q, p) \/ p = e
<1>1. /\ Len(q) \in Nat /\ Len(Append(q, e)) = Len(q) + 1
      /\ \A i \in 1..(Len(q) + 1) : Append(q, e)[i] = IF i <= Len(q) THEN q[i] ELSE e
  OBVIOUS
<1> DEFINE a == Append(q, e)
<1> HIDE DEF a
<1>2. ASSUME In(a, p) PROVE In(q, p) \/ p = e
  <2>1. PICK i \in 1..(Len(q) + 1) : a[i] = p
    BY <1>1, <1>2 DEF In, a
  <2>2. CASE i <= Len(q)
    <3>1. i \in 1..Len(q) /\ q[i] = p
      BY <1>1, <2>1, <2>2 DEF a
    <3> QED BY <3>1 DEF In
  <2>3. CASE ~(i <= Len(q))
    BY <1>1, <2>1, <2>3 DEF a
  <2> QED BY <2>2, <2>3
<1>3. ASSUME In(q, p) PROVE In(a, p)
  <2>1. PICK i \in 1..Len(q) : q[i] = p
    BY <1>3 DEF In
  <2>2. i \in 1..(Len(q) + 1) /\ i <= Len(q)
    BY <1>1
  <2>3. i \in 1..Len(a) /\ a[i] = p
    BY <1>1, <2>1, <2>2 DEF a
  <2> QED BY <2>3 DEF In
<1>4. ASSUME p = e PROVE In(a, p)
  <2>1. Len(q) + 1 \in 1..(Len(q) + 1) /\ ~(Len(q) + 1 <= Len(q))
    BY <1>1
  <2>2. Len(q) + 1 \in 1..Len(a) /\ a[Len(q) + 1] = p
    BY <1>1, <1>4, <2>1 DEF a
  <2> QED BY <2>2 DEF In
<1> QED BY <1>2, <1>3, <1>4 DEF a

LEMMA InCut ==
  ASSUME NEW q \in Seq(Pcb), NEW n \in 1..Len(q), NEW p,
         \A i, j \in 1..Len(q) : q[i] = q[j] => i = j
  PROVE  In(Cut(q, n), p) <=> In(q, p) /\ p # q[n]
<1> DEFINE c == Cut(q, n)
<1>1. /\ Len(q) \in Nat /\ Len(c) = Len(q) - 1
      /\ \A k \in 1..(Len(q) - 1) : c[k] = IF k < n THEN q[k] ELSE q[k + 1]
  BY CutIs
<1> HIDE DEF c
<1>2. ASSUME In(c, p) PROVE In(q, p) /\ p # q[n]
  <2>1. PICK k \in 1..(Len(q) - 1) : c[k] = p
    BY <1>1, <1>2 DEF In
  <2>2. PICK i \in 1..Len(q) : q[i] = p /\ i # n
    <3>1. CASE k < n
      <4>1. k \in 1..Len(q) /\ k # n /\ q[k] = p
        BY <1>1, <2>1, <3>1
      <4> QED BY <4>1
    <3>2. CASE ~(k < n)
      <4>1. k + 1 \in 1..Len(q) /\ k + 1 # n /\ q[k + 1] = p
        BY <1>1, <2>1, <3>2
      <4> QED BY <4>1
    <3> QED BY <3>1, <3>2
  <2> QED BY <2>2 DEF In
<1>3. ASSUME In(q, p), p # q[n] PROVE In(c, p)
  <2>1. PICK i \in 1..Len(q) : q[i] = p
    BY <1>3 DEF In
  <2>2. i # n
    BY <1>3, <2>1
  <2>3. CASE i < n
    <3>1. i \in 1..Len(c) /\ c[i] = p
      BY <1>1, <2>1, <2>3
    <3> QED BY <3>1 DEF In
  <2>4. CASE i > n
    <3>1. i - 1 \in 1..(Len(q) - 1) /\ ~(i - 1 < n) /\ (i - 1) + 1 = i
      BY <1>1, <2>4
    <3>2. c[i - 1] = q[(i - 1) + 1]
      BY <1>1, <3>1
    <3>3. i - 1 \in 1..Len(c) /\ c[i - 1] = p
      BY <1>1, <2>1, <3>1, <3>2
    <3> QED BY <3>3 DEF In
  <2> QED BY <1>1, <2>2, <2>3, <2>4
<1> QED BY <1>2, <1>3 DEF c

LEMMA InToSet ==
  ASSUME NEW q \in Seq(Pcb), NEW p
  PROVE  In(q, p) <=> p \in ToSet(q)
<1>1. DOMAIN q = 1..Len(q)
  OBVIOUS
<1> QED BY <1>1 DEF In, ToSet

Woken(q, wk, k, p) == \E i \in DueTo(q, wk, k, Len(q)) : q[i] = p

LEMMA InScanned ==
  ASSUME NEW q \in Seq(Pcb), NEW r \in Seq(Pcb), NEW wk, NEW k, NEW p,
         \A i, j \in 1..Len(q) : q[i] = q[j] => i = j
  PROVE  /\ In(Kept(q, wk, k, Len(q)), p) <=> In(q, p) /\ ~Woken(q, wk, k, p)
         /\ In(r \o Moved(q, wk, k, Len(q)), p) <=> In(r, p) \/ Woken(q, wk, k, p)
         /\ Woken(q, wk, k, p) => In(q, p)
<1> DEFINE L   == Len(q)
           due == DueTo(q, wk, k, L)
           all == 1..L
           kept  == Kept(q, wk, k, L)
           moved == Moved(q, wk, k, L)
<1>1. DOMAIN q = all /\ L \in Nat /\ L \in 0..L
  OBVIOUS
<1>2. due \in SUBSET all /\ kept \in Seq(Pcb) /\ moved \in Seq(Pcb)
  <2> HIDE DEF L
  <2>1. L \in 0..Len(q)
    BY <1>1 DEF L
  <2> QED BY <2>1, DueParts
<1> HIDE DEF L, due, all, kept, moved
<1>3. ToSet(kept) = {q[i] : i \in all \ due} /\ ToSet(moved) = {q[i] : i \in due}
  <2>1. kept = Pick(q, all \ due) /\ moved = Pick(q, due)
    BY DEF Kept, Moved, kept, moved, all, due
  <2>2. all \ due \in SUBSET DOMAIN q /\ due \in SUBSET DOMAIN q
    BY <1>1, <1>2
  <2> QED BY <2>1, <2>2, PickProperties
<1>4. Woken(q, wk, k, p) <=> \E i \in due : q[i] = p
  BY DEF Woken, due, L
<1>5. In(q, p) <=> \E i \in all : q[i] = p
  BY DEF In, all, L
<1>6. In(kept, p) <=> In(q, p) /\ ~Woken(q, wk, k, p)
  <2>1. In(kept, p) <=> \E i \in all \ due : q[i] = p
    BY <1>2, <1>3, InToSet
  <2>2. \A i, j \in all : q[i] = q[j] => i = j
    BY DEF all, L
  <2> QED BY <1>2, <1>4, <1>5, <2>1, <2>2
<1>7. In(r \o moved, p) <=> In(r, p) \/ Woken(q, wk, k, p)
  <2>1. r \o moved \in Seq(Pcb) /\ ToSet(r \o moved) = ToSet(r) \cup ToSet(moved)
    BY <1>2, ConcatQueue
  <2>2. p \in ToSet(moved) <=> \E i \in due : q[i] = p
    BY <1>3
  <2>3. (In(r \o moved, p) <=> p \in ToSet(r \o moved)) /\ (In(r, p) <=> p \in ToSet(r))
    BY <2>1, InToSet
  <2> QED BY <1>4, <2>1, <2>2, <2>3
<1> QED BY <1>2, <1>4, <1>5, <1>6, <1>7 DEF kept, moved, L

-----------------------------------------------------------------------
(***************************************************************************)
(* The invariant.  Status and lists agree, for the PCBs in use; a thread   *)
(* that is READY and in no list is idle, and of each process exactly one   *)
(* is not.  It is stated for any status st and reading Q of the lists, so  *)
(* that it can be asked of the states in the middle of do_scheduler.       *)
(***************************************************************************)
Spinners == Task \ (Sleepers \cup Quitters)

Idle(st, Q, p) == st[p] = "READY" /\ ~In(Q[ready_queue], p)

\* p takes part in scheduling for the process t.
Serves(st, Q, pd, t, p) ==
  /\ pd[p] = t
  /\ ~Idle(st, Q, p)
  /\ \A o \in Pcb : pd[o] = t /\ o # p => Idle(st, Q, o)

Placed(st, Q, pd) ==
  \A p \in Pcb :
    /\ In(Q[ready_queue], p) => st[p] = "READY"
    /\ In(Q[sleep_queue], p) <=> st[p] = "BLOCKED" /\ pd[p] # pid0
    /\ pd[p] = pid0 => st[p] = "BLOCKED"

\* Only a program that sleeps or exits is found blocked or exited.
Lively(st, pd) ==
  \A p \in Pcb : pd[p] # pid0 =>
    /\ st[p] = "BLOCKED" => pd[p] \in Sleepers
    /\ st[p] = "EXITED" => pd[p] \in Quitters

Sound(st, h, Q, pd, cur) ==
  /\ st \in [Proc -> Statuses]
  /\ Whole(h, Q, Heads, Pcb)
  /\ Placed(st, Q, pd)
  /\ Lively(st, pd)
  /\ st[pid0] = "BLOCKED"
  /\ \A p \in Proc : st[p] = "RUNNING" => p = cur
  /\ \A t \in Task : \E p \in Pcb : Serves(st, Q, pd, t, p)

Types ==
  /\ current_running \in Proc
  /\ pid \in [Proc -> {pid0} \cup Task]
  /\ pid[pid0] = pid0 /\ \A t \in Task : pid[t] = t
  /\ wakeup_time \in [Pcb -> Nat]
  /\ ticks \in Nat /\ timer \in Nat

\* The ring of a task leads through the TCBs with its pid.
Grouped(h, R, pd) ==
  /\ Whole(h, R, Task, Tcb)
  /\ \A t \in Task : \A p \in Tcb : In(R[t], p) <=> pd[p] = t

ThreadsInv ==
  /\ Types
  /\ \E Q : Sound(status, list, Q, pid, current_running)
  /\ \E R : Grouped(thread_group, R, pid)
  /\ current_running \in Pcb => status[current_running] = "RUNNING"

LEMMA ReadingIs ==
  ASSUME NEW h, NEW Q, Whole(h, Q, Heads, Pcb)
  PROVE  /\ Q[ready_queue] \in Seq(Pcb) /\ Q[sleep_queue] \in Seq(Pcb)
         /\ \A x \in Heads : \A i, j \in 1..Len(Q[x]) : Q[x][i] = Q[x][j] => i = j
         /\ \A p : ~(In(Q[ready_queue], p) /\ In(Q[sleep_queue], p))
         /\ \A p : ~In(Q[ready_queue], p) /\ ~In(Q[sleep_queue], p) => Free(Q, Heads, p)
<1>1. Q \in [Heads -> Seq(Pcb)] /\ Distinct(Q, Heads)
  BY DEF Whole
<1>2. \A p : ~(In(Q[ready_queue], p) /\ In(Q[sleep_queue], p))
  BY <1>1, Constants DEF Distinct, In
<1>3. \A p : ~In(Q[ready_queue], p) /\ ~In(Q[sleep_queue], p) => Free(Q, Heads, p)
  BY DEF Free, Heads
<1>4. \A x \in Heads : \A i, j \in 1..Len(Q[x]) : Q[x][i] = Q[x][j] => i = j
  BY <1>1 DEF Distinct
<1> QED BY <1>1, <1>2, <1>3, <1>4, Constants

\* Who serves a process depends only on who is idle.
LEMMA SameIdle ==
  ASSUME NEW st, NEW Q, NEW pd, NEW st2, NEW Q2,
         \A t \in Task : \E p \in Pcb : Serves(st, Q, pd, t, p),
         \A p \in Pcb : pd[p] # pid0 => (Idle(st2, Q2, p) <=> Idle(st, Q, p))
  PROVE  \A t \in Task : \E p \in Pcb : Serves(st2, Q2, pd, t, p)
<1> SUFFICES ASSUME NEW t \in Task PROVE \E p \in Pcb : Serves(st2, Q2, pd, t, p)
  OBVIOUS
<1>1. PICK p \in Pcb : Serves(st, Q, pd, t, p)
  OBVIOUS
<1>2. t # pid0
  BY Constants
<1>3. Serves(st2, Q2, pd, t, p)
  BY <1>1, <1>2 DEF Serves
<1> QED BY <1>3

(***************************************************************************)
(* check_sleeping.                                                         *)
(***************************************************************************)
\* The lists afterwards.
Checked(Q, wk, k) ==
  [x \in Heads |-> IF x = sleep_queue
                   THEN Kept(Q[sleep_queue], wk, k, Len(Q[sleep_queue]))
                   ELSE Q[ready_queue] \o Moved(Q[sleep_queue], wk, k, Len(Q[sleep_queue]))]

LEMMA ScanSound ==
  ASSUME NEW s, NEW Q, NEW wk, NEW k, Sound(s.status, s.list, Q, pid, current_running)
  PROVE  LET end == check_sleeping(s, wk, k).s
             q   == Q[sleep_queue]
             Q2  == Checked(Q, wk, k)
         IN  /\ Sound(end.status, end.list, Q2, pid, current_running)
             /\ end.status = StatusAfter(s.status, q, wk, k, Len(q))
             /\ \A p \in Pcb : Idle(end.status, Q2, p) <=> Idle(s.status, Q, p)
<1> DEFINE end == check_sleeping(s, wk, k).s
           q   == Q[sleep_queue]
           r   == Q[ready_queue]
           L   == Len(q)
           st  == s.status
           st2 == end.status
           Q2  == Checked(Q, wk, k)
           up(p) == Woken(q, wk, k, p)
<1>1. /\ st \in [Proc -> Statuses] /\ Whole(s.list, Q, Heads, Pcb)
      /\ Placed(st, Q, pid) /\ Lively(st, pid) /\ st[pid0] = "BLOCKED"
      /\ \A p \in Proc : st[p] = "RUNNING" => p = current_running
      /\ \A t \in Task : \E p \in Pcb : Serves(st, Q, pid, t, p)
  BY DEF Sound
<1>2. /\ st2 = StatusAfter(st, q, wk, k, L)
      /\ Whole(end.list, Q2, Heads, Pcb)
  BY <1>1, CheckSleepingIs DEF Checked
<1> HIDE DEF end
<1>3. /\ q \in Seq(Pcb) /\ r \in Seq(Pcb)
      /\ \A i, j \in 1..Len(q) : q[i] = q[j] => i = j
      /\ \A p : ~(In(r, p) /\ In(q, p))
  BY <1>1, ReadingIs, Constants
<1>4. Q2[sleep_queue] = Kept(q, wk, k, L) /\ Q2[ready_queue] = r \o Moved(q, wk, k, L)
  BY Constants DEF Checked
<1> HIDE DEF q, r, Q2, st, st2
<1>5. \A p : /\ In(Q2[sleep_queue], p) <=> In(q, p) /\ ~up(p)
             /\ In(Q2[ready_queue], p) <=> In(r, p) \/ up(p)
             /\ up(p) => In(q, p)
  BY <1>3, <1>4, InScanned
<1>6. /\ st2 = [p \in Proc |-> IF up(p) THEN "READY" ELSE st[p]]
  BY <1>2 DEF StatusAfter, Woken
<1> HIDE DEF up
<1>7. \A p \in Proc : st2[p] = IF up(p) THEN "READY" ELSE st[p]
  BY <1>6
<1>8. st2 \in [Proc -> Statuses]
  BY <1>1, <1>6 DEF Statuses
<1>9. \A p \in Pcb : p \in Proc
  BY DEF Proc
<1>10. \A p \in Pcb :
         /\ In(r, p) => st[p] = "READY"
         /\ In(q, p) <=> st[p] = "BLOCKED" /\ pid[p] # pid0
         /\ pid[p] = pid0 => st[p] = "BLOCKED"
  BY <1>1 DEF Placed, r, q
<1>11. Placed(st2, Q2, pid)
  BY <1>5, <1>7, <1>9, <1>10 DEF Placed
<1>12. Lively(st2, pid)
  BY <1>1, <1>7, <1>9 DEF Lively
<1>13. st2[pid0] = "BLOCKED"
  <2>1. ~In(q, pid0)
    <3>1. \A i \in 1..Len(q) : q[i] \in Pcb
      BY <1>3
    <3> QED BY <3>1, Constants DEF In
  <2> QED BY <1>1, <1>5, <1>7, <2>1 DEF Proc
<1>14. \A p \in Proc : st2[p] = "RUNNING" => p = current_running
  BY <1>1, <1>7
<1>15. \A p \in Pcb : Idle(st2, Q2, p) <=> Idle(st, Q, p)
  <2> SUFFICES ASSUME NEW p \in Pcb PROVE Idle(st2, Q2, p) <=> Idle(st, Q, p)
    OBVIOUS
  <2>1. CASE up(p)
    <3>1. st[p] = "BLOCKED" /\ In(Q2[ready_queue], p)
      BY <1>5, <1>10, <2>1
    <3> QED BY <3>1 DEF Idle
  <2>2. CASE ~up(p)
    <3>1. st2[p] = st[p] /\ (In(Q2[ready_queue], p) <=> In(Q[ready_queue], p))
      BY <1>5, <1>7, <1>9, <2>2 DEF r
    <3> QED BY <3>1 DEF Idle
  <2> QED BY <2>1, <2>2
<1>16. \A t \in Task : \E p \in Pcb : Serves(st2, Q2, pid, t, p)
  BY <1>1, <1>15, SameIdle
<1>17. Sound(st2, end.list, Q2, pid, current_running)
  BY <1>2, <1>8, <1>11, <1>12, <1>13, <1>14, <1>16 DEF Sound
<1> QED BY <1>2, <1>15, <1>17 DEF st, st2, end, Q2, q, L

(***************************************************************************)
(* What do_scheduler does after that.                                      *)
(***************************************************************************)
\* Who runs next, and what that does to the statuses and the lists.
Dispatched(st, Q, Q2) ==
  LET r    == Q[ready_queue]
      runs == st[current_running] = "RUNNING"
  IN  \/ /\ Len(r) = 0
         /\ status' = st /\ Q2 = Q /\ current_running' = current_running
      \/ /\ 1 \in 1..Len(r)
         /\ current_running' = r[1]
         /\ status' = [st EXCEPT ![current_running] = IF runs THEN "READY" ELSE @,
                                 ![r[1]] = "RUNNING"]
         /\ runs => current_running \in Pcb
         /\ Q2[ready_queue] = Cut(IF runs THEN Append(r, current_running) ELSE r, 1)
         /\ Q2[sleep_queue] = Q[sleep_queue]

LEMMA DispatchSound ==
  ASSUME NEW s, NEW Q, Sound(s.status, s.list, Q, pid, current_running),
         current_running \in Proc, pid \in [Proc -> {pid0} \cup Task], Spinners # {},
         Dispatch(s)
  PROVE  /\ current_running' \in Proc
         /\ status'[current_running'] = "RUNNING"
         /\ \E Q2 : /\ Sound(status', list', Q2, pid, current_running')
                    /\ \A p \in Pcb : Idle(status', Q2, p) <=> Idle(s.status, Q, p)
                    /\ Dispatched(s.status, Q, Q2)
<1> DEFINE st  == s.status
           q   == Q[sleep_queue]
           r   == Q[ready_queue]
           pre == current_running
<1>1. /\ st \in [Proc -> Statuses] /\ Whole(s.list, Q, Heads, Pcb)
      /\ Placed(st, Q, pid) /\ Lively(st, pid) /\ st[pid0] = "BLOCKED"
      /\ \A p \in Proc : st[p] = "RUNNING" => p = pre
      /\ \A t \in Task : \E p \in Pcb : Serves(st, Q, pid, t, p)
  BY DEF Sound
<1>2. /\ q \in Seq(Pcb) /\ r \in Seq(Pcb) /\ Len(r) \in Nat
      /\ \A i, j \in 1..Len(r) : r[i] = r[j] => i = j
      /\ \A p : ~(In(r, p) /\ In(q, p))
      /\ \A p : ~In(r, p) /\ ~In(q, p) => Free(Q, Heads, p)
      /\ Q \in [Heads -> Seq(Pcb)] /\ Leads(s.list, ready_queue, r)
  <2>1. ready_queue \in Heads
    BY Constants
  <2>2. Q \in [Heads -> Seq(Pcb)] /\ Leads(s.list, ready_queue, r)
    BY <1>1, <2>1 DEF Whole
  <2>3. q \in Seq(Pcb) /\ r \in Seq(Pcb)
    BY <1>1, ReadingIs
  <2>4. Len(r) \in Nat
    BY <2>3
  <2>5. \A i, j \in 1..Len(r) : r[i] = r[j] => i = j
    BY <1>1, <2>1, ReadingIs
  <2>6. /\ \A p : ~(In(r, p) /\ In(q, p))
        /\ \A p : ~In(r, p) /\ ~In(q, p) => Free(Q, Heads, p)
    BY <1>1, ReadingIs
  <2> QED BY <2>2, <2>3, <2>4, <2>5, <2>6
<1>3. /\ \A p \in Pcb : In(r, p) => st[p] = "READY"
      /\ \A p \in Pcb : In(q, p) => st[p] = "BLOCKED"
      /\ \A p \in Pcb : p \in Proc /\ p # pid0
  BY <1>1, Constants DEF Placed, Proc
<1>4. list_empty(s.list, ready_queue) <=> Len(r) = 0
  <2>1. s.list.next[ready_queue] = Around(ready_queue, r, 1)
    <3>1. 0 \in 0..Len(r) /\ Around(ready_queue, r, 0) = ready_queue /\ 0 + 1 = 1
      BY <1>2 DEF Around
    <3> QED BY <1>2, <3>1 DEF Leads
  <2>2. CASE Len(r) = 0
    BY <2>1, <2>2 DEF Around, list_empty
  <2>3. CASE Len(r) # 0
    <3>1. 1 \in 1..Len(r) /\ r[1] \in Pcb
      BY <1>2, <2>3
    <3> QED BY <2>1, <2>3, <3>1, Constants DEF Around, list_empty
  <2> QED BY <2>2, <2>3
<1> HIDE DEF st, q, r, pre
<1>5. CASE list_empty(s.list, ready_queue)
  <2>1. status' = st /\ list' = s.list /\ current_running' = pre
    BY <1>5 DEF Dispatch, st, pre
  <2>2. PICK t \in Spinners : TRUE
    OBVIOUS
  <2>3. t \in Task /\ t # pid0
    BY Constants DEF Spinners
  <2>4. PICK p \in Pcb : Serves(st, Q, pid, t, p)
    BY <1>1, <2>3
  <2>5. pid[p] = t /\ p \in Proc
    BY <1>3, <2>4 DEF Serves
  <2>6. st[p] # "READY"
    <3>1. ~In(r, p)
      BY <1>4, <1>5 DEF In
    <3> QED BY <2>4, <3>1 DEF Serves, Idle, r
  <2>7. st[p] # "BLOCKED" /\ st[p] # "EXITED"
    BY <1>1, <2>2, <2>3, <2>5 DEF Lively, Spinners
  <2>8. st[p] = "RUNNING"
    <3>1. st[p] \in Statuses
      BY <1>1, <2>5
    <3> QED BY <2>6, <2>7, <3>1 DEF Statuses
  <2>9. p = pre
    BY <1>1, <2>5, <2>8
  <2>10. Sound(status', list', Q, pid, current_running')
    BY <2>1 DEF st, pre
  <2>11. Dispatched(st, Q, Q)
    BY <1>4, <1>5, <2>1 DEF Dispatched, r, pre
  <2>12. \A o \in Pcb : Idle(status', Q, o) <=> Idle(st, Q, o)
    BY <2>1
  <2> QED BY <2>1, <2>5, <2>8, <2>9, <2>10, <2>11, <2>12 DEF st
<1>6. CASE ~list_empty(s.list, ready_queue)
  <2> DEFINE runs  == st[pre] = "RUNNING"
             added == IF runs THEN list_add_tail(s.list, pre, ready_queue) ELSE s.list
             next  == added.next[ready_queue]
             r1    == IF runs THEN Append(r, pre) ELSE r
             Q1    == [Q EXCEPT ![ready_queue] = r1]
             Q2    == [Q1 EXCEPT ![ready_queue] = Cut(@, 1)]
             st2   == [st EXCEPT ![pre] = IF runs THEN "READY" ELSE @, ![next] = "RUNNING"]
  <2>1. /\ current_running' = next /\ status' = st2 /\ list' = list_del_init(added, next)
    BY <1>6 DEF Dispatch, st, pre
  <2>2. runs => pre \in Pcb /\ Free(Q, Heads, pre)
    <3> SUFFICES ASSUME runs PROVE pre \in Pcb /\ Free(Q, Heads, pre)
      OBVIOUS
    <3>1. pre \in Pcb
      BY <1>1 DEF Proc, pre
    <3> QED BY <1>2, <1>3, <3>1
  <2>3. r1 \in Seq(Pcb) /\ Len(r1) \in Nat /\ 1 \in 1..Len(r) /\ 1 \in 1..Len(r1) /\ r1[1] = r[1]
    <3>1. 1 \in 1..Len(r)
      BY <1>2, <1>4, <1>6
    <3>2. CASE runs
      <4>1. Append(r, pre) \in Seq(Pcb) /\ Len(Append(r, pre)) = Len(r) + 1 /\ Append(r, pre)[1] = r[1]
        BY <1>2, <2>2, <3>1, <3>2
      <4> QED BY <1>2, <3>1, <3>2, <4>1
    <3>3. CASE ~runs
      BY <1>2, <3>1, <3>3
    <3> QED BY <3>2, <3>3
  <2> HIDE DEF runs
  <2>4. Whole(added, Q1, Heads, Pcb)
    <3>1. CASE runs
      <4>1. Whole(list_add_tail(s.list, pre, ready_queue),
                  [Q EXCEPT ![ready_queue] = Append(@, pre)], Heads, Pcb)
        BY <1>1, <2>2, <3>1, AddTailWhole, Constants
      <4>2. Q1 = [Q EXCEPT ![ready_queue] = Append(@, pre)]
        BY <1>2, <3>1, Constants DEF r
      <4> QED BY <3>1, <4>1, <4>2
    <3>2. CASE ~runs
      <4>1. Q1 = Q
        BY <1>2, <3>2, Constants DEF r
      <4> QED BY <1>1, <3>2, <4>1
    <3> QED BY <3>1, <3>2
  <2>5. Q1[ready_queue] = r1 /\ Q1[sleep_queue] = q
    BY <1>2, Constants DEF q
  <2> HIDE DEF added, r1
  <2>6. next = r1[1] /\ next = r[1] /\ next \in Pcb
    <3>1. Leads(added, ready_queue, r1)
      BY <2>4, <2>5, Constants DEF Whole
    <3>2. 0 \in 0..Len(r1) /\ Around(ready_queue, r1, 0) = ready_queue /\ 0 + 1 = 1
      BY <2>3 DEF Around
    <3>3. added.next[ready_queue] = Around(ready_queue, r1, 1)
      BY <3>1, <3>2 DEF Leads
    <3>4. next = r1[1]
      BY <2>3, <3>3 DEF Around
    <3>5. r1[1] \in Pcb
      BY <2>3
    <3> QED BY <2>3, <3>4, <3>5
  <2> HIDE DEF next
  <2>7. Whole(list', Q2, Heads, Pcb)
    <3>1. 1 \in 1..Len(Q1[ready_queue]) /\ Q1[ready_queue][1] = next
      BY <2>3, <2>5, <2>6
    <3> HIDE DEF Q1
    <3>2. Whole(list_del_init(added, next), Q2, Heads, Pcb)
      BY <2>4, <3>1, DelInitWhole, Constants
    <3> QED BY <2>1, <3>2
  <2>8. Q2[ready_queue] = Cut(r1, 1) /\ Q2[sleep_queue] = q
    <3>1. Q1 \in [Heads -> Seq(Pcb)]
      BY <2>4 DEF Whole
    <3> HIDE DEF Q1
    <3> QED BY <2>5, <3>1, Constants
  <2>9. \A p : In(Q2[ready_queue], p) <=> (In(r, p) \/ (runs /\ p = pre)) /\ p # next
    <3> SUFFICES ASSUME NEW p
                 PROVE  In(Q2[ready_queue], p) <=> (In(r, p) \/ (runs /\ p = pre)) /\ p # next
      OBVIOUS
    <3>1. \A i, j \in 1..Len(r1) : r1[i] = r1[j] => i = j
      BY <2>4, <2>5, ReadingIs, Constants
    <3>2. In(Cut(r1, 1), p) <=> In(r1, p) /\ p # r1[1]
      BY <2>3, <3>1, InCut
    <3>3. In(r1, p) <=> In(r, p) \/ (runs /\ p = pre)
      <4>1. CASE runs
        BY <1>2, <2>2, <4>1, InAppend DEF r1
      <4>2. CASE ~runs
        BY <4>2 DEF r1
      <4> QED BY <4>1, <4>2
    <3> QED BY <2>6, <2>8, <3>2, <3>3
  <2>10. In(r, next) /\ st[next] = "READY" /\ (runs => next # pre)
    <3>1. In(r, next)
      BY <2>3, <2>6 DEF In
    <3>2. st[next] = "READY"
      BY <1>3, <2>6, <3>1
    <3> QED BY <3>1, <3>2 DEF runs
  <2>11. pre \in Proc /\ next \in Proc
    BY <1>3, <2>6 DEF pre
  <2>12. /\ st2 \in [Proc -> Statuses]
         /\ \A p \in Proc : st2[p] = IF p = next THEN "RUNNING"
                                     ELSE IF p = pre /\ runs THEN "READY" ELSE st[p]
    <3>1. "RUNNING" \in Statuses /\ "READY" \in Statuses
      BY DEF Statuses
    <3> QED BY <1>1, <2>11, <3>1
  <2> HIDE DEF st2
  <2>13. Placed(st2, Q2, pid)
    <3> SUFFICES ASSUME NEW p \in Pcb
                 PROVE  /\ In(Q2[ready_queue], p) => st2[p] = "READY"
                        /\ In(Q2[sleep_queue], p) <=> st2[p] = "BLOCKED" /\ pid[p] # pid0
                        /\ pid[p] = pid0 => st2[p] = "BLOCKED"
      BY DEF Placed
    <3>1. /\ In(r, p) => st[p] = "READY"
          /\ In(q, p) <=> st[p] = "BLOCKED" /\ pid[p] # pid0
          /\ pid[p] = pid0 => st[p] = "BLOCKED"
      BY <1>1 DEF Placed, r, q
    <3>2. p \in Proc
      BY <1>3
    <3>3. runs => st[pre] = "RUNNING"
      BY DEF runs
    <3> QED BY <2>8, <2>9, <2>10, <2>12, <3>1, <3>2, <3>3
  <2>14. Lively(st2, pid)
    BY <1>1, <1>3, <2>12 DEF Lively
  <2>15. st2[pid0] = "BLOCKED"
    <3>1. pid0 \in Proc /\ pid0 # next
      BY <2>6, Constants DEF Proc
    <3>2. runs => pre # pid0
      BY <2>2, Constants
    <3> QED BY <1>1, <2>12, <3>1, <3>2
  <2>16. \A p \in Proc : st2[p] = "RUNNING" => p = next
    <3> SUFFICES ASSUME NEW p \in Proc, st2[p] = "RUNNING", p # next PROVE FALSE
      OBVIOUS
    <3>1. st[p] = "RUNNING" /\ ~(p = pre /\ runs)
      BY <2>12
    <3>2. p = pre
      BY <1>1, <3>1
    <3> QED BY <3>1, <3>2 DEF runs
  <2>17. \A p \in Pcb : Idle(st2, Q2, p) <=> Idle(st, Q, p)
    <3> SUFFICES ASSUME NEW p \in Pcb PROVE Idle(st2, Q2, p) <=> Idle(st, Q, p)
      OBVIOUS
    <3>0. p \in Proc
      BY <1>3
    <3>1. CASE p = next
      BY <2>10, <2>12, <3>0, <3>1 DEF Idle, r
    <3>2. CASE p # next /\ p = pre /\ runs
      <4>1. In(Q2[ready_queue], p) /\ st[p] = "RUNNING"
        BY <2>9, <3>2 DEF runs
      <4> QED BY <4>1 DEF Idle
    <3>3. CASE p # next /\ ~(p = pre /\ runs)
      <4>1. st2[p] = st[p] /\ (In(Q2[ready_queue], p) <=> In(Q[ready_queue], p))
        BY <2>9, <2>12, <3>0, <3>3 DEF r
      <4> QED BY <4>1 DEF Idle
    <3> QED BY <3>1, <3>2, <3>3
  <2>18. \A t \in Task : \E p \in Pcb : Serves(st2, Q2, pid, t, p)
    BY <1>1, <2>17, SameIdle
  <2>19. Sound(status', list', Q2, pid, current_running')
    BY <2>1, <2>7, <2>12, <2>13, <2>14, <2>15, <2>16, <2>18 DEF Sound
  <2>20. st2[next] = "RUNNING"
    BY <2>11, <2>12
  <2>21. Dispatched(st, Q, Q2)
    <3>1. /\ status' = [st EXCEPT ![pre] = IF runs THEN "READY" ELSE @, ![r[1]] = "RUNNING"]
          /\ current_running' = r[1]
      BY <2>1, <2>6 DEF st2
    <3>2. Q2[ready_queue] = Cut(IF runs THEN Append(r, pre) ELSE r, 1)
      BY <2>8 DEF r1
    <3> HIDE DEF Q2
    <3> QED BY <2>2, <2>3, <2>8, <3>1, <3>2 DEF Dispatched, runs, r, q, pre
  <2>22. \A p \in Pcb : Idle(status', Q2, p) <=> Idle(st, Q, p)
    BY <2>1, <2>17
  <2> QED BY <2>1, <2>11, <2>19, <2>20, <2>21, <2>22 DEF st
<1> QED BY <1>5, <1>6

LEMMA SchedulerSound ==
  ASSUME NEW s, NEW Q, Sound(s.status, s.list, Q, pid, current_running),
         current_running \in Proc, pid \in [Proc -> {pid0} \cup Task], Spinners # {},
         ticks \in Nat, NEW wk, NEW tm \in Nat, do_scheduler(s, wk, tm)
  PROVE  /\ current_running' \in Proc
         /\ status'[current_running'] = "RUNNING"
         /\ \E Q2 : Sound(status', list', Q2, pid, current_running')
         /\ thread_group' = thread_group /\ pid' = pid
         /\ ticks' \in Nat /\ timer' \in Nat
<1> DEFINE len == Len(Entries(s.list, sleep_queue))
           late(k) == k <= len /\ ticks < MaxTicks
           end(k)  == check_sleeping(s, wk, IF late(k) THEN k ELSE Cardinality(Pcb) + 1)
<1>1. PICK k \in 1..(len + 1) :
         /\ ticks' = IF late(k) THEN ticks + 1 ELSE ticks
         /\ timer' = IF late(k) /\ tm > 0 THEN tm - 1 ELSE tm
         /\ Dispatch(end(k).s)
         /\ UNCHANGED <<thread_group, pid>>
  BY DEF do_scheduler
<1>2. ticks' \in Nat /\ timer' \in Nat
  <2> HIDE DEF late, end
  <2> QED BY <1>1
<1> DEFINE from == IF late(k) THEN k ELSE Cardinality(Pcb) + 1
           mid  == check_sleeping(s, wk, from).s
<1>3. \E Q1 : Sound(mid.status, mid.list, Q1, pid, current_running)
  <2> HIDE DEF from
  <2>1. Sound(mid.status, mid.list, Checked(Q, wk, from), pid, current_running)
    BY ScanSound
  <2> QED BY <2>1
<1>4. Dispatch(mid)
  BY <1>1
<1> HIDE DEF mid
<1>5. PICK Q1 : Sound(mid.status, mid.list, Q1, pid, current_running)
  BY <1>3
<1>6. /\ current_running' \in Proc
      /\ status'[current_running'] = "RUNNING"
      /\ \E Q2 : Sound(status', list', Q2, pid, current_running')
  BY <1>4, <1>5, DispatchSound
<1> QED BY <1>1, <1>2, <1>6

-----------------------------------------------------------------------
(***************************************************************************)
(* The rings of the threads.                                               *)
(***************************************************************************)
LEMMA InInsert ==
  ASSUME NEW E, NEW q \in Seq(E), NEW i \in 0..Len(q), NEW e \in E, NEW p
  PROVE  In(Insert(q, i, e), p) <=> In(q, p) \/ p = e
<1> DEFINE c == Insert(q, i, e)
           n == Len(q)
<1>1. /\ Len(c) = n + 1 /\ n \in Nat /\ i \in 0..n
      /\ \A k \in 1..(n + 1) : c[k] = IF k <= i THEN q[k] ELSE IF k = i + 1 THEN e ELSE q[k - 1]
  BY InsertIs
<1> HIDE DEF c
<1>2. ASSUME In(c, p), p # e PROVE In(q, p)
  <2>1. PICK k \in 1..Len(c) : c[k] = p
    BY <1>2 DEF In
  <2>2. k \in 1..(n + 1)
    BY <1>1, <2>1
  <2>3. CASE k <= i
    <3>1. k \in 1..Len(q) /\ q[k] = p
      BY <1>1, <2>1, <2>2, <2>3
    <3> QED BY <3>1 DEF In
  <2>4. CASE k > i
    <3>1. k # i + 1
      BY <1>1, <1>2, <2>1, <2>2, <2>4
    <3>2. c[k] = q[k - 1] /\ k - 1 \in 1..Len(q)
      BY <1>1, <2>2, <2>4, <3>1
    <3> QED BY <2>1, <3>2 DEF In
  <2> QED BY <1>1, <2>2, <2>3, <2>4
<1>3. In(c, e)
  <2>1. i + 1 \in 1..(n + 1) /\ ~(i + 1 <= i)
    BY <1>1
  <2>2. c[i + 1] = e /\ i + 1 \in 1..Len(c)
    BY <1>1, <2>1
  <2> QED BY <2>2 DEF In
<1>4. ASSUME In(q, p) PROVE In(c, p)
  <2>1. PICK k \in 1..Len(q) : q[k] = p
    BY <1>4 DEF In
  <2>2. CASE k <= i
    <3>1. k \in 1..(n + 1) /\ k \in 1..Len(c)
      BY <1>1, <2>1
    <3>2. c[k] = p
      BY <1>1, <2>1, <2>2, <3>1
    <3> QED BY <3>1, <3>2 DEF In
  <2>3. CASE k > i
    <3>1. /\ k + 1 \in 1..(n + 1) /\ k + 1 \in 1..Len(c)
          /\ ~(k + 1 <= i) /\ k + 1 # i + 1 /\ (k + 1) - 1 = k
      BY <1>1, <2>1, <2>3
    <3>2. c[k + 1] = q[(k + 1) - 1]
      BY <1>1, <3>1
    <3> QED BY <2>1, <3>1, <3>2 DEF In
  <2> QED BY <1>1, <2>1, <2>2, <2>3
<1> QED BY <1>2, <1>3, <1>4 DEF c

\* A PCB in use is on the ring of its task.
LEMMA OnRing ==
  ASSUME NEW R, Types, Grouped(thread_group, R, pid), NEW p \in Pcb, pid[p] # pid0
  PROVE  /\ pid[p] \in Task
         /\ R[pid[p]] \in Seq(Tcb) /\ Len(R[pid[p]]) \in Nat
         /\ \E i \in 0..Len(R[pid[p]]) : p = Around(pid[p], R[pid[p]], i)
<1> DEFINE t == pid[p]
<1>1. t \in Task
  BY DEF Types, Proc
<1>2. R[t] \in Seq(Tcb) /\ Len(R[t]) \in Nat
  <2>1. R \in [Task -> Seq(Tcb)]
    BY DEF Grouped, Whole
  <2>2. R[t] \in Seq(Tcb)
    BY <1>1, <2>1
  <2> QED BY <2>2
<1>3. CASE p \in Task
  <2>1. p = t
    BY <1>3 DEF Types
  <2>2. 0 \in 0..Len(R[t]) /\ ~(0 \in 1..Len(R[t]))
    BY <1>2
  <2>3. p = Around(t, R[t], 0)
    BY <2>1, <2>2 DEF Around
  <2> QED BY <1>1, <1>2, <2>2, <2>3
<1>4. CASE p \in Tcb
  <2>1. In(R[t], p)
    BY <1>1, <1>4 DEF Grouped
  <2>2. PICK i \in 1..Len(R[t]) : R[t][i] = p
    BY <2>1 DEF In
  <2>3. i \in 0..Len(R[t]) /\ p = Around(t, R[t], i)
    BY <1>2, <2>2 DEF Around
  <2> QED BY <1>1, <1>2, <2>3
<1> QED BY <1>3, <1>4 DEF Pcb

\* The ring of a task holds PCBs with its pid only.
LEMMA RingHolds ==
  ASSUME NEW R, Types, Grouped(thread_group, R, pid), NEW t \in Task, NEW i \in Nat
  PROVE  Around(t, R[t], i) \in Pcb /\ pid[Around(t, R[t], i)] = t
<1>1. R[t] \in Seq(Tcb)
  BY DEF Grouped, Whole
<1>2. CASE i \in 1..Len(R[t])
  <2>1. R[t][i] \in Tcb /\ In(R[t], R[t][i])
    BY <1>1, <1>2 DEF In
  <2>2. pid[R[t][i]] = t
    BY <2>1 DEF Grouped
  <2> QED BY <1>2, <2>1, <2>2 DEF Around, Pcb
<1>3. CASE i \notin 1..Len(R[t])
  BY <1>3 DEF Around, Pcb, Types
<1> QED BY <1>2, <1>3

\* The running PCB is the one of its process that is not idle.
LEMMA RunningServes ==
  ASSUME NEW Q, Types, Sound(status, list, Q, pid, current_running),
         NEW p \in Pcb, status[p] = "RUNNING"
  PROVE  /\ pid[p] # pid0 /\ pid[p] \in Task /\ p \in Proc
         /\ Free(Q, Heads, p)
         /\ \A o \in Pcb : pid[o] = pid[p] /\ o # p => Idle(status, Q, o)
<1>1. p \in Proc
  BY DEF Proc
<1>2. pid[p] # pid0 /\ ~In(Q[ready_queue], p) /\ ~In(Q[sleep_queue], p)
  BY DEF Sound, Placed
<1>3. pid[p] \in Task
  BY <1>1, <1>2 DEF Types
<1>4. Free(Q, Heads, p)
  BY <1>2, ReadingIs DEF Sound
<1>5. PICK o \in Pcb : Serves(status, Q, pid, pid[p], o)
  BY <1>3 DEF Sound
<1>6. ~Idle(status, Q, p)
  BY DEF Idle
<1>7. o = p
  BY <1>5, <1>6 DEF Serves
<1>8. \A x \in Pcb : pid[x] = pid[p] /\ x # p => Idle(status, Q, x)
  BY <1>5, <1>7 DEF Serves
<1> QED BY <1>1, <1>2, <1>3, <1>4, <1>8

\* do_sleep and do_exit take the running PCB out of scheduling.
LEMMA StopSound ==
  ASSUME NEW Q, Types, Sound(status, list, Q, pid, current_running),
         NEW p \in Pcb, status[p] = "RUNNING",
         NEW st2, NEW h2, NEW Q2, Whole(h2, Q2, Heads, Pcb),
         Q2[ready_queue] = Q[ready_queue],
         \/ /\ st2 = [status EXCEPT ![p] = "BLOCKED"] /\ pid[p] \in Sleepers
            /\ \A o : In(Q2[sleep_queue], o) <=> In(Q[sleep_queue], o) \/ o = p
         \/ /\ st2 = [status EXCEPT ![p] = "EXITED"] /\ pid[p] \in Quitters
            /\ Q2 = Q
  PROVE  Sound(st2, h2, Q2, pid, current_running)
<1>1. /\ status \in [Proc -> Statuses]
      /\ Placed(status, Q, pid) /\ Lively(status, pid) /\ status[pid0] = "BLOCKED"
      /\ \A o \in Proc : status[o] = "RUNNING" => o = current_running
      /\ \A t \in Task : \E o \in Pcb : Serves(status, Q, pid, t, o)
  BY DEF Sound
<1>2. /\ pid[p] # pid0 /\ p \in Proc /\ p # pid0
      /\ ~In(Q[ready_queue], p) /\ ~In(Q[sleep_queue], p)
  BY RunningServes, Constants DEF Free
<1>3. \A o \in Pcb : o \in Proc
  BY DEF Proc
<1>4. st2 \in [Proc -> Statuses]
  BY <1>1, <1>2 DEF Statuses
<1>5. /\ st2[p] \in {"BLOCKED", "EXITED"}
      /\ \A o \in Proc : o # p => st2[o] = status[o]
  BY <1>1, <1>2
<1>6. Placed(st2, Q2, pid)
  <2> SUFFICES ASSUME NEW o \in Pcb
               PROVE  /\ In(Q2[ready_queue], o) => st2[o] = "READY"
                      /\ In(Q2[sleep_queue], o) <=> st2[o] = "BLOCKED" /\ pid[o] # pid0
                      /\ pid[o] = pid0 => st2[o] = "BLOCKED"
    BY DEF Placed
  <2>1. CASE o # p
    <3>1. In(Q2[sleep_queue], o) <=> In(Q[sleep_queue], o)
      BY <2>1
    <3> QED BY <1>1, <1>3, <1>5, <2>1, <3>1 DEF Placed
  <2>2. CASE o = p
    <3>1. In(Q2[sleep_queue], p) <=> st2[p] = "BLOCKED"
      BY <1>1, <1>2
    <3> QED BY <1>2, <2>2, <3>1
  <2> QED BY <2>1, <2>2
<1>7. Lively(st2, pid)
  <2> SUFFICES ASSUME NEW o \in Pcb, pid[o] # pid0
               PROVE  /\ st2[o] = "BLOCKED" => pid[o] \in Sleepers
                      /\ st2[o] = "EXITED" => pid[o] \in Quitters
    BY DEF Lively
  <2>1. CASE o # p
    BY <1>1, <1>3, <1>5, <2>1 DEF Lively
  <2>2. CASE o = p
    BY <1>1, <1>2, <2>2
  <2> QED BY <2>1, <2>2
<1>8. st2[pid0] = "BLOCKED" /\ \A o \in Proc : st2[o] = "RUNNING" => o = current_running
  BY <1>1, <1>2, <1>5 DEF Proc
<1>9. \A o \in Pcb : Idle(st2, Q2, o) <=> Idle(status, Q, o)
  <2> SUFFICES ASSUME NEW o \in Pcb PROVE Idle(st2, Q2, o) <=> Idle(status, Q, o)
    OBVIOUS
  <2>1. CASE o # p
    BY <1>3, <1>5, <2>1 DEF Idle
  <2>2. CASE o = p
    BY <1>5, <2>2 DEF Idle
  <2> QED BY <2>1, <2>2
<1>10. \A t \in Task : \E o \in Pcb : Serves(st2, Q2, pid, t, o)
  BY <1>1, <1>9, SameIdle
<1> QED BY <1>4, <1>6, <1>7, <1>8, <1>10 DEF Sound

\* A step that ends in do_scheduler.
LEMMA SchedulerKeeps ==
  ASSUME Spinners # {}, ThreadsInv, NEW s, NEW Q,
         Sound(s.status, s.list, Q, pid, current_running),
         NEW wk, NEW tm \in Nat, do_scheduler(s, wk, tm),
         wakeup_time' \in [Pcb -> Nat]
  PROVE  ThreadsInv'
<1>1. Types /\ \E R : Grouped(thread_group, R, pid)
  BY DEF ThreadsInv
<1>2. current_running \in Proc /\ pid \in [Proc -> {pid0} \cup Task] /\ ticks \in Nat
  BY <1>1 DEF Types
<1>3. /\ current_running' \in Proc
      /\ status'[current_running'] = "RUNNING"
      /\ \E Q2 : Sound(status', list', Q2, pid, current_running')
      /\ thread_group' = thread_group /\ pid' = pid
      /\ ticks' \in Nat /\ timer' \in Nat
  BY <1>2, SchedulerSound
<1>4. Types'
  BY <1>1, <1>3 DEF Types
<1>5. \E R : Grouped(thread_group', R, pid')
  BY <1>1, <1>3
<1> QED BY <1>3, <1>4, <1>5 DEF ThreadsInv

LEMMA ThreadsYield ==
  ASSUME Spinners # {}, ThreadsInv, NEW p \in Pcb, Yield(p)
  PROVE  ThreadsInv'
<1>1. PICK Q : Sound(Kern.status, Kern.list, Q, pid, current_running)
  BY DEF ThreadsInv, Kern
<1>2. do_scheduler(Kern, wakeup_time, timer) /\ timer \in Nat /\ wakeup_time' \in [Pcb -> Nat]
  BY DEF Yield, ThreadsInv, Types
<1> QED BY <1>1, <1>2, SchedulerKeeps

LEMMA ThreadsInterrupt ==
  ASSUME Spinners # {}, ThreadsInv, TimerInterrupt
  PROVE  ThreadsInv'
<1>1. PICK Q : Sound(Kern.status, Kern.list, Q, pid, current_running)
  BY DEF ThreadsInv, Kern
<1>2. /\ do_scheduler(Kern, wakeup_time, TimerInterval)
      /\ TimerInterval \in Nat /\ wakeup_time' \in [Pcb -> Nat]
  BY ThreadsAssumption DEF TimerInterrupt, ThreadsInv, Types
<1> QED BY <1>1, <1>2, SchedulerKeeps

LEMMA ThreadsSleep ==
  ASSUME Spinners # {}, ThreadsInv, NEW p \in Pcb, NEW n \in 0..MaxSleep, Sleep(p, n)
  PROVE  ThreadsInv'
<1> DEFINE wk == [wakeup_time EXCEPT ![p] = get_timer(ticks) + n]
           b  == do_block(Kern, p, sleep_queue)
<1>1. PICK Q : Sound(status, list, Q, pid, current_running)
  BY DEF ThreadsInv
<1>2. /\ Types /\ status[p] = "RUNNING" /\ pid[p] \in Sleepers /\ current_running = p
      /\ wakeup_time' = wk /\ do_scheduler(b, wk, timer)
  BY DEF ThreadsInv, Sleep, Calls
<1>3. wakeup_time' \in [Pcb -> Nat]
  <2>1. get_timer(ticks) + n \in Nat
    BY <1>2, ThreadsAssumption DEF get_timer, Types
  <2> QED BY <1>2, <2>1 DEF Types
<1> DEFINE Q2 == [Q EXCEPT ![sleep_queue] = Append(@, p)]
<1>4. Whole(list, Q, Heads, Pcb) /\ Free(Q, Heads, p)
  BY <1>1, <1>2, RunningServes DEF Sound
<1>5. Whole(b.list, Q2, Heads, Pcb)
  BY <1>4, MoveFreeWhole, Constants DEF do_block, Kern
<1>6. /\ Q2[ready_queue] = Q[ready_queue]
      /\ \A o : In(Q2[sleep_queue], o) <=> In(Q[sleep_queue], o) \/ o = p
  <2>1. Q \in [Heads -> Seq(Pcb)] /\ Q[sleep_queue] \in Seq(Pcb)
    BY <1>4, Constants DEF Whole
  <2>2. Q2[ready_queue] = Q[ready_queue] /\ Q2[sleep_queue] = Append(Q[sleep_queue], p)
    BY <2>1, Constants
  <2> QED BY <2>1, <2>2, InAppend
<1>7. b.status = [status EXCEPT ![p] = "BLOCKED"]
  BY DEF do_block, Kern
<1> HIDE DEF Q2, b, wk
<1>8. Sound(b.status, b.list, Q2, pid, current_running)
  BY <1>1, <1>2, <1>5, <1>6, <1>7, StopSound
<1>9. timer \in Nat
  BY <1>2 DEF Types
<1> QED BY <1>2, <1>3, <1>8, <1>9, SchedulerKeeps

LEMMA ThreadsExit ==
  ASSUME Spinners # {}, ThreadsInv, NEW p \in Pcb, Exit(p)
  PROVE  ThreadsInv'
<1> DEFINE b == [status |-> [status EXCEPT ![p] = "EXITED"], list |-> list]
<1>1. PICK Q : Sound(status, list, Q, pid, current_running)
  BY DEF ThreadsInv
<1>2. /\ Types /\ status[p] = "RUNNING" /\ pid[p] \in Quitters
      /\ wakeup_time' \in [Pcb -> Nat] /\ do_scheduler(b, wakeup_time, timer)
      /\ timer \in Nat
  BY DEF ThreadsInv, Exit, Calls, Types
<1>3. Whole(b.list, Q, Heads, Pcb) /\ b.status = [status EXCEPT ![p] = "EXITED"]
  BY <1>1 DEF Sound
<1> HIDE DEF b
<1>4. Sound(b.status, b.list, Q, pid, current_running)
  BY <1>1, <1>2, <1>3, StopSound
<1> QED BY <1>2, <1>4, SchedulerKeeps

LEMMA ThreadsTick ==
  ASSUME ThreadsInv, Tick
  PROVE  ThreadsInv'
<1>1. ticks' \in Nat /\ timer' \in Nat
  BY DEF ThreadsInv, Tick, Types
<1> QED BY <1>1 DEF ThreadsInv, Tick, Types

LEMMA ThreadsCreate ==
  ASSUME ThreadsInv, NEW p \in Pcb, NEW tcb \in Tcb, ThreadCreate(p, tcb)
  PROVE  ThreadsInv'
<1> DEFINE t == pid[p]
<1>1. PICK Q : Sound(status, list, Q, pid, current_running)
  BY DEF ThreadsInv
<1>2. PICK R : Grouped(thread_group, R, pid)
  BY DEF ThreadsInv
<1>3. /\ Types /\ status[p] = "RUNNING" /\ current_running = p /\ pid[tcb] = pid0
      /\ pid' = [pid EXCEPT ![tcb] = t]
      /\ status' = [status EXCEPT ![tcb] = "READY"]
      /\ list' = init_list_head(list, tcb)
      /\ thread_group' = list_add(init_list_head(thread_group, tcb), tcb, p)
      /\ current_running' = p /\ wakeup_time' = wakeup_time
      /\ ticks' = ticks /\ timer' = timer
  BY DEF ThreadsInv, ThreadCreate, Calls
<1>4. /\ status \in [Proc -> Statuses] /\ Whole(list, Q, Heads, Pcb)
      /\ Placed(status, Q, pid) /\ Lively(status, pid) /\ status[pid0] = "BLOCKED"
      /\ \A o \in Proc : status[o] = "RUNNING" => o = p
      /\ \A u \in Task : \E o \in Pcb : Serves(status, Q, pid, u, o)
  BY <1>1, <1>3 DEF Sound
<1>5. t \in Task /\ t # pid0
  BY <1>1, <1>3, RunningServes
<1>6. /\ tcb \in Pcb /\ tcb \in Proc /\ tcb # pid0 /\ tcb \notin Task
      /\ \A o \in Pcb : o \in Proc
  BY Constants DEF Pcb, Proc
<1>7. ~In(Q[ready_queue], tcb) /\ ~In(Q[sleep_queue], tcb) /\ Free(Q, Heads, tcb)
  <2>1. status[tcb] = "BLOCKED" /\ ~In(Q[sleep_queue], tcb)
    BY <1>3, <1>4, <1>6 DEF Placed
  <2>2. ~In(Q[ready_queue], tcb)
    BY <1>4, <1>6, <2>1 DEF Placed
  <2> QED BY <1>4, <2>1, <2>2, ReadingIs
<1>8. list' = list
  BY <1>3, <1>4, <1>6, <1>7, FreeEntry
<1>9. /\ pid' \in [Proc -> {pid0} \cup Task]
      /\ pid'[tcb] = t /\ \A o \in Proc : o # tcb => pid'[o] = pid[o]
  BY <1>3, <1>5, <1>6 DEF Types
<1>10. /\ status' \in [Proc -> Statuses]
       /\ status'[tcb] = "READY" /\ \A o \in Proc : o # tcb => status'[o] = status[o]
  BY <1>3, <1>4, <1>6 DEF Statuses
<1> HIDE DEF t
<1>11. Types'
  <2>1. pid'[pid0] = pid0 /\ \A u \in Task : pid'[u] = u
    BY <1>3, <1>6, <1>9 DEF Types, Proc, Pcb
  <2> QED BY <1>3, <1>9, <2>1 DEF Types
<1>12. Sound(status', list', Q, pid', current_running')
  <2>1. Placed(status', Q, pid')
    <3> SUFFICES ASSUME NEW o \in Pcb
                 PROVE  /\ In(Q[ready_queue], o) => status'[o] = "READY"
                        /\ In(Q[sleep_queue], o) <=> status'[o] = "BLOCKED" /\ pid'[o] # pid0
                        /\ pid'[o] = pid0 => status'[o] = "BLOCKED"
      BY DEF Placed
    <3>1. CASE o = tcb
      BY <1>5, <1>7, <1>9, <1>10, <3>1
    <3>2. CASE o # tcb
      BY <1>4, <1>6, <1>9, <1>10, <3>2 DEF Placed
    <3> QED BY <3>1, <3>2
  <2>2. Lively(status', pid')
    <3> SUFFICES ASSUME NEW o \in Pcb, pid'[o] # pid0
                 PROVE  /\ status'[o] = "BLOCKED" => pid'[o] \in Sleepers
                        /\ status'[o] = "EXITED" => pid'[o] \in Quitters
      BY DEF Lively
    <3>1. CASE o = tcb
      BY <1>10, <3>1
    <3>2. CASE o # tcb
      BY <1>4, <1>6, <1>9, <1>10, <3>2 DEF Lively
    <3> QED BY <3>1, <3>2
  <2>3. status'[pid0] = "BLOCKED"
    BY <1>4, <1>6, <1>10 DEF Proc
  <2>4. \A o \in Proc : status'[o] = "RUNNING" => o = current_running'
    BY <1>3, <1>4, <1>10
  <2>5. ASSUME NEW u \in Task PROVE \E o \in Pcb : Serves(status', Q, pid', u, o)
    <3>1. PICK o \in Pcb : Serves(status, Q, pid, u, o)
      BY <1>4
    <3>2. o # tcb /\ pid'[o] = u
      BY <1>3, <1>6, <1>9, <3>1, Constants DEF Serves
    <3>3. ~Idle(status', Q, o)
      BY <1>6, <1>10, <3>1, <3>2 DEF Serves, Idle
    <3>4. ASSUME NEW x \in Pcb, pid'[x] = u, x # o PROVE Idle(status', Q, x)
      <4>1. CASE x = tcb
        BY <1>7, <1>10, <4>1 DEF Idle
      <4>2. CASE x # tcb
        BY <1>6, <1>9, <1>10, <3>1, <3>4, <4>2 DEF Serves, Idle
      <4> QED BY <4>1, <4>2
    <3>5. Serves(status', Q, pid', u, o)
      BY <3>2, <3>3, <3>4 DEF Serves
    <3> QED BY <3>5
  <2> QED BY <1>4, <1>8, <1>10, <2>1, <2>2, <2>3, <2>4, <2>5 DEF Sound
<1>13. \E R2 : Grouped(thread_group', R2, pid')
  <2>1. /\ Whole(thread_group, R, Task, Tcb) /\ R \in [Task -> Seq(Tcb)]
        /\ \A u \in Task : \A o \in Tcb : In(R[u], o) <=> pid[o] = u
    BY <1>2 DEF Grouped, Whole
  <2>2. Free(R, Task, tcb)
    BY <1>3, <2>1, Constants DEF Free
  <2>3. init_list_head(thread_group, tcb) = thread_group
    BY <2>1, <2>2, FreeEntry
  <2>4. PICK i \in 0..Len(R[t]) : p = Around(t, R[t], i)
    BY <1>2, <1>3, <1>5, OnRing DEF t
  <2> DEFINE R2 == [R EXCEPT ![t] = Insert(@, i, tcb)]
  <2>5. Whole(thread_group', R2, Task, Tcb)
    <3>1. Whole(list_add(thread_group, tcb, Around(t, R[t], i)), R2, Task, Tcb)
      BY <1>5, <2>1, <2>2, AddWhole, Constants
    <3> QED BY <1>3, <2>3, <2>4, <3>1
  <2>6. /\ R2[t] = Insert(R[t], i, tcb) /\ R[t] \in Seq(Tcb)
        /\ \A u \in Task : u # t => R2[u] = R[u]
    BY <1>5, <2>1
  <2> HIDE DEF R2
  <2>7. ASSUME NEW u \in Task, NEW o \in Tcb PROVE In(R2[u], o) <=> pid'[o] = u
    <3>1. CASE u = t
      <4>1. In(R2[t], o) <=> In(R[t], o) \/ o = tcb
        BY <2>6, InInsert
      <4>2. o \in Proc
        BY DEF Proc, Pcb
      <4> QED BY <1>9, <2>1, <3>1, <4>1, <4>2
    <3>2. CASE u # t
      <4>1. In(R2[u], o) <=> pid[o] = u
        BY <2>1, <2>6, <3>2
      <4>2. o \in Proc
        BY DEF Proc, Pcb
      <4>3. CASE o = tcb
        <5>1. pid[o] # u
          BY <1>3, <4>3, Constants
        <5> QED BY <1>9, <3>2, <4>1, <4>3, <5>1
      <4>4. CASE o # tcb
        BY <1>9, <4>1, <4>2, <4>4
      <4> QED BY <4>3, <4>4
    <3> QED BY <3>1, <3>2
  <2>8. Grouped(thread_group', R2, pid')
    BY <2>5, <2>7 DEF Grouped
  <2> QED BY <2>8
<1>14. current_running' \in Pcb => status'[current_running'] = "RUNNING"
  <2>1. p # tcb
    BY <1>3, <1>5 DEF t
  <2> QED BY <1>3, <1>6, <1>10, <2>1
<1> QED BY <1>11, <1>12, <1>13, <1>14 DEF ThreadsInv

\* The next thread of the ring is the caller or an idle thread of its process.
LEMMA NextThread ==
  ASSUME NEW Q, NEW R, Types, Sound(status, list, Q, pid, current_running),
         Grouped(thread_group, R, pid), NEW p \in Pcb, status[p] = "RUNNING"
  PROVE  LET next == thread_group.next[p]
         IN  /\ next \in Pcb /\ pid[next] = pid[p]
             /\ Free(Q, Heads, next)
             /\ next # p => status[next] = "READY"
<1> DEFINE next == thread_group.next[p]
           t == pid[p]
<1>1. /\ t # pid0 /\ t \in Task /\ Free(Q, Heads, p)
      /\ \A o \in Pcb : pid[o] = t /\ o # p => Idle(status, Q, o)
  BY RunningServes
<1>2. PICK i \in 0..Len(R[t]) : p = Around(t, R[t], i)
  BY <1>1, OnRing
<1>3. Leads(thread_group, t, R[t]) /\ R[t] \in Seq(Tcb)
  BY <1>1 DEF Grouped, Whole
<1>4. next = Around(t, R[t], i + 1)
  BY <1>2, <1>3 DEF Leads
<1>5. i + 1 \in Nat
  BY <1>3
<1>6. next \in Pcb /\ pid[next] = t
  BY <1>1, <1>4, <1>5, RingHolds
<1> HIDE DEF next, t
<1>7. CASE next = p
  BY <1>1, <1>6, <1>7 DEF next, t
<1>8. CASE next # p
  <2>1. status[next] = "READY" /\ ~In(Q[ready_queue], next)
    BY <1>1, <1>6, <1>8 DEF Idle
  <2>2. ~In(Q[sleep_queue], next)
    BY <1>6, <2>1 DEF Sound, Placed
  <2>3. Free(Q, Heads, next)
    BY <2>1, <2>2, ReadingIs DEF Sound
  <2> QED BY <1>6, <2>1, <2>3 DEF next, t
<1> QED BY <1>7, <1>8

LEMMA ThreadsThreadYield ==
  ASSUME ThreadsInv, NEW p \in Pcb, ThreadYield(p)
  PROVE  ThreadsInv'
<1> DEFINE next == thread_group.next[p]
           t == pid[p]
<1>1. PICK Q : Sound(status, list, Q, pid, current_running)
  BY DEF ThreadsInv
<1>2. PICK R : Grouped(thread_group, R, pid)
  BY DEF ThreadsInv
<1>3. /\ Types /\ status[p] = "RUNNING" /\ current_running = p
      /\ current_running' = next
      /\ status' = [status EXCEPT ![p] = "READY", ![next] = "RUNNING"]
      /\ list' = init_list_head(list, next)
      /\ thread_group' = thread_group /\ pid' = pid /\ wakeup_time' = wakeup_time
      /\ ticks' = ticks /\ timer' = timer
  BY DEF ThreadsInv, ThreadYield, Calls
<1>4. /\ status \in [Proc -> Statuses] /\ Whole(list, Q, Heads, Pcb)
      /\ Placed(status, Q, pid) /\ Lively(status, pid) /\ status[pid0] = "BLOCKED"
      /\ \A o \in Proc : status[o] = "RUNNING" => o = p
      /\ \A u \in Task : \E o \in Pcb : Serves(status, Q, pid, u, o)
  BY <1>1, <1>3 DEF Sound
<1>5. /\ t # pid0 /\ t \in Task /\ Free(Q, Heads, p)
      /\ \A o \in Pcb : pid[o] = t /\ o # p => Idle(status, Q, o)
  BY <1>1, <1>3, RunningServes
<1>6. /\ next \in Pcb /\ pid[next] = t /\ Free(Q, Heads, next)
      /\ next # p => status[next] = "READY"
  BY <1>1, <1>2, <1>3, NextThread
<1> HIDE DEF next, t
<1>7. list' = list
  BY <1>3, <1>4, <1>6, FreeEntry
<1>8. next \in Proc /\ p \in Proc /\ next # pid0 /\ p # pid0 /\ \A o \in Pcb : o \in Proc
  BY <1>6, Constants DEF Proc
<1>9. /\ status' \in [Proc -> Statuses]
      /\ status'[next] = "RUNNING"
      /\ p # next => status'[p] = "READY"
      /\ \A o \in Proc : o # next /\ o # p => status'[o] = status[o]
  BY <1>3, <1>4, <1>8 DEF Statuses
<1>10. /\ ~In(Q[ready_queue], p) /\ ~In(Q[sleep_queue], p)
       /\ ~In(Q[ready_queue], next) /\ ~In(Q[sleep_queue], next)
  BY <1>5, <1>6, Constants DEF Free
<1>11. Placed(status', Q, pid')
  <2> SUFFICES ASSUME NEW o \in Pcb
               PROVE  /\ In(Q[ready_queue], o) => status'[o] = "READY"
                      /\ In(Q[sleep_queue], o) <=> status'[o] = "BLOCKED" /\ pid[o] # pid0
                      /\ pid[o] = pid0 => status'[o] = "BLOCKED"
    BY <1>3 DEF Placed
  <2>1. CASE o = next \/ o = p
    <3>1. status'[o] # "BLOCKED" /\ pid[o] # pid0
      BY <1>5, <1>6, <1>9, <2>1 DEF t
    <3> QED BY <1>10, <2>1, <3>1
  <2>2. CASE o # next /\ o # p
    BY <1>4, <1>8, <1>9, <2>2 DEF Placed
  <2> QED BY <2>1, <2>2
<1>12. Lively(status', pid')
  <2> SUFFICES ASSUME NEW o \in Pcb, pid[o] # pid0
               PROVE  /\ status'[o] = "BLOCKED" => pid[o] \in Sleepers
                      /\ status'[o] = "EXITED" => pid[o] \in Quitters
    BY <1>3 DEF Lively
  <2>1. CASE o = next \/ o = p
    BY <1>9, <2>1
  <2>2. CASE o # next /\ o # p
    BY <1>4, <1>8, <1>9, <2>2 DEF Lively
  <2> QED BY <2>1, <2>2
<1>13. status'[pid0] = "BLOCKED"
  BY <1>4, <1>8, <1>9 DEF Proc
<1>14. \A o \in Proc : status'[o] = "RUNNING" => o = current_running'
  BY <1>3, <1>4, <1>9
<1>15. ASSUME NEW u \in Task PROVE \E o \in Pcb : Serves(status', Q, pid', u, o)
  <2>1. CASE u = t
    <3>1. ~Idle(status', Q, next)
      BY <1>9 DEF Idle
    <3>2. ASSUME NEW x \in Pcb, pid[x] = t, x # next PROVE Idle(status', Q, x)
      <4>1. CASE x = p
        BY <1>9, <1>10, <3>2, <4>1 DEF Idle
      <4>2. CASE x # p
        BY <1>5, <1>8, <1>9, <3>2, <4>2 DEF Idle
      <4> QED BY <4>1, <4>2
    <3>3. Serves(status', Q, pid', t, next)
      BY <1>3, <1>6, <3>1, <3>2 DEF Serves
    <3> QED BY <1>6, <2>1, <3>3
  <2>2. CASE u # t
    <3>1. PICK o \in Pcb : Serves(status, Q, pid, u, o)
      BY <1>4
    <3>2. ASSUME NEW x \in Pcb, pid[x] = u PROVE status'[x] = status[x]
      BY <1>6, <1>8, <1>9, <2>2, <3>2 DEF t
    <3>3. Serves(status', Q, pid', u, o)
      BY <1>3, <3>1, <3>2 DEF Serves, Idle
    <3> QED BY <3>3
  <2> QED BY <2>1, <2>2
<1>16. Sound(status', list', Q, pid', current_running')
  BY <1>4, <1>7, <1>9, <1>11, <1>12, <1>13, <1>14, <1>15 DEF Sound
<1>17. Types' /\ Grouped(thread_group', R, pid')
  BY <1>2, <1>3, <1>8 DEF Types
<1> QED BY <1>3, <1>9, <1>16, <1>17 DEF ThreadsInv

LEMMA ThreadsStart ==
  ASSUME Init
  PROVE  ThreadsInv
<1> DEFINE Q == QueuedTo(NumTask)
           R == [t \in Task |-> << >>]
           st0 == [p \in Proc |-> IF p \in Task THEN "READY" ELSE "BLOCKED"]
           pd0 == [p \in Proc |-> IF p \in Task THEN p ELSE pid0]
<1>1. /\ status = st0 /\ pid = pd0 /\ current_running = pid0
      /\ thread_group = Unlinked(Task \cup Tcb)
      /\ wakeup_time \in [Pcb -> Nat] /\ ticks \in Nat /\ timer \in Nat
  BY ThreadsAssumption DEF Init, Proc, Pcb
<1>2. Whole(list, Q, Heads, Pcb)
  BY QueuedWhole
<1>3. /\ \A p : In(Q[ready_queue], p) <=> p \in Task
      /\ \A p : ~In(Q[sleep_queue], p)
  <2>1. Q[ready_queue] = [i \in 1..NumTask |-> i] /\ Q[sleep_queue] = << >>
    BY Constants DEF QueuedTo
  <2> DEFINE r == [i \in 1..NumTask |-> i]
  <2>2. Len(r) = NumTask
    BY Constants
  <2>3. \A i \in 1..NumTask : r[i] = i
    OBVIOUS
  <2> HIDE DEF r
  <2>4. \A p : In(r, p) <=> p \in Task
    BY <2>2, <2>3 DEF In, Task
  <2>5. \A p : ~In(<< >>, p)
    BY DEF In
  <2> QED BY <2>1, <2>4, <2>5 DEF r
<1>4. /\ Task \subseteq Pcb /\ Pcb \subseteq Proc /\ pid0 \in Proc
      /\ pid0 \notin Task /\ pid0 \notin Pcb /\ Task \cap Tcb = {}
  BY Constants DEF Pcb, Proc
<1>5. st0 \in [Proc -> Statuses] /\ pd0 \in [Proc -> {pid0} \cup Task]
  BY DEF Statuses
<1>6. \A p \in Proc : /\ st0[p] = IF p \in Task THEN "READY" ELSE "BLOCKED"
                      /\ pd0[p] = IF p \in Task THEN p ELSE pid0
  OBVIOUS
<1> HIDE DEF Q, st0, pd0
<1>7. Placed(st0, Q, pd0) /\ Lively(st0, pd0) /\ st0[pid0] = "BLOCKED"
  BY <1>3, <1>4, <1>6 DEF Placed, Lively
<1>8. \A p \in Proc : st0[p] = "RUNNING" => p = pid0
  BY <1>6
<1>9. ASSUME NEW t \in Task PROVE Serves(st0, Q, pd0, t, t)
  <2>1. pd0[t] = t /\ ~Idle(st0, Q, t)
    BY <1>3, <1>4, <1>6 DEF Idle
  <2>2. \A o \in Pcb : pd0[o] = t => o = t
    BY <1>4, <1>6
  <2> QED BY <2>1, <2>2 DEF Serves
<1>10. Sound(status, list, Q, pid, current_running)
  BY <1>1, <1>2, <1>4, <1>5, <1>7, <1>8, <1>9 DEF Sound
<1>11. Grouped(thread_group, R, pid)
  <2>1. Whole(thread_group, R, Task, Tcb)
    BY <1>1, <1>4, UnlinkedWhole
  <2>2. ASSUME NEW t \in Task, NEW p \in Tcb PROVE In(R[t], p) <=> pid[p] = t
    <3>1. p \in Proc /\ p \notin Task
      BY <1>4 DEF Pcb
    <3>2. pid[p] # t
      BY <1>1, <1>4, <1>6, <3>1
    <3>3. ~In(<< >>, p) /\ R[t] = << >>
      BY DEF In
    <3> QED BY <3>2, <3>3
  <2> QED BY <2>1, <2>2 DEF Grouped
<1>12. Types
  BY <1>1, <1>4, <1>5, <1>6 DEF Types
<1> QED BY <1>1, <1>4, <1>10, <1>11, <1>12 DEF ThreadsInv

(***************************************************************************)
(* The inductive invariant.  The assumption is that some program neither   *)
(* sleeps nor exits, as in the task list of the kernel: otherwise          *)
(* do_scheduler may find nobody and return to the task it has just blocked *)
(* (do_block in sched.c), which then runs on while it is in a queue.       *)
(***************************************************************************)
THEOREM ThreadsInvariant ==
  ASSUME Spinners # {}
  PROVE  Spec => []ThreadsInv
<1>1. Init => ThreadsInv
  BY ThreadsStart
<1>2. ThreadsInv /\ [Next]_threadVars => ThreadsInv'
  <2> SUFFICES ASSUME ThreadsInv, [Next]_threadVars PROVE ThreadsInv'
    OBVIOUS
  <2>1. CASE Tick
    BY <2>1, ThreadsTick
  <2>2. CASE TimerInterrupt
    BY <2>2, ThreadsInterrupt
  <2>3. ASSUME NEW p \in Pcb, Yield(p) PROVE ThreadsInv'
    BY <2>3, ThreadsYield
  <2>4. ASSUME NEW p \in Pcb, NEW n \in 0..MaxSleep, Sleep(p, n) PROVE ThreadsInv'
    BY <2>4, ThreadsSleep
  <2>5. ASSUME NEW p \in Pcb, Exit(p) PROVE ThreadsInv'
    BY <2>5, ThreadsExit
  <2>6. ASSUME NEW p \in Pcb, ThreadYield(p) PROVE ThreadsInv'
    BY <2>6, ThreadsThreadYield
  <2>7. ASSUME NEW p \in Pcb, NEW tcb \in Tcb, ThreadCreate(p, tcb) PROVE ThreadsInv'
    BY <2>7, ThreadsCreate
  <2>8. CASE UNCHANGED threadVars
    BY <2>8 DEF threadVars, ThreadsInv, Types
  <2> QED BY <2>1, <2>2, <2>3, <2>4, <2>5, <2>6, <2>7, <2>8 DEF Next
<1> QED BY <1>1, <1>2, PTL DEF Spec

(***************************************************************************)
(* Who takes part in scheduling.                                           *)
(***************************************************************************)
LEMMA LinkedIs ==
  ASSUME NEW Q, Types, Sound(status, list, Q, pid, current_running),
         current_running \in Pcb => status[current_running] = "RUNNING",
         NEW p \in Pcb, pid[p] # pid0
  PROVE  Parked(p) <=> Idle(status, Q, p)
<1>1. Whole(list, Q, Heads, Pcb) /\ Placed(status, Q, pid)
  BY DEF Sound
<1>2. Linked(p) <=> ~Free(Q, Heads, p)
  BY <1>1, WholeRings, Constants DEF Linked
<1>3. Linked(p) <=> In(Q[ready_queue], p) \/ In(Q[sleep_queue], p)
  BY <1>2, Constants DEF Free, Heads
<1>4. In(Q[sleep_queue], p) => status[p] = "BLOCKED"
  BY <1>1 DEF Placed
<1>5. status[p] = "READY" => current_running # p
  OBVIOUS
<1> QED BY <1>3, <1>4, <1>5 DEF Parked, Idle

LEMMA OneTakesPartHolds ==
  ASSUME ThreadsInv
  PROVE  OneTakesPart
<1>1. PICK Q : Sound(status, list, Q, pid, current_running)
  BY DEF ThreadsInv
<1>2. \A p \in Pcb : pid[p] # pid0 => (Parked(p) <=> Idle(status, Q, p))
  BY <1>1, LinkedIs DEF ThreadsInv
<1> SUFFICES ASSUME NEW t \in Task
             PROVE  \E p \in Group(t) : Group(t) = {p} \cup
                      {q \in Group(t) : Parked(q)} /\ ~Parked(p)
  BY DEF OneTakesPart
<1>3. PICK p \in Pcb : Serves(status, Q, pid, t, p)
  BY <1>1 DEF Sound
<1>4. t # pid0
  BY Constants
<1>5. p \in Group(t) /\ ~Parked(p)
  BY <1>2, <1>3, <1>4 DEF Serves, Group
<1>6. \A o \in Group(t) : o # p => Parked(o)
  BY <1>2, <1>3, <1>4 DEF Serves, Group
<1>7. Group(t) = {p} \cup {q \in Group(t) : Parked(q)}
  BY <1>5, <1>6
<1> QED BY <1>5, <1>7

\* Of the threads of a process exactly one takes part in scheduling
\* (do_thread_create, do_thread_yield, do_scheduler).
THEOREM ThreadsOneTakesPart ==
  ASSUME Spinners # {}
  PROVE  Spec => []OneTakesPart
<1>1. ThreadsInv => OneTakesPart
  BY OneTakesPartHolds
<1> QED BY <1>1, ThreadsInvariant, PTL

(***************************************************************************)
(* The lists are whole.                                                    *)
(***************************************************************************)
\* Walking from its head, a list meets each of its entries within Cardinality(Pcb)
\* steps, and never another head.
LEMMA ListWalk ==
  ASSUME NEW Q, Whole(list, Q, Heads, Pcb), NEW x \in Heads
  PROVE  /\ \A i \in 1..Len(Q[x]) : i \in 1..Cardinality(Pcb) /\ Nth(list, x, i) = Q[x][i]
         /\ \A y \in Heads : y # x => \A i \in 1..Cardinality(Pcb) : Nth(list, x, i) # y
<1> DEFINE q == Q[x]
           n == Len(q)
           F == Cardinality(Pcb)
<1>1. /\ q \in Seq(Pcb) /\ n \in Nat /\ Leads(list, x, q) /\ F \in Nat
      /\ \A i, j \in 1..n : q[i] = q[j] => i = j
  <2>1. q \in Seq(Pcb) /\ Leads(list, x, q)
    BY DEF Whole
  <2>2. \A i, j \in 1..n : q[i] = q[j] => i = j
    BY DEF Whole, Distinct
  <2> QED BY <2>1, <2>2, Constants
<1> HIDE DEF q
<1>2. n <= F
  <2>1. q \in [1..n -> Pcb]
    BY <1>1
  <2> HIDE DEF n
  <2> QED BY <1>1, <2>1, NoLongerThan, Constants
<1>3. ASSUME NEW i \in 1..n PROVE i \in 1..F /\ Nth(list, x, i) = q[i]
  <2> DEFINE j == 0
  <2>1. j \in 0..Len(q) /\ i \in 0..(2 * Len(q) + 2 - j) /\ i + j <= Len(q) + 1 /\ i + j = i
    BY <1>1
  <2>2. Around(x, q, j) = x /\ Around(x, q, i) = q[i]
    BY <1>1 DEF Around
  <2> HIDE DEF j
  <2>3. Nth(list, Around(x, q, j), i) = Around(x, q, i + j)
    BY <1>1, <2>1, WalkAround
  <2> QED BY <1>1, <1>2, <2>1, <2>2, <2>3
<1>4. ASSUME NEW y \in Heads, y # x, NEW i \in 1..F PROVE Nth(list, x, i) # y
  <2> DEFINE W == {x} \cup {q[k] : k \in 1..n}
  <2>1. \A m \in W : list.next[m] \in W
    <3> SUFFICES ASSUME NEW m \in W PROVE list.next[m] \in W
      OBVIOUS
    <3>1. PICK k \in 0..n : m = Around(x, q, k)
      <4>1. CASE m = x
        <5>1. 0 \in 0..n /\ Around(x, q, 0) = x
          BY <1>1 DEF Around
        <5> QED BY <4>1, <5>1
      <4>2. CASE m # x
        <5>1. PICK k \in 1..n : m = q[k]
          BY <4>2
        <5>2. k \in 0..n /\ Around(x, q, k) = m
          BY <1>1, <5>1 DEF Around
        <5> QED BY <5>2
      <4> QED BY <4>1, <4>2
    <3>2. list.next[m] = Around(x, q, k + 1)
      BY <1>1, <3>1 DEF Leads
    <3> QED BY <3>2 DEF Around
  <2>2. y \notin W
    <3>1. \A k \in 1..n : q[k] \in Pcb
      BY <1>1
    <3> QED BY <1>4, <3>1, Constants
  <2>3. x \in W /\ i \in Nat
    BY <1>1
  <2> HIDE DEF W
  <2> QED BY <2>1, <2>2, <2>3, NthIn
<1> QED BY <1>3, <1>4 DEF q

LEMMA ListsWholeHolds ==
  ASSUME ThreadsInv
  PROVE  ListsWhole
<1>1. PICK Q : Sound(status, list, Q, pid, current_running)
  BY DEF ThreadsInv
<1>2. Whole(list, Q, Heads, Pcb)
  BY <1>1 DEF Sound
<1>3. Rings(list) /\ \A p \in Pcb : Free(Q, Heads, p) <=> list.next[p] = p
  BY <1>2, WholeRings, Constants
<1>4. ASSUME NEW p \in Pcb, Linked(p)
      PROVE  \E x \in Heads : \E i \in 1..Cardinality(Pcb) : Nth(list, x, i) = p
  <2>1. ~Free(Q, Heads, p)
    BY <1>3, <1>4 DEF Linked
  <2>2. PICK x \in Heads : In(Q[x], p)
    BY <2>1 DEF Free
  <2>3. PICK i \in 1..Len(Q[x]) : Q[x][i] = p
    BY <2>2 DEF In
  <2>4. i \in 1..Cardinality(Pcb) /\ Nth(list, x, i) = p
    BY <1>2, <2>3, ListWalk
  <2> QED BY <2>4
<1>5. \A x, y \in Heads : x # y =>
        \A i \in 1..Cardinality(Pcb) : Nth(list, x, i) # y
  BY <1>2, ListWalk
<1> QED BY <1>3, <1>4, <1>5 DEF ListsWhole

\* The ready list and the sleep list stay two separate rings, in both
\* directions the same, and a PCB is in one of them or a ring of its own
\* (list.c, and every call the scheduler makes of it).
THEOREM ThreadsListsWhole ==
  ASSUME Spinners # {}
  PROVE  Spec => []ListsWhole
<1>1. ThreadsInv => ListsWhole
  BY ListsWholeHolds
<1> QED BY <1>1, ThreadsInvariant, PTL

(***************************************************************************)
(* The rings of the processes are complete.                                *)
(***************************************************************************)
\* From any node of a ring, any node is at most a round away.
LEMMA RingWalk ==
  ASSUME NEW h, NEW x, NEW E, NEW q \in Seq(E), Leads(h, x, q),
         NEW j \in 0..Len(q), NEW k \in 0..Len(q)
  PROVE  \E i \in 1..(Len(q) + 1) : Nth(h, Around(x, q, j), i) = Around(x, q, k)
<1> DEFINE n == Len(q)
<1>1. n \in Nat /\ j \in 0..n /\ k \in 0..n
  OBVIOUS
<1>2. CASE k > j
  <2> DEFINE i == k - j
  <2>1. /\ i \in 1..(n + 1) /\ i \in 0..(2 * n + 2 - j)
        /\ i + j <= n + 1 /\ i + j = k
    BY <1>1, <1>2
  <2> HIDE DEF i
  <2>2. Nth(h, Around(x, q, j), i) = Around(x, q, i + j)
    BY <2>1, WalkAround
  <2> QED BY <2>1, <2>2
<1>3. CASE ~(k > j) /\ ~(j = 0)
  <2> DEFINE i == n + 1 - j + k
  <2>1. /\ i \in 1..(n + 1) /\ i \in 0..(2 * n + 2 - j)
        /\ i + j = (n + 1) + k /\ i + j - (n + 1) = k
        /\ i + j <= n + 1 => k = 0 /\ i + j = n + 1
    BY <1>1, <1>3
  <2> HIDE DEF i
  <2>2. Nth(h, Around(x, q, j), i) =
          IF i + j <= n + 1 THEN Around(x, q, i + j)
          ELSE Around(x, q, i + j - (n + 1))
    BY <2>1, WalkAround
  <2>3. Around(x, q, n + 1) = Around(x, q, 0)
    BY <1>1 DEF Around
  <2>4. Nth(h, Around(x, q, j), i) = Around(x, q, k)
    BY <2>1, <2>2, <2>3
  <2> QED BY <2>1, <2>4
<1>4. CASE ~(k > j) /\ j = 0
  <2> DEFINE i == n + 1
  <2>1. /\ i \in 1..(n + 1) /\ i \in 0..(2 * n + 2 - j)
        /\ i + j <= n + 1 /\ i + j = n + 1 /\ k = 0
    BY <1>1, <1>4
  <2> HIDE DEF i
  <2>2. Nth(h, Around(x, q, j), i) = Around(x, q, n + 1)
    BY <2>1, WalkAround
  <2>3. Around(x, q, n + 1) = Around(x, q, 0)
    BY <1>1 DEF Around
  <2> QED BY <2>1, <2>2, <2>3
<1> QED BY <1>2, <1>3, <1>4

LEMMA RingsCompleteHolds ==
  ASSUME ThreadsInv
  PROVE  RingsComplete
<1>1. PICK R : Grouped(thread_group, R, pid)
  BY DEF ThreadsInv
<1>2. Types /\ Whole(thread_group, R, Task, Tcb)
  BY <1>1 DEF ThreadsInv, Grouped
<1>3. Rings(thread_group)
  BY <1>2, WholeRings, Constants
<1>4. ASSUME NEW t \in Task, NEW p \in Group(t), NEW q \in Group(t)
      PROVE  \E i \in 1..Cardinality(Pcb) : Nth(thread_group, p, i) = q
  <2> DEFINE r == R[t]
  <2>1. p \in Pcb /\ q \in Pcb /\ pid[p] = t /\ pid[q] = t /\ t # pid0
    BY <1>4, Constants DEF Group
  <2>2. r \in Seq(Tcb) /\ Leads(thread_group, t, r)
    BY <1>2 DEF Whole
  <2>3. PICK j \in 0..Len(r) : p = Around(t, r, j)
    BY <1>1, <1>2, <2>1, OnRing
  <2>4. PICK k \in 0..Len(r) : q = Around(t, r, k)
    BY <1>1, <1>2, <2>1, OnRing
  <2>5. Len(r) \in Nat /\ Len(r) + 1 <= Cardinality(Pcb)
    <3>1. Task \cup Tcb = Pcb
      BY DEF Pcb
    <3> QED BY <1>2, <3>1, RingLength, Constants
  <2> HIDE DEF r
  <2>6. PICK i \in 1..(Len(r) + 1) : Nth(thread_group, Around(t, r, j), i) = Around(t, r, k)
    BY <2>2, RingWalk
  <2>7. i \in 1..Cardinality(Pcb)
    BY <2>5, Constants
  <2> QED BY <2>3, <2>4, <2>6, <2>7
<1> QED BY <1>3, <1>4 DEF RingsComplete

\* The threads of a process are one ring: do_thread_yield reaches each of them
\* from each (do_thread_create).
THEOREM ThreadsRingsComplete ==
  ASSUME Spinners # {}
  PROVE  Spec => []RingsComplete
<1>1. ThreadsInv => RingsComplete
  BY RingsCompleteHolds
<1> QED BY <1>1, ThreadsInvariant, PTL

-----------------------------------------------------------------------
(***************************************************************************)
(* The scheduler with threads implements the one on queues of processes.   *)
(* a names, for each process, the PCB that takes part in scheduling; the   *)
(* process has the status of that PCB and its place in the lists.          *)
(***************************************************************************)
Serving(a, st, Q, pd) ==
  /\ a \in [Task -> Pcb]
  /\ \A t \in Task : Serves(st, Q, pd, t, a[t])

Renamed(q, pd) == [i \in DOMAIN q |-> pd[q[i]]]

StatusOf(a, st) ==
  [t \in {pid0} \cup Task |-> IF t = pid0 THEN st[pid0] ELSE st[a[t]]]

QueueOf(Q, pd) == [x \in Heads |-> Renamed(Q[x], pd)]

BarStatus == [t \in {pid0} \cup Task |-> IF t = pid0 THEN status[pid0] ELSE status[Active(t)]]
BarQueue  == [x \in Heads |-> LET q == Entries(list, x) IN [i \in DOMAIN q |-> pid[q[i]]]]
BarWake   == [t \in Task |-> Max({wakeup_time[p] : p \in Group(t)})]

\* The operators the abstract module takes from its library are the same.
LEMMA SamePick ==
  ASSUME NEW q, NEW I
  PROVE  S!Pick(q, I) = Pick(q, I)
BY DEF S!Pick, Pick, S!Cardinality, Cardinality

LEMMA SameConstants ==
  S!Queue = Heads /\ S!Task = Task /\ S!Proc = {pid0} \cup Task /\ S!pid0 = pid0
BY DEF S!Queue, S!Task, S!Proc, S!pid0, Heads, Task, pid0

LEMMA RenamedIs ==
  ASSUME NEW q \in Seq(Pcb), pid \in [Proc -> {pid0} \cup Task],
         \A i \in 1..Len(q) : pid[q[i]] \in Task
  PROVE  /\ Renamed(q, pid) \in Seq(Task)
         /\ Len(Renamed(q, pid)) = Len(q)
         /\ \A i \in 1..Len(q) : Renamed(q, pid)[i] = pid[q[i]]
<1>1. DOMAIN q = 1..Len(q) /\ Len(q) \in Nat
  OBVIOUS
<1> DEFINE n == Len(q)
<1>2. Renamed(q, pid) = [i \in 1..n |-> pid[q[i]]]
  BY <1>1 DEF Renamed
<1> HIDE DEF n
<1>3. [i \in 1..n |-> pid[q[i]]] \in Seq(Task)
  BY <1>1 DEF n
<1>4. Len([i \in 1..n |-> pid[q[i]]]) = n
  BY <1>1 DEF n
<1> QED BY <1>2, <1>3, <1>4 DEF n

\* Two sequences of one length with the same elements are the same.
LEMMA SameSeq ==
  ASSUME NEW E, NEW a \in Seq(E), NEW b \in Seq(E), Len(a) = Len(b),
         \A i \in 1..Len(a) : a[i] = b[i]
  PROVE  a = b
<1> DEFINE n == Len(a)
<1>1. a = [i \in 1..n |-> a[i]] /\ b = [i \in 1..n |-> b[i]]
  OBVIOUS
<1>2. \A i \in 1..n : a[i] = b[i]
  OBVIOUS
<1> HIDE DEF n
<1> QED BY <1>1, <1>2

LEMMA RenamedPick ==
  ASSUME NEW q \in Seq(Pcb), NEW I \in SUBSET (1..Len(q)), pid \in [Proc -> {pid0} \cup Task],
         \A i \in 1..Len(q) : pid[q[i]] \in Task
  PROVE  /\ S!Pick(Renamed(q, pid), I) = Renamed(Pick(q, I), pid)
         /\ Pick(q, I) \in Seq(Pcb)
         /\ \A i \in 1..Len(Pick(q, I)) : pid[Pick(q, I)[i]] \in Task
<1> DEFINE n == Len(q)
           C == Cardinality(I)
           at(k) == CHOOSE i \in I : Rank(I, i) = k
           m == Renamed(q, pid)
<1>1. n \in Nat /\ I \in SUBSET (1..n) /\ DOMAIN q = 1..n
  OBVIOUS
<1>2. \A k \in 1..C : \E i \in I : Rank(I, i) = k
  BY <1>1, RankBijective
<1>3. \A i \in I : m[i] = pid[q[i]]
  BY <1>1 DEF Renamed
<1> HIDE DEF n, C, m
<1>4. \A k \in 1..C : at(k) \in I
  BY <1>2
<1>5. Pick(q, I) = [k \in 1..C |-> q[at(k)]] /\ Pick(m, I) = [k \in 1..C |-> m[at(k)]]
  BY DEF Pick, Rank, C
<1> HIDE DEF at
<1>6. Renamed(Pick(q, I), pid) = [k \in 1..C |-> pid[q[at(k)]]]
  BY <1>5 DEF Renamed
<1>7. [k \in 1..C |-> m[at(k)]] = [k \in 1..C |-> pid[q[at(k)]]]
  BY <1>3, <1>4
<1>8. Pick(q, I) \in Seq(Pcb)
  <2>1. I \in SUBSET DOMAIN q
    BY <1>1
  <2> QED BY <2>1, PickProperties
<1>9. \A i \in 1..Len(Pick(q, I)) : pid[Pick(q, I)[i]] \in Task
  <2>1. DOMAIN Pick(q, I) = 1..Len(Pick(q, I)) /\ DOMAIN Pick(q, I) = 1..C
    <3> DEFINE p == Pick(q, I)
    <3>1. p \in Seq(Pcb)
      BY <1>8
    <3>2. DOMAIN p = 1..C
      BY <1>5
    <3> HIDE DEF p
    <3>3. DOMAIN p = 1..Len(p)
      BY <3>1
    <3> QED BY <3>2, <3>3 DEF p
  <2>2. \A k \in 1..C : Pick(q, I)[k] = q[at(k)]
    BY <1>5
  <2> QED BY <1>1, <1>4, <2>1, <2>2 DEF n
<1>10. S!Pick(m, I) = Pick(m, I)
  BY SamePick
<1> QED BY <1>5, <1>6, <1>7, <1>8, <1>9, <1>10 DEF m

LEMMA RenamedConcat ==
  ASSUME NEW q \in Seq(Pcb), NEW r \in Seq(Pcb), pid \in [Proc -> {pid0} \cup Task],
         \A i \in 1..Len(q) : pid[q[i]] \in Task, \A i \in 1..Len(r) : pid[r[i]] \in Task
  PROVE  Renamed(q \o r, pid) = Renamed(q, pid) \o Renamed(r, pid)
<1> DEFINE n == Len(q)
           m == Len(r)
           c == q \o r
           a == Renamed(q, pid)
           b == Renamed(r, pid)
           d == a \o b
<1>1. /\ c \in Seq(Pcb) /\ Len(c) = n + m /\ n \in Nat /\ m \in Nat
      /\ \A i \in 1..(n + m) : c[i] = IF i <= n THEN q[i] ELSE r[i - n]
  BY ConcatProperties
<1>2. /\ a \in Seq(Task) /\ Len(a) = n /\ \A i \in 1..n : a[i] = pid[q[i]]
      /\ b \in Seq(Task) /\ Len(b) = m /\ \A i \in 1..m : b[i] = pid[r[i]]
  BY RenamedIs
<1> HIDE DEF a, b, c
<1>3. /\ d \in Seq(Task) /\ Len(d) = Len(a) + Len(b)
      /\ \A i \in 1..(Len(a) + Len(b)) : d[i] = IF i <= Len(a) THEN a[i] ELSE b[i - Len(a)]
  <2>1. a \in Seq(Task) /\ b \in Seq(Task)
    BY <1>2
  <2> QED BY ONLY <2>1, ConcatProperties
<1> HIDE DEF d, n, m
<1>4. \A i \in 1..(n + m) : i <= n \/ (i > n /\ i - n \in 1..m)
  BY <1>1
<1>5. \A i \in 1..(n + m) : pid[c[i]] \in Task /\ d[i] = pid[c[i]]
  <2> SUFFICES ASSUME NEW i \in 1..(n + m) PROVE pid[c[i]] \in Task /\ d[i] = pid[c[i]]
    OBVIOUS
  <2>1. CASE i <= n
    <3>1. i \in 1..n
      BY <1>1, <2>1
    <3> QED BY <1>1, <1>2, <1>3, <2>1, <3>1 DEF n
  <2>2. CASE ~(i <= n)
    <3>1. i - n \in 1..m
      BY <1>4, <2>2
    <3> QED BY <1>1, <1>2, <1>3, <2>2, <3>1 DEF m
  <2> QED BY <2>1, <2>2
<1>6. /\ Renamed(c, pid) \in Seq(Task) /\ Len(Renamed(c, pid)) = n + m
      /\ \A i \in 1..(n + m) : Renamed(c, pid)[i] = pid[c[i]]
  BY <1>1, <1>5, RenamedIs
<1>7. Renamed(c, pid) = d
  BY <1>1, <1>2, <1>3, <1>5, <1>6, SameSeq
<1> QED BY <1>7 DEF a, b, c, d

LEMMA RenamedAppend ==
  ASSUME NEW q \in Seq(Pcb), NEW e \in Pcb, pid \in [Proc -> {pid0} \cup Task],
         \A i \in 1..Len(q) : pid[q[i]] \in Task, pid[e] \in Task
  PROVE  Renamed(Append(q, e), pid) = Append(Renamed(q, pid), pid[e])
<1> DEFINE n == Len(q)
           c == Append(q, e)
           a == Renamed(q, pid)
           d == Append(a, pid[e])
<1>1. /\ c \in Seq(Pcb) /\ Len(c) = n + 1 /\ n \in Nat
      /\ \A i \in 1..(n + 1) : c[i] = IF i <= n THEN q[i] ELSE e
  BY AppendProperties
<1>2. a \in Seq(Task) /\ Len(a) = n /\ \A i \in 1..n : a[i] = pid[q[i]]
  BY RenamedIs
<1> HIDE DEF a, c
<1>3. /\ d \in Seq(Task) /\ Len(d) = Len(a) + 1
      /\ \A i \in 1..(Len(a) + 1) : d[i] = IF i <= Len(a) THEN a[i] ELSE pid[e]
  BY <1>2, AppendProperties
<1> HIDE DEF d, n
<1>4. \A i \in 1..(n + 1) : pid[c[i]] \in Task /\ d[i] = pid[c[i]]
  <2> SUFFICES ASSUME NEW i \in 1..(n + 1) PROVE pid[c[i]] \in Task /\ d[i] = pid[c[i]]
    OBVIOUS
  <2>1. CASE i <= n
    <3>1. i \in 1..n
      BY <1>1, <2>1
    <3> QED BY <1>1, <1>2, <1>3, <2>1, <3>1 DEF n
  <2>2. CASE ~(i <= n)
    BY <1>1, <1>2, <1>3, <2>2
  <2> QED BY <2>1, <2>2
<1>5. /\ Renamed(c, pid) \in Seq(Task) /\ Len(Renamed(c, pid)) = n + 1
      /\ \A i \in 1..(n + 1) : Renamed(c, pid)[i] = pid[c[i]]
  BY <1>1, <1>4, RenamedIs
<1>6. Renamed(c, pid) = d
  BY <1>1, <1>2, <1>3, <1>4, <1>5, SameSeq
<1> QED BY <1>6 DEF a, c, d

LEMMA RenamedTail ==
  ASSUME NEW q \in Seq(Pcb), 1 \in 1..Len(q), pid \in [Proc -> {pid0} \cup Task],
         \A i \in 1..Len(q) : pid[q[i]] \in Task
  PROVE  Renamed(Cut(q, 1), pid) = Tail(Renamed(q, pid)) /\ Renamed(q, pid) # << >>
         /\ Head(Renamed(q, pid)) = pid[q[1]]
<1> DEFINE n == Len(q)
           c == Cut(q, 1)
           a == Renamed(q, pid)
           d == Tail(a)
<1>1. /\ c \in Seq(Pcb) /\ Len(c) = n - 1 /\ n \in Nat /\ n > 0
      /\ \A k \in 1..(n - 1) : c[k] = IF k < 1 THEN q[k] ELSE q[k + 1]
  BY CutIs
<1>2. a \in Seq(Task) /\ Len(a) = n /\ \A i \in 1..n : a[i] = pid[q[i]]
  BY RenamedIs
<1> HIDE DEF a, c
<1>3. a # << >> /\ Head(a) = a[1]
  BY <1>1, <1>2
<1>4. d \in Seq(Task) /\ Len(d) = n - 1 /\ \A k \in 1..(n - 1) : d[k] = a[k + 1]
  BY <1>1, <1>2, <1>3, HeadTailProperties
<1> HIDE DEF d, n
<1>5. \A k \in 1..(n - 1) : k + 1 \in 1..n /\ ~(k < 1)
  BY <1>1
<1>6. \A k \in 1..(n - 1) : pid[c[k]] \in Task /\ d[k] = pid[c[k]]
  BY <1>1, <1>2, <1>4, <1>5 DEF n
<1>7. /\ Renamed(c, pid) \in Seq(Task) /\ Len(Renamed(c, pid)) = n - 1
      /\ \A k \in 1..(n - 1) : Renamed(c, pid)[k] = pid[c[k]]
  BY <1>1, <1>6, RenamedIs
<1>8. Renamed(c, pid) = d
  BY <1>4, <1>6, <1>7, SameSeq
<1>9. 1 \in 1..n
  BY <1>1
<1> QED BY <1>2, <1>3, <1>8, <1>9 DEF a, c, d, n

-----------------------------------------------------------------------
(***************************************************************************)
(* Processes and the PCBs that stand for them.                             *)
(***************************************************************************)
Abs(a, st, Q) == [status |-> StatusOf(a, st), queue |-> QueueOf(Q, pid)]

LEMMA Servers ==
  ASSUME NEW st, NEW h, NEW Q, NEW a, pid \in [Proc -> {pid0} \cup Task],
         Sound(st, h, Q, pid, current_running), Serving(a, st, Q, pid)
  PROVE  /\ \A t \in Task : a[t] \in Pcb /\ pid[a[t]] = t
         /\ \A x \in Heads : /\ Q[x] \in Seq(Pcb)
                             /\ \A i \in 1..Len(Q[x]) : /\ pid[Q[x][i]] \in Task
                                                        /\ a[pid[Q[x][i]]] = Q[x][i]
         /\ \A p \in Pcb : pid[p] # pid0 /\ st[p] # "READY" =>
                             pid[p] \in Task /\ a[pid[p]] = p
<1>1. \A t \in Task : a[t] \in Pcb /\ pid[a[t]] = t
  BY DEF Serving, Serves
<1>2. ASSUME NEW p \in Pcb, pid[p] # pid0, ~Idle(st, Q, p)
      PROVE  pid[p] \in Task /\ a[pid[p]] = p
  <2>1. pid[p] \in Task
    BY <1>2 DEF Proc
  <2>2. \A o \in Pcb : pid[o] = pid[p] /\ o # a[pid[p]] => Idle(st, Q, o)
    BY <2>1 DEF Serving, Serves
  <2> QED BY <1>2, <2>1, <2>2
<1>3. ASSUME NEW x \in Heads, NEW i \in 1..Len(Q[x])
      PROVE  pid[Q[x][i]] \in Task /\ a[pid[Q[x][i]]] = Q[x][i]
  <2> DEFINE p == Q[x][i]
  <2>1. p \in Pcb /\ In(Q[x], p)
    <3>1. Q[x] \in Seq(Pcb)
      BY DEF Sound, Whole
    <3> QED BY <3>1 DEF In
  <2>2. Placed(st, Q, pid)
    BY DEF Sound
  <2> HIDE DEF p
  <2>3. x = ready_queue \/ x = sleep_queue
    BY DEF Heads
  <2>4. pid[p] # pid0 /\ ~Idle(st, Q, p)
    <3>1. CASE x = ready_queue
      <4>1. st[p] = "READY" /\ pid[p] # pid0
        BY <2>1, <2>2, <3>1 DEF Placed
      <4> QED BY <2>1, <3>1, <4>1 DEF Idle
    <3>2. CASE x = sleep_queue
      <4>1. st[p] = "BLOCKED" /\ pid[p] # pid0
        BY <2>1, <2>2, <3>2 DEF Placed
      <4> QED BY <4>1 DEF Idle
    <3> QED BY <2>3, <3>1, <3>2
  <2> QED BY <1>2, <2>1, <2>4 DEF p
<1>4. \A x \in Heads : Q[x] \in Seq(Pcb)
  BY DEF Sound, Whole
<1>5. \A p \in Pcb : pid[p] # pid0 /\ st[p] # "READY" => pid[p] \in Task /\ a[pid[p]] = p
  BY <1>2 DEF Idle
<1> QED BY <1>1, <1>3, <1>4, <1>5

\* The abstract module's variables, read off the lists.
BarReads ==
  Types /\ (current_running \in Pcb => status[current_running] = "RUNNING") =>
    \A Q, a : Sound(status, list, Q, pid, current_running) /\ Serving(a, status, Q, pid) =>
      BarStatus = StatusOf(a, status) /\ BarQueue = QueueOf(Q, pid)

LEMMA BarIs == BarReads
<1> SUFFICES ASSUME Types, current_running \in Pcb => status[current_running] = "RUNNING",
                    NEW Q, NEW a, Sound(status, list, Q, pid, current_running),
                    Serving(a, status, Q, pid)
             PROVE  BarStatus = StatusOf(a, status) /\ BarQueue = QueueOf(Q, pid)
  BY DEF BarReads
<1>1. ASSUME NEW t \in Task PROVE Active(t) = a[t]
  <2>1. t # pid0
    BY Constants
  <2>2. \A p \in Pcb : pid[p] # pid0 => (Parked(p) <=> Idle(status, Q, p))
    BY LinkedIs
  <2>3. /\ a[t] \in Pcb /\ pid[a[t]] = t /\ ~Idle(status, Q, a[t])
        /\ \A o \in Pcb : pid[o] = t /\ o # a[t] => Idle(status, Q, o)
    BY DEF Serving, Serves
  <2>4. a[t] \in Group(t) /\ ~Parked(a[t])
    BY <2>1, <2>2, <2>3 DEF Group
  <2>5. \A p \in Group(t) : ~Parked(p) => p = a[t]
    BY <2>1, <2>2, <2>3 DEF Group
  <2> QED BY <2>4, <2>5 DEF Active
<1>2. BarStatus = StatusOf(a, status)
  BY <1>1 DEF BarStatus, StatusOf
<1>3. \A x \in Heads : Entries(list, x) = Q[x]
  <2>1. IsFiniteSet(Heads \cup Pcb)
    <3>1. IsFiniteSet(Heads)
      <4>1. IsFiniteSet({} \cup {ready_queue})
        BY FS_EmptySet, FS_AddElement
      <4>2. IsFiniteSet(({} \cup {ready_queue}) \cup {sleep_queue})
        BY <4>1, FS_AddElement
      <4>3. Heads = ({} \cup {ready_queue}) \cup {sleep_queue}
        BY DEF Heads
      <4> QED BY <4>2, <4>3
    <3>2. IsFiniteSet(Pcb)
      BY Constants
    <3> QED BY <3>1, <3>2, FS_Union
  <2>2. Whole(list, Q, Heads, Pcb)
    BY DEF Sound
  <2> QED BY <2>1, <2>2, EntriesIs, Constants
<1>4. BarQueue = QueueOf(Q, pid)
  BY <1>3 DEF BarQueue, QueueOf, Renamed
<1> QED BY <1>2, <1>4

(***************************************************************************)
(* check_sleeping.                                                         *)
(***************************************************************************)
LEMMA ScanRefines ==
  ASSUME NEW st, NEW h, NEW Q, NEW a, pid \in [Proc -> {pid0} \cup Task],
         Sound(st, h, Q, pid, current_running), Serving(a, st, Q, pid),
         NEW wk, NEW bw, NEW k \in Nat, NEW from,
         \A p \in Pcb : In(Q[sleep_queue], p) => bw[pid[p]] = wk[p],
         from = IF k <= Len(Q[sleep_queue]) /\ ticks < MaxTicks
                THEN k ELSE Cardinality(Pcb) + 1,
         Len(Q[sleep_queue]) <= Cardinality(Pcb)
  PROVE  S!check_sleeping(Abs(a, st, Q), bw, k) =
           Abs(a, StatusAfter(st, Q[sleep_queue], wk, from, Len(Q[sleep_queue])),
               Checked(Q, wk, from))
<1> DEFINE q   == Q[sleep_queue]
           r   == Q[ready_queue]
           L   == Len(q)
           C   == Cardinality(Pcb)
           mq  == Renamed(q, pid)
           mr  == Renamed(r, pid)
           due == DueTo(q, wk, from, L)
           all == 1..L
           as  == Abs(a, st, Q)
           st2 == StatusAfter(st, q, wk, from, L)
           Q2  == Checked(Q, wk, from)
           kept == Pick(q, all \ due)
           moved == Pick(q, due)
<1>1. /\ \A t \in Task : a[t] \in Pcb /\ pid[a[t]] = t
      /\ q \in Seq(Pcb) /\ r \in Seq(Pcb)
      /\ \A i \in 1..Len(q) : pid[q[i]] \in Task /\ a[pid[q[i]]] = q[i]
      /\ \A i \in 1..Len(r) : pid[r[i]] \in Task
  <2>1. ready_queue \in Heads /\ sleep_queue \in Heads
    BY Constants
  <2> QED BY <2>1, Servers
<1>2. L \in Nat /\ C \in Nat /\ L <= C /\ DOMAIN q = all
  BY <1>1, Constants
<1>3. as.queue = [x \in Heads |-> Renamed(Q[x], pid)] /\ as.status = StatusOf(a, st)
  BY DEF Abs, QueueOf
<1>4. as.queue[sleep_queue] = mq /\ as.queue[ready_queue] = mr
  BY <1>3, Constants
<1>5. mq \in Seq(Task) /\ Len(mq) = L /\ DOMAIN mq = all /\ \A i \in all : mq[i] = pid[q[i]]
  <2>1. mq \in Seq(Task) /\ Len(mq) = L /\ \A i \in all : mq[i] = pid[q[i]]
    BY <1>1, RenamedIs
  <2> HIDE DEF mq, L
  <2> QED BY <2>1
<1>6. due \in SUBSET all
  BY DEF DueTo
<1> HIDE DEF as, L, C, q, r, mq, mr
<1>7. S!Due(as, bw, k) = due
  <2>1. S!Due(as, bw, k) =
          {i \in DOMAIN as.queue[sleep_queue] :
             (IF i >= k /\ k <= Len(as.queue[sleep_queue]) /\ ticks < MaxTicks
              THEN ticks + 1 ELSE ticks) \div TimeBase >= bw[as.queue[sleep_queue][i]]}
    BY DEF S!Due, S!Late, S!get_timer
  <2>2. due = {i \in all : (IF i >= from THEN ticks + 1 ELSE ticks) \div TimeBase >= wk[q[i]]}
    BY DEF DueTo, get_timer
  <2>3. ASSUME NEW i \in all
        PROVE  /\ bw[mq[i]] = wk[q[i]]
               /\ (i >= k /\ k <= L /\ ticks < MaxTicks) <=> i >= from
    <3>1. q[i] \in Pcb /\ In(q, q[i])
      BY <1>1 DEF In, L
    <3>2. bw[mq[i]] = wk[q[i]]
      BY <1>5, <3>1 DEF q
    <3>3. from = IF k <= L /\ ticks < MaxTicks THEN k ELSE C + 1
      BY DEF L, C, q
    <3>4. i \in Nat /\ i <= C /\ ~(i >= C + 1)
      BY <1>2
    <3> QED BY <3>2, <3>3, <3>4
  <2> HIDE DEF all
  <2> QED BY <1>4, <1>5, <2>1, <2>2, <2>3
<1> HIDE DEF due
<1>8. /\ S!Pick(mq, all \ due) = Renamed(kept, pid)
      /\ S!Pick(mq, due) = Renamed(moved, pid)
      /\ moved \in Seq(Pcb) /\ \A i \in 1..Len(moved) : pid[moved[i]] \in Task
  BY <1>1, <1>6, RenamedPick DEF mq, L
<1>9. mr \o Renamed(moved, pid) = Renamed(r \o moved, pid)
  <2> HIDE DEF moved
  <2> QED BY <1>1, <1>8, RenamedConcat DEF mr
<1>10. /\ Q2 = [x \in Heads |-> IF x = sleep_queue THEN kept ELSE r \o moved]
  BY DEF Checked, Kept, Moved, kept, moved, all, due, L, q, r
<1>11. [as.queue EXCEPT ![sleep_queue] = S!Pick(mq, DOMAIN mq \ due),
                        ![ready_queue] = @ \o S!Pick(mq, due)] = QueueOf(Q2, pid)
  <2> HIDE DEF kept, moved
  <2>1. [as.queue EXCEPT ![sleep_queue] = S!Pick(mq, DOMAIN mq \ due),
                        ![ready_queue] = @ \o S!Pick(mq, due)]
        = [x \in Heads |-> IF x = ready_queue THEN Renamed(r \o moved, pid) ELSE Renamed(kept, pid)]
    <3>1. Heads = {ready_queue, sleep_queue} /\ ready_queue # sleep_queue
      BY Constants DEF Heads
    <3>2. as.queue \in [Heads -> {as.queue[x] : x \in Heads}]
      BY <1>3
    <3> QED BY <1>3, <1>4, <1>5, <1>8, <1>9, <3>1
  <2>2. QueueOf(Q2, pid) = [x \in Heads |-> IF x = ready_queue THEN Renamed(r \o moved, pid) ELSE Renamed(kept, pid)]
    <3>1. Heads = {ready_queue, sleep_queue} /\ ready_queue # sleep_queue
      BY Constants DEF Heads
    <3> QED BY <1>10, <3>1 DEF QueueOf
  <2> QED BY <2>1, <2>2
<1>12. [p \in S!Proc |-> IF \E i \in due : mq[i] = p THEN "READY" ELSE as.status[p]]
       = StatusOf(a, st2)
  <2>1. S!Proc = {pid0} \cup Task
    BY SameConstants
  <2>2. ASSUME NEW t \in Task
        PROVE  (IF \E i \in due : mq[i] = t THEN "READY" ELSE as.status[t]) = st2[a[t]]
    <3>1. as.status[t] = st[a[t]]
      BY <1>3, Constants DEF StatusOf
    <3>2. st2[a[t]] = IF \E i \in due : q[i] = a[t] THEN "READY" ELSE st[a[t]]
      BY <1>1 DEF StatusAfter, due, Proc
    <3>3. ASSUME NEW i \in due PROVE q[i] = a[t] <=> mq[i] = t
      <4>1. i \in all /\ i \in 1..Len(q)
        BY <1>6 DEF L
      <4>2. mq[i] = pid[q[i]] /\ a[pid[q[i]]] = q[i] /\ pid[a[t]] = t
        BY <1>1, <1>5, <4>1
      <4> QED BY <4>2
    <3> QED BY <3>1, <3>2, <3>3
  <2>3. (IF \E i \in due : mq[i] = pid0 THEN "READY" ELSE as.status[pid0]) = st2[pid0]
    <3>1. as.status[pid0] = st[pid0]
      BY <1>3 DEF StatusOf
    <3>2. st2[pid0] = IF \E i \in due : q[i] = pid0 THEN "READY" ELSE st[pid0]
      BY DEF StatusAfter, due, Proc
    <3>3. \A i \in all : q[i] \in Pcb /\ mq[i] \in Task
      BY <1>1, <1>5 DEF L
    <3>4. \A i \in due : q[i] # pid0 /\ mq[i] # pid0
      BY <1>6, <3>3, Constants
    <3> QED BY <3>1, <3>2, <3>4
  <2> DEFINE up(p) == IF \E i \in due : mq[i] = p THEN "READY" ELSE as.status[p]
             to(p) == IF p = pid0 THEN st2[pid0] ELSE st2[a[p]]
  <2> HIDE DEF st2
  <2>4. \A p \in {pid0} \cup Task : up(p) = to(p)
    BY <2>2, <2>3
  <2>5. [p \in S!Proc |-> up(p)] = [p \in {pid0} \cup Task |-> up(p)]
    BY <2>1
  <2>6. StatusOf(a, st2) = [p \in {pid0} \cup Task |-> to(p)]
    BY DEF StatusOf
  <2> HIDE DEF up, to
  <2>7. [p \in S!Proc |-> up(p)] = StatusOf(a, st2)
    BY <2>4, <2>5, <2>6
  <2> QED BY <2>7 DEF up
<1>13. S!check_sleeping(as, bw, k) =
         [status |-> [p \in S!Proc |-> IF \E i \in due : mq[i] = p
                                       THEN "READY" ELSE as.status[p]],
          queue  |-> [as.queue EXCEPT ![sleep_queue] = S!Pick(mq, DOMAIN mq \ due),
                                      ![ready_queue] = @ \o S!Pick(mq, due)]]
  BY <1>4, <1>7 DEF S!check_sleeping
<1> HIDE DEF st2, Q2
<1>14. S!check_sleeping(as, bw, k) = [status |-> StatusOf(a, st2), queue |-> QueueOf(Q2, pid)]
  BY <1>11, <1>12, <1>13
<1> QED BY <1>14 DEF Abs, as, st2, Q2, q, L

(***************************************************************************)
(* The rest of do_scheduler.                                               *)
(***************************************************************************)
\* S!Dispatch on what c becomes c2, the statuses st2 and the queues q2.
Switched(s, c, c2, st2, q2) ==
  LET next == Head(s.queue[ready_queue])
  IN  \/ s.queue[ready_queue] = << >> /\ st2 = s.status /\ q2 = s.queue /\ c2 = c
      \/ /\ s.queue[ready_queue] # << >> /\ c2 = next
         /\ \/ /\ s.status[c] = "RUNNING"
               /\ st2 = [s.status EXCEPT ![c] = "READY", ![next] = "RUNNING"]
               /\ q2 = [s.queue EXCEPT ![ready_queue] = Tail(Append(@, c))]
            \/ /\ s.status[c] # "RUNNING"
               /\ st2 = [s.status EXCEPT ![next] = "RUNNING"]
               /\ q2 = [s.queue EXCEPT ![ready_queue] = Tail(@)]

\* S!do_scheduler, with what it leaves.
Passes(s, bw, tm) ==
  \E i \in 1..(Len(s.queue[sleep_queue]) + 1) :
    /\ ticks' = IF S!Late(s, i) THEN ticks + 1 ELSE ticks
    /\ timer' = IF S!Late(s, i) /\ tm > 0 THEN tm - 1 ELSE tm
    /\ Switched(S!check_sleeping(s, bw, i), pid[current_running], pid'[current_running'],
                BarStatus', BarQueue')

LEMMA DispatchRefines ==
  ASSUME NEW st, NEW h, NEW Q, NEW Q2, NEW a, pid \in [Proc -> {pid0} \cup Task],
         pid[pid0] = pid0, current_running \in Proc,
         Sound(st, h, Q, pid, current_running), Serving(a, st, Q, pid),
         Q2 \in [Heads -> Seq(Pcb)], Dispatched(st, Q, Q2)
  PROVE  Switched(Abs(a, st, Q), pid[current_running], pid[current_running'],
                  StatusOf(a, status'), QueueOf(Q2, pid))
<1> DEFINE q   == Q[sleep_queue]
           r   == Q[ready_queue]
           mr  == Renamed(r, pid)
           as  == Abs(a, st, Q)
           pre == current_running
           c   == pid[pre]
           runs == st[pre] = "RUNNING"
           next == r[1]
           n    == pid[next]
           st2  == StatusOf(a, status')
           q2   == QueueOf(Q2, pid)
<1>1. /\ \A t \in Task : a[t] \in Pcb /\ pid[a[t]] = t
      /\ r \in Seq(Pcb) /\ Len(r) \in Nat
      /\ \A i \in 1..Len(r) : pid[r[i]] \in Task /\ a[pid[r[i]]] = r[i]
      /\ \A p \in Pcb : pid[p] # pid0 /\ st[p] # "READY" => pid[p] \in Task /\ a[pid[p]] = p
  <2>1. ready_queue \in Heads
    BY Constants
  <2>2. r \in Seq(Pcb)
    BY <2>1, Servers
  <2> QED BY <2>1, <2>2, Servers
<1>2. /\ st \in [Proc -> Statuses] /\ st[pid0] = "BLOCKED"
      /\ \A p \in Pcb : pid[p] = pid0 => st[p] = "BLOCKED"
  BY DEF Sound, Placed
<1>3. runs => pre \in Pcb /\ c \in Task /\ a[c] = pre
  <2> SUFFICES ASSUME runs PROVE pre \in Pcb /\ c \in Task /\ a[c] = pre
    OBVIOUS
  <2>1. pre \in Pcb
    BY <1>2 DEF Proc
  <2>2. pid[pre] # pid0
    BY <1>2, <2>1
  <2> QED BY <1>1, <2>1, <2>2
<1>4. /\ as.queue = [x \in Heads |-> Renamed(Q[x], pid)] /\ as.status = StatusOf(a, st)
      /\ as.queue[ready_queue] = mr
      /\ q2 = [x \in Heads |-> Renamed(Q2[x], pid)]
  <2>1. as.queue = [x \in Heads |-> Renamed(Q[x], pid)] /\ as.status = StatusOf(a, st)
    BY DEF Abs, QueueOf
  <2> QED BY <2>1, Constants DEF QueueOf
<1>5. mr \in Seq(Task) /\ Len(mr) = Len(r)
  BY <1>1, RenamedIs
<1>6. as.status \in [{pid0} \cup Task -> Statuses]
  <2>1. \A t \in Task : st[a[t]] \in Statuses
    BY <1>1, <1>2 DEF Proc
  <2>2. st[pid0] \in Statuses
    BY <1>2 DEF Proc
  <2>3. as.status = [t \in {pid0} \cup Task |-> IF t = pid0 THEN st[pid0] ELSE st[a[t]]]
    BY <1>4 DEF StatusOf
  <2> QED BY <2>1, <2>2, <2>3
<1>7. /\ \A t \in Task : as.status[t] = st[a[t]]
      /\ as.status[pid0] = st[pid0]
  BY <1>4, Constants DEF StatusOf
<1>8. as.status[c] = "RUNNING" <=> runs
  <2>1. CASE runs
    BY <1>3, <1>7, <2>1
  <2>2. CASE ~runs
    <3> SUFFICES ASSUME as.status[c] = "RUNNING" PROVE FALSE
      BY <2>2
    <3>1. c \in Task
      <4>1. c \in {pid0} \cup Task
        OBVIOUS
      <4> QED BY <1>2, <1>7, <4>1
    <3>2. st[a[c]] = "RUNNING" /\ a[c] \in Proc
      BY <1>1, <1>7, <3>1 DEF Proc
    <3>3. a[c] = pre
      BY <3>2 DEF Sound
    <3> QED BY <2>2, <3>2, <3>3
  <2> QED BY <2>1, <2>2
<1> HIDE DEF as, q2
<1>9. CASE Len(r) = 0
  <2>1. status' = st /\ Q2 = Q /\ current_running' = pre
    BY <1>9 DEF Dispatched
  <2>2. mr = << >>
    BY <1>5, <1>9
  <2>3. st2 = as.status /\ q2 = as.queue
    BY <1>4, <2>1
  <2> QED BY <1>4, <2>1, <2>2, <2>3 DEF Switched, as, q2
<1>10. CASE 1 \in 1..Len(r)
  <2> DEFINE r1 == IF runs THEN Append(r, pre) ELSE r
             mr1 == IF runs THEN Append(mr, c) ELSE mr
  <2>1. /\ current_running' = next
        /\ status' = [st EXCEPT ![pre] = IF runs THEN "READY" ELSE @, ![next] = "RUNNING"]
        /\ Q2[ready_queue] = Cut(r1, 1)
        /\ Q2[sleep_queue] = q
    BY <1>10 DEF Dispatched
  <2>2. next \in Pcb /\ n \in Task /\ a[n] = next
    BY <1>1, <1>10
  <2>3. /\ r1 \in Seq(Pcb) /\ 1 \in 1..Len(r1) /\ \A i \in 1..Len(r1) : pid[r1[i]] \in Task
        /\ Renamed(r1, pid) = mr1
    <3>1. CASE runs
      <4> DEFINE u == Append(r, pre)
      <4>1. /\ u \in Seq(Pcb) /\ Len(u) = Len(r) + 1
            /\ \A i \in 1..Len(r) : u[i] = r[i]
            /\ u[Len(r) + 1] = pre
        BY <1>1, <1>3, <3>1, AppendProperties
      <4>2. Renamed(u, pid) = Append(mr, c)
        BY <1>1, <1>3, <3>1, RenamedAppend
      <4> HIDE DEF u
      <4>3. \A i \in 1..Len(u) : pid[u[i]] \in Task
        <5>1. \A i \in 1..Len(u) : i \in 1..Len(r) \/ i = Len(r) + 1
          BY <1>1, <4>1
        <5> QED BY <1>1, <1>3, <3>1, <4>1, <5>1
      <4>4. 1 \in 1..Len(u)
        BY <1>1, <4>1
      <4> QED BY <3>1, <4>1, <4>2, <4>3, <4>4 DEF u
    <3>2. CASE ~runs
      BY <1>1, <1>10, <3>2
    <3> QED BY <3>1, <3>2
  <2> HIDE DEF r1, mr1
  <2>4. Renamed(Q2[ready_queue], pid) = Tail(mr1)
    BY <2>1, <2>3, RenamedTail
  <2>5. mr # << >> /\ Head(mr) = n
    BY <1>1, <1>10, RenamedTail
  <2>6. q2 = [as.queue EXCEPT ![ready_queue] = Tail(mr1)]
    <3>1. Heads = {ready_queue, sleep_queue} /\ ready_queue # sleep_queue
      BY Constants DEF Heads
    <3>2. Renamed(Q2[sleep_queue], pid) = Renamed(Q[sleep_queue], pid)
      BY <2>1
    <3> QED BY <1>4, <2>4, <3>1, <3>2
  <2>7. /\ status' \in [Proc -> Statuses]
        /\ \A p \in Proc : status'[p] = IF p = next THEN "RUNNING"
                                        ELSE IF p = pre /\ runs THEN "READY" ELSE st[p]
    <3>1. next \in Proc
      BY <2>2 DEF Proc
    <3> QED BY <1>2, <2>1, <3>1 DEF Statuses
  <2> DEFINE as2(t) == IF t = n THEN "RUNNING" ELSE IF t = c /\ runs THEN "READY" ELSE as.status[t]
  <2>8. \A t \in Task : status'[a[t]] = as2(t)
    <3> SUFFICES ASSUME NEW t \in Task PROVE status'[a[t]] = as2(t)
      OBVIOUS
    <3>1. a[t] \in Proc /\ pid[a[t]] = t
      BY <1>1 DEF Proc
    <3>2. a[t] = next <=> t = n
      BY <2>2, <3>1
    <3>3. runs => (a[t] = pre <=> t = c)
      BY <1>3, <3>1
    <3> QED BY <1>7, <2>7, <3>1, <3>2, <3>3
  <2>9. status'[pid0] = as2(pid0)
    <3>1. pid0 # n /\ pid0 # next /\ (runs => pid0 # pre /\ pid0 # c)
      BY <1>3, <2>2, Constants
    <3>2. pid0 \in Proc
      BY DEF Proc
    <3> QED BY <1>7, <2>7, <3>1, <3>2
  <2>10. st2 = [t \in {pid0} \cup Task |-> as2(t)]
    <3>1. st2 = [t \in {pid0} \cup Task |-> IF t = pid0 THEN status'[pid0] ELSE status'[a[t]]]
      BY DEF StatusOf
    <3> HIDE DEF as2, st2
    <3> QED BY <2>8, <2>9, <3>1
  <2> HIDE DEF st2
  <2>11. n \in {pid0} \cup Task /\ c \in {pid0} \cup Task
    BY <2>2
  <2> HIDE DEF n, c
  <2>12. CASE runs
    <3>1. st2 = [as.status EXCEPT ![c] = "READY", ![n] = "RUNNING"]
      BY <1>6, <2>10, <2>11, <2>12
    <3>2. q2 = [as.queue EXCEPT ![ready_queue] = Tail(Append(@, c))]
      BY <1>4, <2>6, <2>12 DEF mr1
    <3> QED BY <1>4, <1>8, <2>1, <2>5, <2>12, <3>1, <3>2 DEF Switched, as, q2, n, c, st2
  <2>13. CASE ~runs
    <3>1. st2 = [as.status EXCEPT ![n] = "RUNNING"]
      BY <1>6, <2>10, <2>11, <2>13
    <3>2. q2 = [as.queue EXCEPT ![ready_queue] = Tail(@)]
      BY <1>4, <2>6, <2>13 DEF mr1
    <3> QED BY <1>4, <1>8, <2>1, <2>5, <2>13, <3>1, <3>2 DEF Switched, as, q2, n, c, st2
  <2> QED BY <2>12, <2>13
<1> QED BY <1>1, <1>9, <1>10

LEMMA TimerGrows ==
  ASSUME NEW i \in Nat, NEW j \in Nat, i <= j
  PROVE  get_timer(i) \in Nat /\ get_timer(i) <= get_timer(j)
<1>1. TimeBase \in Nat \ {0}
  BY ThreadsAssumption
<1>2. \A n \in Nat : /\ get_timer(n) \in Nat
                     /\ n = TimeBase * get_timer(n) + (n % TimeBase)
                     /\ (n % TimeBase) \in 0..(TimeBase - 1)
  BY <1>1 DEF get_timer
<1> DEFINE a == get_timer(i)
           b == get_timer(j)
<1>3. a \in Nat /\ b \in Nat /\ i >= TimeBase * a /\ j < TimeBase * b + TimeBase
  <2>1. /\ a \in Nat /\ i = TimeBase * a + (i % TimeBase) /\ (i % TimeBase) \in 0..(TimeBase - 1)
    BY <1>2
  <2>2. /\ b \in Nat /\ j = TimeBase * b + (j % TimeBase) /\ (j % TimeBase) \in 0..(TimeBase - 1)
    BY <1>2
  <2> HIDE DEF a, b
  <2> QED BY <1>1, <2>1, <2>2
<1> HIDE DEF a, b
<1>4. ~(b < a)
  <2> SUFFICES ASSUME b < a PROVE FALSE
    OBVIOUS
  <2>1. b + 1 <= a
    BY <1>3
  <2>2. TimeBase * (b + 1) <= TimeBase * a
    BY <1>1, <1>3, <2>1
  <2>3. TimeBase * (b + 1) = TimeBase * b + TimeBase
    BY <1>1, <1>3
  <2>4. TimeBase * a \in Nat /\ TimeBase * b \in Nat
    BY <1>1, <1>3
  <2> QED BY <1>1, <1>3, <2>2, <2>3, <2>4
<1> QED BY <1>3, <1>4 DEF a, b

(***************************************************************************)
(* What do_scheduler does, in terms of the lists it finds.                 *)
(***************************************************************************)
FromRound(Q, k) ==
  IF k <= Len(Q[sleep_queue]) /\ ticks < MaxTicks THEN k ELSE Cardinality(Pcb) + 1

ScheduledFrom(st, Q, wk, tm, k, st1, h1, Q2) ==
  LET q    == Q[sleep_queue]
      late == k <= Len(q) /\ ticks < MaxTicks
      Q1   == Checked(Q, wk, FromRound(Q, k))
  IN  /\ ticks' = IF late THEN ticks + 1 ELSE ticks
      /\ timer' = IF late /\ tm > 0 THEN tm - 1 ELSE tm
      /\ st1 = StatusAfter(st, q, wk, FromRound(Q, k), Len(q))
      /\ Sound(st1, h1, Q1, pid, current_running)
      /\ Sound(status', list', Q2, pid, current_running')
      /\ Dispatched(st1, Q1, Q2)
      /\ \A p \in Pcb : Idle(st1, Q1, p) <=> Idle(st, Q, p)
      /\ \A p \in Pcb : Idle(status', Q2, p) <=> Idle(st, Q, p)

LEMMA SchedulerDetail ==
  ASSUME NEW s, NEW Q, Sound(s.status, s.list, Q, pid, current_running),
         current_running \in Proc, pid \in [Proc -> {pid0} \cup Task], Spinners # {},
         NEW wk, NEW tm, do_scheduler(s, wk, tm)
  PROVE  \E k \in 1..(Len(Q[sleep_queue]) + 1) : \E st1, h1, Q2 :
           ScheduledFrom(s.status, Q, wk, tm, k, st1, h1, Q2)
<1> DEFINE L == Len(Entries(s.list, sleep_queue))
           late(k) == k <= L /\ ticks < MaxTicks
           from(k) == IF late(k) THEN k ELSE Cardinality(Pcb) + 1
           end(k)  == check_sleeping(s, wk, from(k)).s
<1>1. PICK k \in 1..(L + 1) :
         /\ ticks' = IF late(k) THEN ticks + 1 ELSE ticks
         /\ timer' = IF late(k) /\ tm > 0 THEN tm - 1 ELSE tm
         /\ Dispatch(end(k))
  BY DEF do_scheduler
<1>2. Entries(s.list, sleep_queue) = Q[sleep_queue]
  <2>1. IsFiniteSet(Heads \cup Pcb)
    <3>1. IsFiniteSet({} \cup {ready_queue})
      BY FS_EmptySet, FS_AddElement
    <3>2. IsFiniteSet(({} \cup {ready_queue}) \cup {sleep_queue})
      BY <3>1, FS_AddElement
    <3>3. Heads = ({} \cup {ready_queue}) \cup {sleep_queue}
      BY DEF Heads
    <3>4. IsFiniteSet(Heads) /\ IsFiniteSet(Pcb)
      BY <3>2, <3>3, Constants
    <3> QED BY <3>4, FS_Union
  <2>2. Whole(s.list, Q, Heads, Pcb)
    BY DEF Sound
  <2> QED BY <2>1, <2>2, EntriesIs, Constants
<1>3. from(k) = FromRound(Q, k)
  BY <1>2 DEF FromRound
<1> DEFINE mid == end(k)
           Q1  == Checked(Q, wk, FromRound(Q, k))
           F   == from(k)
<1>4. /\ Sound(mid.status, mid.list, Q1, pid, current_running)
      /\ mid.status = StatusAfter(s.status, Q[sleep_queue], wk, FromRound(Q, k), Len(Q[sleep_queue]))
      /\ \A p \in Pcb : Idle(mid.status, Q1, p) <=> Idle(s.status, Q, p)
  <2> HIDE DEF from
  <2>1. /\ Sound(mid.status, mid.list, Checked(Q, wk, from(k)), pid, current_running)
        /\ mid.status = StatusAfter(s.status, Q[sleep_queue], wk, from(k), Len(Q[sleep_queue]))
        /\ \A p \in Pcb : Idle(mid.status, Checked(Q, wk, from(k)), p) <=> Idle(s.status, Q, p)
    BY ScanSound
  <2> QED BY <1>3, <2>1
<1>5. Dispatch(mid)
  BY <1>1
<1> HIDE DEF mid, Q1
<1>6. PICK Q2 : /\ Sound(status', list', Q2, pid, current_running')
                /\ \A p \in Pcb : Idle(status', Q2, p) <=> Idle(mid.status, Q1, p)
                /\ Dispatched(mid.status, Q1, Q2)
  BY <1>4, <1>5, DispatchSound
<1>7. /\ ticks' = IF k <= Len(Q[sleep_queue]) /\ ticks < MaxTicks THEN ticks + 1 ELSE ticks
      /\ timer' = IF (k <= Len(Q[sleep_queue]) /\ ticks < MaxTicks) /\ tm > 0 THEN tm - 1 ELSE tm
      /\ k \in 1..(Len(Q[sleep_queue]) + 1)
  BY <1>1, <1>2
<1>8. ScheduledFrom(s.status, Q, wk, tm, k, mid.status, mid.list, Q2)
  BY <1>4, <1>6, <1>7 DEF ScheduledFrom, Q1
<1> QED BY <1>7, <1>8

\* Who is awake afterwards was awake before, or his time has come.
LEMMA WhoWakes ==
  ASSUME NEW st, NEW h, NEW Q, NEW wk \in [Pcb -> Nat], NEW tm,
         NEW k \in 1..(Len(Q[sleep_queue]) + 1),
         NEW st1, NEW h1, NEW Q2, ticks \in Nat, current_running \in Proc,
         Sound(st, h, Q, pid, current_running),
         ScheduledFrom(st, Q, wk, tm, k, st1, h1, Q2), NEW p \in Pcb
  PROVE  /\ ticks' \in Nat /\ ticks <= ticks'
         /\ status'[p] = "BLOCKED" => st[p] = "BLOCKED"
         /\ status'[p] # "BLOCKED" => st[p] # "BLOCKED" \/ get_timer(ticks') >= wk[p]
<1> DEFINE q == Q[sleep_queue]
           L == Len(q)
           C == Cardinality(Pcb)
           F == FromRound(Q, k)
           late == k <= L /\ ticks < MaxTicks
<1>1. /\ ticks' = IF late THEN ticks + 1 ELSE ticks
      /\ st1 = StatusAfter(st, q, wk, F, L)
      /\ Dispatched(st1, Checked(Q, wk, F), Q2)
      /\ Sound(st1, h1, Checked(Q, wk, F), pid, current_running)
  BY DEF ScheduledFrom
<1>2. ticks' \in Nat /\ ticks <= ticks'
  <2> HIDE DEF late
  <2> QED BY <1>1
<1>3. L \in Nat /\ L <= C /\ C \in Nat /\ \A i \in 1..L : q[i] \in Pcb
  <2>1. q \in Seq(Pcb) /\ \A i, j \in 1..L : q[i] = q[j] => i = j
    BY ReadingIs, Constants DEF Sound
  <2>2. q \in [1..L -> Pcb] /\ L \in Nat
    BY <2>1
  <2> HIDE DEF q, L
  <2> QED BY <2>1, <2>2, Constants, NoLongerThan
<1>4. F = IF late THEN k ELSE C + 1
  BY DEF FromRound
<1> HIDE DEF F, L, C, q
<1>5. ASSUME NEW i \in DueTo(q, wk, F, L)
      PROVE  get_timer(ticks') >= wk[q[i]]
  <2>1. i \in 1..L /\ get_timer(IF i >= F THEN ticks + 1 ELSE ticks) >= wk[q[i]]
    BY DEF DueTo
  <2>2. (i >= F) => late
    BY <1>3, <1>4, <2>1
  <2>3. CASE i >= F
    <3>1. ticks' = ticks + 1
      BY <1>1, <2>2, <2>3
    <3> QED BY <2>1, <2>3, <3>1
  <2>4. CASE ~(i >= F)
    <3>1. CASE late
      <4>1. i < k /\ k \in Nat
        BY <1>3, <1>4, <2>1, <2>4, <3>1
      <4>2. get_timer(ticks) <= get_timer(ticks') /\ get_timer(ticks) \in Nat
        BY <1>2, TimerGrows
      <4>3. get_timer(ticks') \in Nat
        BY <1>2, TimerGrows
      <4>4. get_timer(ticks) >= wk[q[i]]
        BY <2>1, <2>4
      <4>5. wk[q[i]] \in Nat
        BY <1>3, <2>1
      <4> QED BY <4>2, <4>3, <4>4, <4>5
    <3>2. CASE ~late
      BY <1>1, <2>1, <2>4, <3>2
    <3> QED BY <3>1, <3>2
  <2> QED BY <2>3, <2>4
<1>6. p \in Proc /\ st \in [Proc -> Statuses]
  BY DEF Proc, Sound
<1>7. /\ st1[p] = "BLOCKED" => st[p] = "BLOCKED"
      /\ st1[p] # "BLOCKED" => st[p] # "BLOCKED" \/ get_timer(ticks') >= wk[p]
  <2>1. st1[p] = IF \E i \in DueTo(q, wk, F, L) : q[i] = p THEN "READY" ELSE st[p]
    BY <1>1, <1>6 DEF StatusAfter
  <2> QED BY <1>5, <2>1
<1>8. status'[p] = "BLOCKED" <=> st1[p] = "BLOCKED"
  <2> DEFINE Q1 == Checked(Q, wk, F)
             r == Q1[ready_queue]
  <2>1. Sound(st1, h1, Q1, pid, current_running) /\ Dispatched(st1, Q1, Q2)
    BY <1>1
  <2> HIDE DEF Q1
  <2>2. CASE Len(r) = 0 /\ status' = st1
    BY <2>2
  <2>3. CASE /\ 1 \in 1..Len(r)
             /\ status' = [st1 EXCEPT
                  ![current_running] = IF st1[current_running] = "RUNNING" THEN "READY" ELSE @,
                  ![r[1]] = "RUNNING"]
    <3>1. st1 \in [Proc -> Statuses] /\ r \in Seq(Pcb) /\ Placed(st1, Q1, pid)
      BY <2>1, ReadingIs DEF Sound
    <3>2. r[1] \in Pcb /\ In(r, r[1])
      BY <2>3, <3>1 DEF In
    <3>3. st1[r[1]] = "READY"
      BY <3>1, <3>2 DEF Placed
    <3> HIDE DEF r
    <3>4. r[1] \in Proc
      BY <3>2 DEF Proc
    <3> DEFINE n == r[1]
    <3> HIDE DEF n
    <3>5. status'[p] = IF p = n THEN "RUNNING"
                       ELSE IF p = current_running /\ st1[p] = "RUNNING" THEN "READY" ELSE st1[p]
      BY <1>6, <2>3, <3>1, <3>4 DEF n
    <3> QED BY <3>3, <3>5 DEF n
  <2> QED BY <2>1, <2>2, <2>3 DEF Dispatched, r
<1> QED BY <1>2, <1>7, <1>8

LEMMA SameServing ==
  ASSUME NEW a, NEW st, NEW Q, NEW pd, NEW st2, NEW Q2, Serving(a, st, Q, pd),
         \A p \in Pcb : Idle(st2, Q2, p) <=> Idle(st, Q, p)
  PROVE  Serving(a, st2, Q2, pd)
BY DEF Serving, Serves

LEMMA SchedulerRefines ==
  ASSUME NEW s, NEW Q, NEW a, Spinners # {}, Types, Types',
         current_running' \in Pcb => status'[current_running'] = "RUNNING", pid' = pid,
         Sound(s.status, s.list, Q, pid, current_running), Serving(a, s.status, Q, pid),
         NEW wk, NEW bw, \A p \in Pcb : In(Q[sleep_queue], p) => bw[pid[p]] = wk[p],
         NEW tm, do_scheduler(s, wk, tm)
  PROVE  Passes(Abs(a, s.status, Q), bw, tm)
<1> DEFINE L  == Len(Q[sleep_queue])
           as == Abs(a, s.status, Q)
           after(k) == S!check_sleeping(as, bw, k)
<1>1. pid \in [Proc -> {pid0} \cup Task] /\ current_running \in Proc /\ pid[pid0] = pid0
  BY DEF Types
<1>2. PICK k \in 1..(L + 1) : \E st1, h1, Q2 :
        ScheduledFrom(s.status, Q, wk, tm, k, st1, h1, Q2)
  BY <1>1, SchedulerDetail
<1>3. PICK st1, h1, Q2 : ScheduledFrom(s.status, Q, wk, tm, k, st1, h1, Q2)
  BY <1>2
<1> DEFINE F  == FromRound(Q, k)
           Q1 == Checked(Q, wk, F)
<1>4. /\ ticks' = IF k <= L /\ ticks < MaxTicks THEN ticks + 1 ELSE ticks
      /\ timer' = IF (k <= L /\ ticks < MaxTicks) /\ tm > 0 THEN tm - 1 ELSE tm
      /\ st1 = StatusAfter(s.status, Q[sleep_queue], wk, F, L)
      /\ Sound(st1, h1, Q1, pid, current_running)
      /\ Sound(status', list', Q2, pid, current_running')
      /\ Dispatched(st1, Q1, Q2)
      /\ \A p \in Pcb : Idle(st1, Q1, p) <=> Idle(s.status, Q, p)
      /\ \A p \in Pcb : Idle(status', Q2, p) <=> Idle(s.status, Q, p)
  BY <1>3 DEF ScheduledFrom
<1>5. L \in Nat /\ L <= Cardinality(Pcb) /\ Len(as.queue[sleep_queue]) = L
  <2> DEFINE q == Q[sleep_queue]
  <2>1. /\ q \in Seq(Pcb) /\ \A i, j \in 1..Len(q) : q[i] = q[j] => i = j
        /\ \A i \in 1..Len(q) : pid[q[i]] \in Task
    BY <1>1, ReadingIs, Servers, Constants DEF Sound
  <2>2. as.queue[sleep_queue] = Renamed(q, pid)
    BY Constants DEF Abs, QueueOf
  <2>3. Len(Renamed(q, pid)) = Len(q)
    BY <1>1, <2>1, RenamedIs
  <2> DEFINE n == Len(q)
  <2>4. q \in [1..n -> Pcb] /\ n \in Nat
    BY <2>1
  <2>5. \A i, j \in 1..n : q[i] = q[j] => i = j
    BY <2>1
  <2> HIDE DEF q, n
  <2>6. n <= Cardinality(Pcb)
    BY <2>4, <2>5, Constants, NoLongerThan
  <2> QED BY <2>2, <2>3, <2>4, <2>6 DEF q, n
<1>6. k \in Nat
  BY <1>2, <1>5
<1>7. F = IF k <= L /\ ticks < MaxTicks THEN k ELSE Cardinality(Pcb) + 1
  BY DEF FromRound
<1> HIDE DEF F
<1>8. after(k) = Abs(a, st1, Q1)
  BY <1>1, <1>4, <1>5, <1>6, <1>7, ScanRefines
<1> HIDE DEF Q1, as, after, L
<1>9. Serving(a, st1, Q1, pid) /\ Serving(a, status', Q2, pid)
  BY <1>4, SameServing
<1>10. Q2 \in [Heads -> Seq(Pcb)]
  BY <1>4 DEF Sound, Whole
<1>11. Switched(Abs(a, st1, Q1), pid[current_running], pid[current_running'],
                StatusOf(a, status'), QueueOf(Q2, pid))
  BY <1>1, <1>4, <1>9, <1>10, DispatchRefines
<1>12. BarStatus' = StatusOf(a, status') /\ BarQueue' = QueueOf(Q2, pid)
  <2>1. BarReads'
    BY BarIs, PTL
  <2>2. \A X, b : Sound(status', list', X, pid', current_running') /\ Serving(b, status', X, pid') =>
          BarStatus' = StatusOf(b, status') /\ BarQueue' = QueueOf(X, pid')
    BY <2>1 DEF BarReads
  <2> QED BY <1>4, <1>9, <2>2
<1>13. Switched(after(k), pid[current_running], pid'[current_running'], BarStatus', BarQueue')
  <2>1. pid'[current_running'] = pid[current_running']
    OBVIOUS
  <2> QED BY <1>8, <1>11, <1>12, <2>1
<1>14. /\ ticks' = IF S!Late(as, k) THEN ticks + 1 ELSE ticks
       /\ timer' = IF S!Late(as, k) /\ tm > 0 THEN tm - 1 ELSE tm
  BY <1>4, <1>5 DEF S!Late
<1>15. k \in 1..(Len(as.queue[sleep_queue]) + 1)
  BY <1>2, <1>5
<1>16. Passes(as, bw, tm)
  BY <1>13, <1>14, <1>15 DEF Passes, after
<1> QED BY <1>16 DEF as

-----------------------------------------------------------------------
(***************************************************************************)
(* Wake-up times.  A process has the latest of its threads' wake-up times. *)
(* It is the one a sleeping thread waits for: while one thread sleeps, the *)
(* others are idle, and whoever is idle has reached his own.               *)
(***************************************************************************)
WakeOK(st, w, pd, tk) ==
  /\ \A p \in Pcb : st[p] # "BLOCKED" => w[p] <= get_timer(tk)
  /\ \A p \in Pcb : pd[p] = pid0 => w[p] = 0
  /\ \A p, o \in Pcb : pd[p] # pid0 /\ pd[o] = pd[p] /\ st[p] = "BLOCKED" => w[o] <= w[p]
  /\ \A t \in Task : \E p \in Pcb : pd[p] = t /\ \A o \in Pcb : pd[o] = t => w[o] <= w[p]

WakeInv == WakeOK(status, wakeup_time, pid, ticks)

WakeOf(w, pd) == [t \in Task |-> Max({w[p] : p \in {o \in Pcb : pd[o] = t}})]

LEMMA BarWakeIs == BarWake = WakeOf(wakeup_time, pid)
BY DEF BarWake, WakeOf, Group

LEMMA LatestIs ==
  ASSUME NEW w \in [Pcb -> Nat], NEW pd, NEW t \in Task, NEW p \in Pcb, pd[p] = t,
         \A o \in Pcb : pd[o] = t => w[o] <= w[p]
  PROVE  WakeOf(w, pd)[t] = w[p]
<1> DEFINE W == {w[o] : o \in {x \in Pcb : pd[x] = t}}
           v == w[p]
<1>1. WakeOf(w, pd)[t] = Max(W)
  BY DEF WakeOf
<1>2. v \in W /\ v \in Nat /\ \A y \in W : y \in Nat /\ v >= y
  OBVIOUS
<1> HIDE DEF W, v
<1>3. \A x \in W : (\A y \in W : x >= y) => x = v
  BY <1>2
<1>4. Max(W) = v
  BY <1>2, <1>3 DEF Max
<1> QED BY <1>1, <1>4 DEF v

\* A step that ends in do_scheduler, and its image.
LEMMA SchedulerImage ==
  ASSUME NEW s, NEW Q, NEW a, Spinners # {}, ThreadsInv, ThreadsInv', pid' = pid,
         Sound(s.status, s.list, Q, pid, current_running), Serving(a, s.status, Q, pid),
         NEW wk \in [Pcb -> Nat], wakeup_time' = wk, WakeOK(s.status, wk, pid, ticks),
         NEW tm, do_scheduler(s, wk, tm)
  PROVE  /\ WakeInv'
         /\ BarWake' = WakeOf(wk, pid)
         /\ Passes(Abs(a, s.status, Q), WakeOf(wk, pid), tm)
<1>1. /\ Types /\ Types' /\ (current_running' \in Pcb => status'[current_running'] = "RUNNING")
      /\ pid \in [Proc -> {pid0} \cup Task] /\ current_running \in Proc /\ ticks \in Nat
  BY DEF ThreadsInv, Types
<1>2. ASSUME NEW p \in Pcb, In(Q[sleep_queue], p) PROVE WakeOf(wk, pid)[pid[p]] = wk[p]
  <2>1. s.status[p] = "BLOCKED" /\ pid[p] # pid0
    BY <1>2 DEF Sound, Placed
  <2>2. pid[p] \in Task
    BY <1>1, <2>1 DEF Proc
  <2>3. \A o \in Pcb : pid[o] = pid[p] => wk[o] <= wk[p]
    BY <2>1 DEF WakeOK
  <2> QED BY <2>2, <2>3, LatestIs
<1>3. Passes(Abs(a, s.status, Q), WakeOf(wk, pid), tm)
  BY <1>1, <1>2, SchedulerRefines
<1>4. PICK k \in 1..(Len(Q[sleep_queue]) + 1) : \E st1, h1, Q2 :
        ScheduledFrom(s.status, Q, wk, tm, k, st1, h1, Q2)
  BY <1>1, SchedulerDetail
<1>5. ASSUME NEW p \in Pcb
      PROVE  /\ ticks' \in Nat /\ ticks <= ticks'
             /\ status'[p] = "BLOCKED" => s.status[p] = "BLOCKED"
             /\ status'[p] # "BLOCKED" => s.status[p] # "BLOCKED" \/ get_timer(ticks') >= wk[p]
  BY <1>1, <1>4, WhoWakes
<1>6. ASSUME NEW p \in Pcb, status'[p] # "BLOCKED" PROVE wk[p] <= get_timer(ticks')
  <2>1. /\ get_timer(ticks) \in Nat /\ get_timer(ticks) <= get_timer(ticks')
        /\ get_timer(ticks') \in Nat /\ wk[p] \in Nat
    BY <1>1, <1>5, TimerGrows
  <2>2. s.status[p] # "BLOCKED" => wk[p] <= get_timer(ticks)
    BY DEF WakeOK
  <2> HIDE DEF get_timer
  <2> QED BY <1>5, <1>6, <2>1, <2>2
<1>7. WakeOK(status', wk, pid, ticks')
  BY <1>5, <1>6 DEF WakeOK
<1>8. WakeInv' /\ BarWake' = WakeOf(wk, pid)
  <2>1. BarWake' = WakeOf(wakeup_time', pid')
    BY DEF BarWake, WakeOf, Group
  <2> QED BY <1>7, <2>1 DEF WakeInv
<1> QED BY <1>3, <1>8

-----------------------------------------------------------------------
(***************************************************************************)
(* Each step is a step of the abstract scheduler, or none.                 *)
(***************************************************************************)
LEMMA ServingExists ==
  ASSUME NEW st, NEW h, NEW Q, NEW pd, NEW cur, Sound(st, h, Q, pd, cur)
  PROVE  \E a : Serving(a, st, Q, pd)
<1> DEFINE a == [t \in Task |-> CHOOSE p \in Pcb : Serves(st, Q, pd, t, p)]
<1>1. \A t \in Task : a[t] \in Pcb /\ Serves(st, Q, pd, t, a[t])
  BY DEF Sound
<1>2. a \in [Task -> Pcb]
  BY <1>1
<1> HIDE DEF a
<1>3. Serving(a, st, Q, pd)
  BY <1>1, <1>2 DEF Serving
<1> QED BY <1>3

\* The abstract state, and what do_block, do_exit and do_scheduler start from.
LEMMA AbstractIs ==
  ASSUME ThreadsInv, NEW Q, NEW a, Sound(status, list, Q, pid, current_running),
         Serving(a, status, Q, pid)
  PROVE  S!Kern = Abs(a, status, Q) /\ BarWake = WakeOf(wakeup_time, pid)
<1>1. BarStatus = StatusOf(a, status) /\ BarQueue = QueueOf(Q, pid)
  BY BarIs DEF BarReads, ThreadsInv
<1>2. S!Kern = [status |-> BarStatus, queue |-> BarQueue]
  BY DEF S!Kern, BarStatus, BarQueue
<1> QED BY <1>1, <1>2, BarWakeIs DEF Abs

\* The caller of a system call, as a process.
LEMMA CallerIs ==
  ASSUME ThreadsInv, NEW Q, NEW a, Sound(status, list, Q, pid, current_running),
         Serving(a, status, Q, pid), NEW p \in Pcb, Calls(p)
  PROVE  /\ pid[p] \in Task /\ pid[p] # pid0 /\ a[pid[p]] = p /\ status[p] = "RUNNING"
         /\ BarStatus[pid[p]] = "RUNNING"
<1>1. status[p] = "RUNNING" /\ Types
  BY DEF Calls, ThreadsInv
<1>2. pid[p] \in Task /\ pid[p] # pid0
  BY <1>1, RunningServes
<1>3. a[pid[p]] = p
  BY <1>1, <1>2, Servers DEF Types
<1>4. BarStatus = StatusOf(a, status)
  BY BarIs DEF BarReads, ThreadsInv
<1> QED BY <1>1, <1>2, <1>3, <1>4 DEF StatusOf

LEMMA YieldRefines ==
  ASSUME Spinners # {}, ThreadsInv, ThreadsInv', WakeInv, NEW p \in Pcb, Yield(p)
  PROVE  WakeInv' /\ S!SchedStep
<1>1. PICK Q : Sound(status, list, Q, pid, current_running)
  BY DEF ThreadsInv
<1>2. PICK a : Serving(a, status, Q, pid)
  BY <1>1, ServingExists
<1>3. /\ S!Kern = Abs(a, status, Q) /\ BarWake = WakeOf(wakeup_time, pid)
      /\ pid[p] \in Task /\ BarStatus[pid[p]] = "RUNNING"
  BY <1>1, <1>2, AbstractIs, CallerIs DEF Yield
<1>4. /\ wakeup_time \in [Pcb -> Nat] /\ wakeup_time' = wakeup_time /\ pid' = pid
      /\ do_scheduler(Kern, wakeup_time, timer) /\ current_running = p
  BY DEF Yield, Calls, ThreadsInv, Types, do_scheduler
<1>5. Kern.status = status /\ Kern.list = list
  BY DEF Kern
<1>6. /\ WakeInv' /\ BarWake' = BarWake
      /\ Passes(Abs(a, status, Q), WakeOf(wakeup_time, pid), timer)
  BY <1>1, <1>2, <1>3, <1>4, <1>5, SchedulerImage DEF WakeInv
<1>7. Passes(S!Kern, BarWake, timer)
  BY <1>3, <1>6
<1>8. PICK t : t = pid[p]
  OBVIOUS
<1>9. S!Yield(t)
  <2>1. pid[current_running] = t /\ BarStatus[t] # "EXITED"
    BY <1>3, <1>4, <1>8
  <2> QED BY <1>6, <1>7, <2>1, Zenon
          DEF S!Yield, S!Calls, S!do_scheduler, S!Dispatch, S!Preempts, Passes, Switched,
              BarStatus, BarQueue, BarWake
<1>10. t \in S!Task
  BY <1>3, <1>8, SameConstants
<1> QED BY <1>6, <1>9, <1>10 DEF S!SchedStep

LEMMA InterruptRefines ==
  ASSUME Spinners # {}, ThreadsInv, ThreadsInv', WakeInv, TimerInterrupt
  PROVE  WakeInv' /\ S!SchedStep
<1>1. PICK Q : Sound(status, list, Q, pid, current_running)
  BY DEF ThreadsInv
<1>2. PICK a : Serving(a, status, Q, pid)
  BY <1>1, ServingExists
<1>3. S!Kern = Abs(a, status, Q) /\ BarWake = WakeOf(wakeup_time, pid)
  BY <1>1, <1>2, AbstractIs
<1>4. /\ wakeup_time \in [Pcb -> Nat] /\ wakeup_time' = wakeup_time /\ pid' = pid
      /\ do_scheduler(Kern, wakeup_time, TimerInterval) /\ timer = 0
  BY DEF TimerInterrupt, ThreadsInv, Types, do_scheduler
<1>5. Kern.status = status /\ Kern.list = list
  BY DEF Kern
<1>6. /\ WakeInv' /\ BarWake' = BarWake
      /\ Passes(Abs(a, status, Q), WakeOf(wakeup_time, pid), TimerInterval)
  BY <1>1, <1>2, <1>3, <1>4, <1>5, SchedulerImage DEF WakeInv
<1>7. Passes(S!Kern, BarWake, TimerInterval)
  BY <1>3, <1>6
<1>8. S!TimerInterrupt
  BY <1>4, <1>6, <1>7, Zenon
     DEF S!TimerInterrupt, S!do_scheduler, S!Dispatch, S!Preempts, Passes, Switched,
         BarStatus, BarQueue, BarWake
<1> QED BY <1>6, <1>8 DEF S!SchedStep

LEMMA TickRefines ==
  ASSUME ThreadsInv, WakeInv, Tick
  PROVE  WakeInv' /\ S!SchedStep
<1>1. /\ ticks \in Nat /\ wakeup_time \in [Pcb -> Nat] /\ MaxTicks \in Nat
      /\ ticks' = IF ticks < MaxTicks THEN ticks + 1 ELSE ticks
      /\ timer' = IF timer > 0 THEN timer - 1 ELSE timer
      /\ current_running' = current_running /\ status' = status /\ list' = list
      /\ pid' = pid /\ wakeup_time' = wakeup_time
  BY ThreadsAssumption DEF Tick, ThreadsInv, Types
<1>2. /\ get_timer(ticks) \in Nat /\ get_timer(ticks') \in Nat
      /\ get_timer(ticks) <= get_timer(ticks')
  <2>1. ticks' \in Nat /\ ticks <= ticks'
    BY <1>1
  <2> QED BY <1>1, <2>1, TimerGrows
<1>3. WakeInv'
  <2>1. \A p \in Pcb : wakeup_time[p] \in Nat
    BY <1>1
  <2>2. \A p \in Pcb : status[p] # "BLOCKED" => wakeup_time[p] <= get_timer(ticks')
    BY <1>2, <2>1 DEF WakeInv, WakeOK
  <2> HIDE DEF get_timer
  <2>3. WakeOK(status, wakeup_time, pid, ticks')
    BY <2>2 DEF WakeInv, WakeOK
  <2> QED BY <1>1, <2>3 DEF WakeInv
<1>4. BarStatus' = BarStatus /\ BarQueue' = BarQueue /\ BarWake' = BarWake
      /\ pid'[current_running'] = pid[current_running]
  BY <1>1 DEF BarStatus, BarQueue, BarWake, Active, Group, Parked, Linked
<1>5. S!Tick
  BY <1>1, <1>4 DEF S!Tick, BarStatus, BarQueue, BarWake
<1> QED BY <1>3, <1>5 DEF S!SchedStep

\* The caller stops being runnable: who serves whom stays.
LEMMA StopServing ==
  ASSUME NEW Q, NEW a, Sound(status, list, Q, pid, current_running),
         Serving(a, status, Q, pid), NEW p \in Pcb, status[p] = "RUNNING",
         NEW st2, NEW Q2, NEW v, v # "READY", st2 = [status EXCEPT ![p] = v],
         Q2[ready_queue] = Q[ready_queue]
  PROVE  Serving(a, st2, Q2, pid)
<1>1. status \in [Proc -> Statuses] /\ p \in Proc
  BY DEF Sound, Proc
<1>2. ASSUME NEW o \in Pcb PROVE Idle(st2, Q2, o) <=> Idle(status, Q, o)
  <2>1. o \in Proc /\ st2[o] = IF o = p THEN v ELSE status[o]
    BY <1>1 DEF Proc
  <2> QED BY <2>1 DEF Idle
<1> QED BY <1>2, SameServing

\* What becomes of the abstract statuses.
LEMMA StopStatus ==
  ASSUME NEW a, NEW p \in Pcb, pid \in [Proc -> {pid0} \cup Task], pid[p] \in Task,
         status \in [Proc -> Statuses], a[pid[p]] = p,
         \A t \in Task : a[t] \in Pcb /\ pid[a[t]] = t, NEW v
  PROVE  StatusOf(a, [status EXCEPT ![p] = v]) = [StatusOf(a, status) EXCEPT ![pid[p]] = v]
<1> DEFINE st2 == [status EXCEPT ![p] = v]
           c   == pid[p]
           old(t) == IF t = pid0 THEN status[pid0] ELSE status[a[t]]
           new(t) == IF t = pid0 THEN st2[pid0] ELSE st2[a[t]]
<1>1. \A o \in Proc : st2[o] = IF o = p THEN v ELSE status[o]
  OBVIOUS
<1>2. pid0 \in Proc /\ pid0 # p /\ p \in Proc /\ c # pid0 /\ \A t \in Task : a[t] \in Proc
  BY Constants DEF Proc
<1> HIDE DEF st2
<1>3. \A t \in {pid0} \cup Task : new(t) = IF t = c THEN v ELSE old(t)
  <2> SUFFICES ASSUME NEW t \in {pid0} \cup Task PROVE new(t) = IF t = c THEN v ELSE old(t)
    OBVIOUS
  <2>1. CASE t = pid0
    BY <1>1, <1>2, <2>1
  <2>2. CASE t # pid0
    <3>1. t \in Task
      BY <2>2
    <3>2. a[t] = p <=> t = c
      BY <3>1
    <3> QED BY <1>1, <1>2, <2>2, <3>1, <3>2
  <2> QED BY <2>1, <2>2
<1>4. /\ StatusOf(a, st2) = [t \in {pid0} \cup Task |-> new(t)]
      /\ StatusOf(a, status) = [t \in {pid0} \cup Task |-> old(t)]
  BY DEF StatusOf
<1> HIDE DEF old, new, c
<1>5. [[t \in {pid0} \cup Task |-> old(t)] EXCEPT ![c] = v]
      = [t \in {pid0} \cup Task |-> IF t = c THEN v ELSE old(t)]
  OBVIOUS
<1>6. [t \in {pid0} \cup Task |-> new(t)]
      = [t \in {pid0} \cup Task |-> IF t = c THEN v ELSE old(t)]
  BY <1>3
<1> QED BY <1>4, <1>5, <1>6 DEF st2, c

Raised(w, c, v) == [w EXCEPT ![c] = v]

\* One thread of a process is given a wake-up time no other has reached.
LEMMA WakeUpdated ==
  ASSUME NEW w \in [Pcb -> Nat], NEW pd, NEW p \in Pcb, pd[p] \in Task, NEW v \in Nat,
         \A o \in Pcb : pd[o] = pd[p] /\ o # p => w[o] <= v,
         NEW w2 \in [Pcb -> Nat], w2[p] = v, \A o \in Pcb : o # p => w2[o] = w[o]
  PROVE  WakeOf(w2, pd) = Raised(WakeOf(w, pd), pd[p], v)
<1> DEFINE c == pd[p]
           W(t)  == {w[o] : o \in {x \in Pcb : pd[x] = t}}
           W2(t) == {w2[o] : o \in {x \in Pcb : pd[x] = t}}
<1>1. w2 \in [Pcb -> Nat] /\ w2[p] = v /\ \A o \in Pcb : o # p => w2[o] = w[o]
  OBVIOUS
<1>2. WakeOf(w2, pd)[c] = v
  <2>1. \A o \in Pcb : pd[o] = c => w2[o] <= w2[p]
    BY <1>1
  <2>2. pd[p] = c /\ c \in Task
    OBVIOUS
  <2> HIDE DEF c
  <2> QED BY <1>1, <2>1, <2>2, LatestIs
<1>3. ASSUME NEW t \in Task, t # c PROVE W2(t) = W(t)
  BY <1>1, <1>3
<1>4. WakeOf(w, pd) = [t \in Task |-> Max(W(t))] /\ WakeOf(w2, pd) = [t \in Task |-> Max(W2(t))]
  BY DEF WakeOf
<1> HIDE DEF W, W2
<1>5. c \in Task /\ Max(W2(c)) = v
  BY <1>2, <1>4
<1> HIDE DEF c
<1>6. [t \in Task |-> Max(W2(t))] = [t \in Task |-> IF t = c THEN v ELSE Max(W(t))]
  BY <1>3, <1>5
<1>7. [[t \in Task |-> Max(W(t))] EXCEPT ![c] = v] = [t \in Task |-> IF t = c THEN v ELSE Max(W(t))]
  OBVIOUS
<1> QED BY <1>4, <1>6, <1>7 DEF c, Raised

LEMMA ExitRefines ==
  ASSUME Spinners # {}, ThreadsInv, ThreadsInv', WakeInv, NEW p \in Pcb, Exit(p)
  PROVE  WakeInv' /\ S!SchedStep
<1> DEFINE st2 == [status EXCEPT ![p] = "EXITED"]
           b   == [status |-> st2, list |-> list]
           c   == pid[p]
           e   == [status |-> [S!Kern.status EXCEPT ![c] = "EXITED"], queue |-> S!Kern.queue]
<1>1. PICK Q : Sound(status, list, Q, pid, current_running)
  BY DEF ThreadsInv
<1>2. PICK a : Serving(a, status, Q, pid)
  BY <1>1, ServingExists
<1>3. /\ S!Kern = Abs(a, status, Q) /\ BarWake = WakeOf(wakeup_time, pid)
      /\ c \in Task /\ BarStatus[c] = "RUNNING" /\ status[p] = "RUNNING" /\ a[c] = p
  BY <1>1, <1>2, AbstractIs, CallerIs DEF Exit
<1>4. /\ wakeup_time \in [Pcb -> Nat] /\ wakeup_time' = wakeup_time /\ pid' = pid
      /\ do_scheduler(b, wakeup_time, timer) /\ current_running = p
      /\ c \in Quitters /\ pid \in [Proc -> {pid0} \cup Task] /\ Types
  BY DEF Exit, Calls, ThreadsInv, Types, do_scheduler
<1>5. b.status = st2 /\ b.list = list
  OBVIOUS
<1> HIDE DEF b
<1>6. Sound(st2, list, Q, pid, current_running)
  <2>1. Whole(list, Q, Heads, Pcb)
    BY <1>1 DEF Sound
  <2> QED BY <1>1, <1>3, <1>4, <2>1, StopSound
<1>7. Serving(a, st2, Q, pid)
  BY <1>1, <1>2, <1>3, StopServing
<1>8. WakeOK(st2, wakeup_time, pid, ticks)
  <2>1. status \in [Proc -> Statuses] /\ \A o \in Pcb : o \in Proc
    BY <1>1 DEF Sound, Proc
  <2>2. \A o \in Pcb : st2[o] = "BLOCKED" <=> status[o] = "BLOCKED"
    BY <1>3, <2>1
  <2> HIDE DEF st2
  <2> QED BY <2>2 DEF WakeInv, WakeOK
<1> HIDE DEF st2
<1>9. /\ WakeInv' /\ BarWake' = BarWake
      /\ Passes(Abs(a, st2, Q), WakeOf(wakeup_time, pid), timer)
  BY <1>3, <1>4, <1>5, <1>6, <1>7, <1>8, SchedulerImage
<1>10. Abs(a, st2, Q) = e
  <2>1. StatusOf(a, st2) = [StatusOf(a, status) EXCEPT ![c] = "EXITED"]
    <3>1. \A t \in Task : a[t] \in Pcb /\ pid[a[t]] = t
      BY <1>1, <1>2, <1>4, Servers
    <3>2. status \in [Proc -> Statuses]
      BY <1>1 DEF Sound
    <3>3. /\ p \in Pcb /\ pid \in [Proc -> {pid0} \cup Task]
          /\ pid[p] \in Task /\ a[pid[p]] = p
      BY <1>3, <1>4
    <3>4. StatusOf(a, [status EXCEPT ![p] = "EXITED"])
            = [StatusOf(a, status) EXCEPT ![pid[p]] = "EXITED"]
      BY ONLY <3>1, <3>2, <3>3, StopStatus
    <3> QED BY <3>4 DEF st2
  <2> QED BY <1>3, <2>1 DEF Abs
<1>11. e = [status |-> [BarStatus EXCEPT ![c] = "EXITED"], queue |-> BarQueue]
  BY DEF S!Kern, BarStatus, BarQueue
<1> HIDE DEF e
<1>12. Passes([status |-> [BarStatus EXCEPT ![c] = "EXITED"], queue |-> BarQueue], BarWake, timer)
  BY <1>3, <1>9, <1>10, <1>11
<1>13. PICK t : t = c
  OBVIOUS
<1>14. S!Exit(t)
  <2>1. pid[current_running] = t /\ BarStatus[t] # "EXITED" /\ t \in Quitters
    BY <1>3, <1>4, <1>13
  <2>2. Passes([status |-> [BarStatus EXCEPT ![t] = "EXITED"], queue |-> BarQueue], BarWake, timer)
    BY <1>12, <1>13
  <2> QED BY <1>9, <2>1, <2>2, Zenon
          DEF S!Exit, S!Calls, S!do_scheduler, S!Dispatch, S!Preempts, Passes, Switched,
              BarStatus, BarQueue, BarWake
<1>15. t \in S!Task
  BY <1>3, <1>13, SameConstants
<1> QED BY <1>9, <1>14, <1>15 DEF S!SchedStep

LEMMA SleepRefines ==
  ASSUME Spinners # {}, ThreadsInv, ThreadsInv', WakeInv,
         NEW p \in Pcb, NEW n \in 0..MaxSleep, Sleep(p, n)
  PROVE  WakeInv' /\ S!SchedStep
<1> DEFINE st2 == [status EXCEPT ![p] = "BLOCKED"]
           v   == get_timer(ticks) + n
           wk  == [wakeup_time EXCEPT ![p] = v]
           b   == do_block(Kern, p, sleep_queue)
           c   == pid[p]
           bar == [status |-> BarStatus, queue |-> BarQueue]
           e   == S!do_block(bar, c, sleep_queue)
<1>1. PICK Q : Sound(status, list, Q, pid, current_running)
  BY DEF ThreadsInv
<1>2. PICK a : Serving(a, status, Q, pid)
  BY <1>1, ServingExists
<1>3. /\ S!Kern = Abs(a, status, Q) /\ BarWake = WakeOf(wakeup_time, pid)
      /\ c \in Task /\ BarStatus[c] = "RUNNING" /\ status[p] = "RUNNING" /\ a[c] = p
  BY <1>1, <1>2, AbstractIs, CallerIs DEF Sleep
<1>4. /\ wakeup_time \in [Pcb -> Nat] /\ wakeup_time' = wk /\ pid' = pid
      /\ do_scheduler(b, wk, timer) /\ current_running = p
      /\ c \in Sleepers /\ pid \in [Proc -> {pid0} \cup Task] /\ Types
      /\ ticks \in Nat /\ v <= get_timer(MaxTicks)
  BY DEF Sleep, Calls, ThreadsInv, Types, do_scheduler
<1>5. v \in Nat /\ get_timer(ticks) \in Nat /\ get_timer(ticks) <= v
  <2>1. get_timer(ticks) \in Nat
    BY <1>4, TimerGrows
  <2>2. n \in Nat
    BY ThreadsAssumption
  <2> HIDE DEF get_timer
  <2> QED BY <2>1, <2>2
<1> DEFINE Q2 == [Q EXCEPT ![sleep_queue] = Append(@, p)]
<1>6. b.status = st2
  BY DEF do_block, Kern
<1>7. /\ Whole(b.list, Q2, Heads, Pcb) /\ Q \in [Heads -> Seq(Pcb)]
      /\ ~In(Q[ready_queue], p) /\ ~In(Q[sleep_queue], p)
      /\ \A o \in Pcb : pid[o] = c /\ o # p => Idle(status, Q, o)
  <2>1. Whole(list, Q, Heads, Pcb)
    BY <1>1 DEF Sound
  <2>2. Free(Q, Heads, p) /\ \A o \in Pcb : pid[o] = c /\ o # p => Idle(status, Q, o)
    BY <1>1, <1>3, <1>4, RunningServes
  <2>3. Whole(b.list, Q2, Heads, Pcb)
    BY <2>1, <2>2, MoveFreeWhole, Constants DEF do_block, Kern
  <2>4. Q \in [Heads -> Seq(Pcb)] /\ ~In(Q[ready_queue], p) /\ ~In(Q[sleep_queue], p)
    BY <2>1, <2>2, Constants DEF Free, Whole
  <2> HIDE DEF Q2, b
  <2> QED BY <2>2, <2>3, <2>4
<1>8. /\ Q2[ready_queue] = Q[ready_queue] /\ Q2[sleep_queue] = Append(Q[sleep_queue], p)
      /\ \A o : In(Q2[sleep_queue], o) <=> In(Q[sleep_queue], o) \/ o = p
  <2>1. Q[sleep_queue] \in Seq(Pcb)
    BY <1>7, Constants
  <2>2. Q2[ready_queue] = Q[ready_queue] /\ Q2[sleep_queue] = Append(Q[sleep_queue], p)
    BY <1>7, Constants
  <2> QED BY <2>1, <2>2, InAppend
<1> HIDE DEF Q2, b
<1>9. Sound(st2, b.list, Q2, pid, current_running)
  BY <1>1, <1>3, <1>4, <1>7, <1>8, StopSound
<1>10. Serving(a, st2, Q2, pid)
  BY <1>1, <1>2, <1>3, <1>8, StopServing
<1> HIDE DEF v
<1>11. wk \in [Pcb -> Nat] /\ wk[p] = v /\ \A o \in Pcb : o # p => wk[o] = wakeup_time[o]
  BY <1>4, <1>5
<1>12. \A o \in Pcb : pid[o] = c /\ o # p => wakeup_time[o] <= v
  <2> SUFFICES ASSUME NEW o \in Pcb, pid[o] = c, o # p PROVE wakeup_time[o] <= v
    OBVIOUS
  <2>1. wakeup_time[o] <= get_timer(ticks) /\ wakeup_time[o] \in Nat
    BY <1>4, <1>7 DEF Idle, WakeInv, WakeOK
  <2> HIDE DEF get_timer
  <2> QED BY <1>5, <2>1
<1>13. WakeOf(wk, pid) = [BarWake EXCEPT ![c] = v]
  <2>1. c \in Task /\ wakeup_time \in [Pcb -> Nat]
    BY <1>3, <1>4
  <2> HIDE DEF wk, c
  <2>2. WakeOf(wk, pid) = Raised(BarWake, pid[p], v)
    BY <1>3, <1>5, <1>11, <1>12, <2>1, WakeUpdated DEF c
  <2> QED BY <2>2 DEF Raised, c
<1> HIDE DEF wk
<1>14. WakeOK(st2, wk, pid, ticks)
  <2>1. status \in [Proc -> Statuses] /\ p \in Proc /\ \A o \in Pcb : o \in Proc
    BY <1>1 DEF Sound, Proc
  <2>2. st2[p] = "BLOCKED" /\ \A o \in Pcb : o # p => st2[o] = status[o]
    BY <2>1
  <2> HIDE DEF st2, get_timer
  <2>3. \A o \in Pcb : st2[o] # "BLOCKED" => wk[o] <= get_timer(ticks)
    BY <1>11, <2>2 DEF WakeInv, WakeOK
  <2>4. \A o \in Pcb : pid[o] = pid0 => wk[o] = 0
    <3>1. c # pid0
      BY <1>3, Constants
    <3> QED BY <1>11, <3>1 DEF WakeInv, WakeOK
  <2>5. ASSUME NEW x \in Pcb, NEW o \in Pcb, pid[x] # pid0, pid[o] = pid[x], st2[x] = "BLOCKED"
        PROVE  wk[o] <= wk[x]
    <3>1. CASE x = p
      <4>1. CASE o = p
        BY <1>5, <1>11, <3>1, <4>1
      <4>2. CASE o # p
        BY <1>11, <1>12, <2>5, <3>1, <4>2
      <4> QED BY <4>1, <4>2
    <3>2. CASE x # p
      <4>1. status[x] = "BLOCKED"
        BY <2>2, <2>5, <3>2
      <4>2. pid[x] # c
        BY <1>7, <3>2, <4>1 DEF Idle
      <4>3. o # p
        BY <2>5, <4>2
      <4> QED BY <1>11, <2>5, <3>2, <4>1, <4>3 DEF WakeInv, WakeOK
    <3> QED BY <3>1, <3>2
  <2>6. ASSUME NEW t \in Task
        PROVE  \E x \in Pcb : pid[x] = t /\ \A o \in Pcb : pid[o] = t => wk[o] <= wk[x]
    <3>1. CASE t = c
      <4>1. \A o \in Pcb : pid[o] = t => wk[o] <= wk[p]
        BY <1>5, <1>11, <1>12, <3>1
      <4> QED BY <3>1, <4>1
    <3>2. CASE t # c
      <4>1. PICK x \in Pcb : pid[x] = t /\ \A o \in Pcb : pid[o] = t => wakeup_time[o] <= wakeup_time[x]
        BY DEF WakeInv, WakeOK
      <4>2. \A o \in Pcb : pid[o] = t => wk[o] = wakeup_time[o]
        BY <1>11, <3>2
      <4> QED BY <4>1, <4>2
    <3> QED BY <3>1, <3>2
  <2> QED BY <2>3, <2>4, <2>5, <2>6 DEF WakeOK
<1>15. /\ WakeInv' /\ BarWake' = WakeOf(wk, pid)
       /\ Passes(Abs(a, st2, Q2), WakeOf(wk, pid), timer)
  <2>1. /\ Sound(b.status, b.list, Q2, pid, current_running) /\ Serving(a, b.status, Q2, pid)
        /\ WakeOK(b.status, wk, pid, ticks)
    BY <1>6, <1>9, <1>10, <1>14
  <2>2. /\ WakeInv' /\ BarWake' = WakeOf(wk, pid)
        /\ Passes(Abs(a, b.status, Q2), WakeOf(wk, pid), timer)
    BY <1>4, <1>11, <2>1, SchedulerImage
  <2> QED BY <1>6, <2>2
<1>16. BarStatus = StatusOf(a, status) /\ BarQueue = QueueOf(Q, pid)
  BY <1>1, <1>2, BarIs DEF BarReads, ThreadsInv
<1>17. Abs(a, st2, Q2) = e
  <2>1. StatusOf(a, st2) = [BarStatus EXCEPT ![c] = "BLOCKED"]
    <3>1. \A t \in Task : a[t] \in Pcb /\ pid[a[t]] = t
      BY <1>1, <1>2, <1>4, Servers
    <3>2. status \in [Proc -> Statuses]
      BY <1>1 DEF Sound
    <3>3. /\ p \in Pcb /\ pid \in [Proc -> {pid0} \cup Task]
          /\ pid[p] \in Task /\ a[pid[p]] = p
      BY <1>3, <1>4
    <3>4. StatusOf(a, [status EXCEPT ![p] = "BLOCKED"])
            = [StatusOf(a, status) EXCEPT ![pid[p]] = "BLOCKED"]
      BY ONLY <3>1, <3>2, <3>3, StopStatus
    <3> QED BY <1>16, <3>4
  <2>2. ASSUME NEW x \in Heads
        PROVE  /\ BarQueue[x] \in Seq(Task) /\ c \notin ToSet(BarQueue[x])
               /\ BarQueue[x] = Renamed(Q[x], pid)
               /\ \A i \in 1..Len(Q[x]) : pid[Q[x][i]] \in Task
    <3> DEFINE q == Q[x]
               m == Renamed(q, pid)
    <3>1. /\ q \in Seq(Pcb)
          /\ \A i \in 1..Len(q) : pid[q[i]] \in Task /\ a[pid[q[i]]] = q[i]
      BY <1>1, <1>2, <1>4, Servers
    <3>2. BarQueue[x] = m
      BY <1>16 DEF QueueOf
    <3>3. ~In(q, p)
      BY <1>7 DEF Heads
    <3> HIDE DEF q
    <3>4. m \in Seq(Task) /\ Len(m) = Len(q) /\ \A i \in 1..Len(q) : m[i] = pid[q[i]]
      BY <1>4, <3>1, RenamedIs
    <3> HIDE DEF m
    <3>5. ToSet(m) = {m[i] : i \in 1..Len(m)}
      BY <3>4 DEF ToSet
    <3>6. c \notin ToSet(m)
      <4> SUFFICES ASSUME NEW i \in 1..Len(q), m[i] = c PROVE FALSE
        BY <3>4, <3>5
      <4>1. a[pid[q[i]]] = q[i] /\ pid[q[i]] = c
        BY <3>1, <3>4
      <4>2. q[i] = p
        BY <1>3, <4>1
      <4> QED BY <3>3, <4>2 DEF In
    <3> QED BY <3>1, <3>2, <3>4, <3>6 DEF q, m
  <2>3. ASSUME NEW x \in Heads PROVE S!Without(BarQueue[x], c) = BarQueue[x]
    <3>1. \A q : S!Without(q, c) = Without(q, c)
      BY SamePick DEF S!Without, Without
    <3> QED BY <2>2, <3>1, WithoutAbsent
  <2>4. e = [status |-> [BarStatus EXCEPT ![c] = "BLOCKED"],
             queue |-> [x \in Heads |-> IF x = sleep_queue THEN Append(BarQueue[x], c)
                                        ELSE BarQueue[x]]]
    <3>1. e = [status |-> [BarStatus EXCEPT ![c] = "BLOCKED"],
               queue |-> [x \in Heads |-> IF x = sleep_queue
                                          THEN Append(S!Without(BarQueue[x], c), c)
                                          ELSE S!Without(BarQueue[x], c)]]
      BY SameConstants DEF S!do_block, S!list_move_tail
    <3> HIDE DEF e
    <3>2. [x \in Heads |-> IF x = sleep_queue
                           THEN Append(S!Without(BarQueue[x], c), c)
                           ELSE S!Without(BarQueue[x], c)]
          = [x \in Heads |-> IF x = sleep_queue THEN Append(BarQueue[x], c) ELSE BarQueue[x]]
      BY <2>3
    <3> QED BY <3>1, <3>2
  <2>5. QueueOf(Q2, pid) = [x \in Heads |-> IF x = sleep_queue THEN Append(BarQueue[x], c)
                                            ELSE BarQueue[x]]
    <3>1. sleep_queue \in Heads /\ \A x \in Heads : x # sleep_queue => x = ready_queue
      BY DEF Heads
    <3>2. Renamed(Q2[sleep_queue], pid) = Append(BarQueue[sleep_queue], c)
      <4>1. Q[sleep_queue] \in Seq(Pcb)
        BY <1>7, <3>1
      <4> QED BY <1>3, <1>4, <1>8, <2>2, <3>1, <4>1, RenamedAppend
    <3>3. \A x \in Heads : x # sleep_queue => Renamed(Q2[x], pid) = BarQueue[x]
      BY <1>8, <2>2, <3>1
    <3> QED BY <3>2, <3>3 DEF QueueOf
  <2> QED BY <2>1, <2>4, <2>5 DEF Abs
<1>18. PICK t : t = c
  OBVIOUS
<1>19. Passes(S!do_block(bar, t, sleep_queue), [BarWake EXCEPT ![t] = v], timer)
  BY <1>13, <1>15, <1>17, <1>18
<1>20. BarWake' = [BarWake EXCEPT ![t] = v]
  BY <1>13, <1>15, <1>18
<1>21. v = S!get_timer(ticks) + n /\ S!get_timer(MaxTicks) = get_timer(MaxTicks)
  BY DEF v, get_timer, S!get_timer
<1> HIDE DEF st2, c
<1>22. S!Sleep(t, n)
  <2>1. /\ pid[current_running] = t /\ BarStatus[t] # "EXITED" /\ t \in Sleepers
        /\ S!get_timer(ticks) + n <= S!get_timer(MaxTicks)
    BY <1>3, <1>4, <1>18, <1>21 DEF c
  <2>2. /\ Passes(S!do_block(bar, t, sleep_queue),
                  [BarWake EXCEPT ![t] = S!get_timer(ticks) + n], timer)
        /\ BarWake' = [BarWake EXCEPT ![t] = S!get_timer(ticks) + n]
    BY <1>19, <1>20, <1>21
  <2>3. S!Kern = bar
    BY DEF S!Kern, BarStatus, BarQueue
  <2>4. Passes(S!do_block(S!Kern, t, sleep_queue),
               [BarWake EXCEPT ![t] = S!get_timer(ticks) + n], timer)
    BY <2>2, <2>3
  <2> QED BY <2>1, <2>2, <2>4, Zenon
          DEF S!Sleep, S!Calls, S!do_scheduler, S!Dispatch, S!Preempts, Passes, Switched,
              BarStatus, BarQueue, BarWake
<1>23. t \in S!Task
  BY <1>3, <1>18, SameConstants DEF c
<1> QED BY <1>15, <1>22, <1>23 DEF S!SchedStep

\* The lists read one way only.
LEMMA ReadOnce ==
  ASSUME NEW h, NEW Q, NEW Q2, Whole(h, Q, Heads, Pcb), Whole(h, Q2, Heads, Pcb)
  PROVE  Q2 = Q
<1>1. IsFiniteSet(Heads)
  <2>1. IsFiniteSet({} \cup {ready_queue})
    BY FS_EmptySet, FS_AddElement
  <2>2. IsFiniteSet(({} \cup {ready_queue}) \cup {sleep_queue})
    BY <2>1, FS_AddElement
  <2>3. Heads = ({} \cup {ready_queue}) \cup {sleep_queue}
    BY DEF Heads
  <2> QED BY <2>2, <2>3
<1>2. IsFiniteSet(Pcb) /\ Heads \cap Pcb = {}
  BY Constants
<1>3. IsFiniteSet(Heads \cup Pcb)
  BY <1>1, <1>2, FS_Union
<1>4. \A x \in Heads : Q[x] = Entries(h, x) /\ Q2[x] = Entries(h, x)
  BY <1>2, <1>3, EntriesIs
<1>5. Q \in [Heads -> Seq(Pcb)] /\ Q2 \in [Heads -> Seq(Pcb)]
  BY DEF Whole
<1>6. Q = [x \in Heads |-> Q[x]] /\ Q2 = [x \in Heads |-> Q2[x]]
  BY <1>5
<1>7. \A x \in Heads : Q2[x] = Q[x]
  BY <1>4
<1> HIDE DEF Heads
<1> QED BY <1>6, <1>7

\* The abstract variables after a step.
LEMMA NextReads ==
  ASSUME ThreadsInv', NEW Q, NEW a, Whole(list', Q, Heads, Pcb), Serving(a, status', Q, pid')
  PROVE  BarStatus' = StatusOf(a, status') /\ BarQueue' = QueueOf(Q, pid')
<1>1. BarReads'
  BY BarIs, PTL
<1>2. PICK Q2 : Sound(status', list', Q2, pid', current_running')
  BY DEF ThreadsInv
<1>3. Q2 = Q
  <2>1. Whole(list', Q2, Heads, Pcb)
    BY <1>2 DEF Sound
  <2> QED BY <2>1, ReadOnce
<1>4. /\ Types' /\ (current_running' \in Pcb => status'[current_running'] = "RUNNING")
      /\ Sound(status', list', Q, pid', current_running')
  BY <1>2, <1>3 DEF ThreadsInv
<1> QED BY <1>1, <1>4 DEF BarReads

LEMMA ThreadYieldRefines ==
  ASSUME ThreadsInv, ThreadsInv', WakeInv, NEW p \in Pcb, ThreadYield(p)
  PROVE  WakeInv' /\ UNCHANGED S!schedVars
<1> DEFINE next == thread_group.next[p]
           c == pid[p]
<1>1. PICK Q : Sound(status, list, Q, pid, current_running)
  BY DEF ThreadsInv
<1>2. PICK R : Grouped(thread_group, R, pid)
  BY DEF ThreadsInv
<1>3. PICK a : Serving(a, status, Q, pid)
  BY <1>1, ServingExists
<1>4. /\ c \in Task /\ c # pid0 /\ a[c] = p /\ status[p] = "RUNNING"
      /\ pid \in [Proc -> {pid0} \cup Task] /\ Types
  BY <1>1, <1>3, CallerIs DEF ThreadYield, ThreadsInv, Types
<1>5. /\ current_running = p /\ current_running' = next
      /\ status' = [status EXCEPT ![p] = "READY", ![next] = "RUNNING"]
      /\ list' = init_list_head(list, next)
      /\ pid' = pid /\ wakeup_time' = wakeup_time /\ ticks' = ticks /\ timer' = timer
  BY DEF ThreadYield, Calls
<1>6. /\ next \in Pcb /\ pid[next] = c /\ Free(Q, Heads, next)
      /\ next # p => status[next] = "READY"
  BY <1>1, <1>2, <1>4, NextThread
<1>7. /\ status \in [Proc -> Statuses] /\ Whole(list, Q, Heads, Pcb)
      /\ p \in Proc /\ \A o \in Pcb : o \in Proc
      /\ pid0 \in Proc /\ pid0 \notin Pcb
  BY <1>1, Constants DEF Sound, Proc
<1>8. list' = list
  BY <1>5, <1>6, <1>7, FreeEntry
<1>9. \A o \in Pcb : pid[o] = c /\ o # p => Idle(status, Q, o)
  BY <1>1, <1>4, RunningServes
<1>10. ~In(Q[ready_queue], p) /\ ~In(Q[ready_queue], next)
  <2>1. Free(Q, Heads, p)
    BY <1>1, <1>4, RunningServes
  <2> QED BY <1>6, <2>1, Constants DEF Free
<1> HIDE DEF next, c
<1>11. \A o \in Proc : status'[o] = IF o = next THEN "RUNNING"
                                    ELSE IF o = p THEN "READY" ELSE status[o]
  BY <1>5, <1>6, <1>7
<1> DEFINE a2 == [a EXCEPT ![c] = next]
<1>12. /\ a \in [Task -> Pcb] /\ a2 \in [Task -> Pcb] /\ a2[c] = next
       /\ \A t \in Task : t # c => a2[t] = a[t]
       /\ \A t \in Task : Serves(status, Q, pid, t, a[t])
  BY <1>3, <1>4, <1>6 DEF Serving
<1> HIDE DEF a2
<1>13. Serving(a2, status', Q, pid')
  <2> SUFFICES ASSUME NEW t \in Task PROVE Serves(status', Q, pid, t, a2[t])
    BY <1>5, <1>12 DEF Serving
  <2>1. CASE t = c
    <3>1. ~Idle(status', Q, next)
      BY <1>6, <1>7, <1>11 DEF Idle
    <3>2. ASSUME NEW x \in Pcb, pid[x] = c, x # next PROVE Idle(status', Q, x)
      <4>1. CASE x = p
        BY <1>7, <1>10, <1>11, <3>2, <4>1 DEF Idle
      <4>2. CASE x # p
        BY <1>7, <1>9, <1>11, <3>2, <4>2 DEF Idle
      <4> QED BY <4>1, <4>2
    <3> QED BY <1>6, <1>12, <2>1, <3>1, <3>2 DEF Serves
  <2>2. CASE t # c
    <3>1. ASSUME NEW x \in Pcb, pid[x] = t PROVE status'[x] = status[x]
      BY <1>6, <1>7, <1>11, <2>2, <3>1 DEF c
    <3>2. Serves(status, Q, pid, t, a[t]) /\ a2[t] = a[t] /\ a[t] \in Pcb
      BY <1>12, <2>2
    <3> QED BY <3>1, <3>2 DEF Serves, Idle
  <2> QED BY <2>1, <2>2
<1>14. BarStatus' = StatusOf(a2, status') /\ BarQueue' = QueueOf(Q, pid)
  BY <1>5, <1>7, <1>8, <1>13, NextReads
<1>15. BarStatus = StatusOf(a, status) /\ BarQueue = QueueOf(Q, pid)
  BY <1>1, <1>3, BarIs DEF BarReads, ThreadsInv
<1>16. StatusOf(a2, status') = StatusOf(a, status)
  <2>1. ASSUME NEW t \in Task PROVE status'[a2[t]] = status[a[t]]
    <3>1. CASE t = c
      BY <1>4, <1>6, <1>7, <1>11, <1>12, <3>1
    <3>2. CASE t # c
      <4>1. a[t] \in Pcb /\ pid[a[t]] = t /\ a2[t] = a[t]
        BY <1>12, <3>2 DEF Serves
      <4>2. a[t] # next /\ a[t] # p /\ a[t] \in Proc
        BY <1>6, <1>7, <3>2, <4>1 DEF c
      <4> QED BY <1>11, <4>1, <4>2
    <3> QED BY <3>1, <3>2
  <2>2. status'[pid0] = status[pid0]
    BY <1>6, <1>7, <1>11
  <2>3. \A t \in {pid0} \cup Task : (IF t = pid0 THEN status'[pid0] ELSE status'[a2[t]])
                                   = (IF t = pid0 THEN status[pid0] ELSE status[a[t]])
    BY <2>1, <2>2
  <2> QED BY <2>3 DEF StatusOf
<1>17. BarWake' = BarWake
  <2>1. BarWake' = WakeOf(wakeup_time', pid') /\ BarWake = WakeOf(wakeup_time, pid)
    BY DEF BarWake, WakeOf, Group
  <2> QED BY <1>5, <2>1
<1>18. pid'[current_running'] = pid[current_running]
  BY <1>5, <1>6 DEF c
<1>19. UNCHANGED S!schedVars
  BY <1>5, <1>14, <1>15, <1>16, <1>17, <1>18 DEF S!schedVars, BarStatus, BarQueue, BarWake
<1>20. WakeInv'
  <2>1. \A o \in Pcb : status'[o] = "BLOCKED" <=> status[o] = "BLOCKED"
    BY <1>4, <1>6, <1>7, <1>11
  <2>2. WakeOK(status', wakeup_time, pid, ticks)
    BY <2>1 DEF WakeInv, WakeOK
  <2> QED BY <1>5, <2>2 DEF WakeInv
<1> QED BY <1>19, <1>20

LEMMA ThreadCreateRefines ==
  ASSUME ThreadsInv, ThreadsInv', WakeInv, NEW p \in Pcb, NEW tcb \in Tcb,
         ThreadCreate(p, tcb)
  PROVE  WakeInv' /\ UNCHANGED S!schedVars
<1> DEFINE c == pid[p]
<1>1. PICK Q : Sound(status, list, Q, pid, current_running)
  BY DEF ThreadsInv
<1>2. PICK a : Serving(a, status, Q, pid)
  BY <1>1, ServingExists
<1>3. /\ c \in Task /\ c # pid0 /\ status[p] = "RUNNING"
      /\ pid \in [Proc -> {pid0} \cup Task] /\ wakeup_time \in [Pcb -> Nat]
  BY <1>1, <1>2, CallerIs DEF ThreadCreate, ThreadsInv, Types
<1>4. /\ current_running = p /\ current_running' = p /\ pid[tcb] = pid0
      /\ status' = [status EXCEPT ![tcb] = "READY"]
      /\ pid' = [pid EXCEPT ![tcb] = c]
      /\ list' = init_list_head(list, tcb)
      /\ wakeup_time' = wakeup_time /\ ticks' = ticks /\ timer' = timer
  BY DEF ThreadCreate, Calls
<1>5. /\ status \in [Proc -> Statuses] /\ Whole(list, Q, Heads, Pcb)
      /\ tcb \in Pcb /\ p \in Proc /\ \A o \in Pcb : o \in Proc
      /\ pid0 \in Proc /\ pid0 \notin Pcb /\ pid0 \notin Task
  BY <1>1, Constants DEF Sound, Proc, Pcb
<1>6. /\ status[tcb] = "BLOCKED" /\ ~In(Q[ready_queue], tcb) /\ Free(Q, Heads, tcb)
  <2>1. status[tcb] = "BLOCKED" /\ ~In(Q[sleep_queue], tcb)
    BY <1>1, <1>4, <1>5 DEF Sound, Placed
  <2>2. ~In(Q[ready_queue], tcb)
    BY <1>1, <1>5, <2>1 DEF Sound, Placed
  <2> QED BY <1>5, <2>1, <2>2, ReadingIs
<1>7. list' = list
  BY <1>4, <1>5, <1>6, FreeEntry
<1> HIDE DEF c
<1>8. /\ status'[tcb] = "READY" /\ \A o \in Proc : o # tcb => status'[o] = status[o]
      /\ pid'[tcb] = c /\ \A o \in Proc : o # tcb => pid'[o] = pid[o]
  BY <1>3, <1>4, <1>5
<1>9. /\ a \in [Task -> Pcb] /\ \A t \in Task : Serves(status, Q, pid, t, a[t])
      /\ \A t \in Task : a[t] # tcb /\ a[t] \in Proc /\ pid[a[t]] = t
  <2>1. a \in [Task -> Pcb] /\ \A t \in Task : Serves(status, Q, pid, t, a[t])
    BY <1>2 DEF Serving
  <2>2. \A t \in Task : pid[a[t]] = t
    BY <2>1 DEF Serves
  <2> QED BY <1>4, <1>5, <2>1, <2>2
<1>10. Serving(a, status', Q, pid')
  <2> SUFFICES ASSUME NEW t \in Task PROVE Serves(status', Q, pid', t, a[t])
    BY <1>9 DEF Serving
  <2>1. pid'[a[t]] = t
    BY <1>8, <1>9
  <2>2. ~Idle(status', Q, a[t])
    BY <1>8, <1>9 DEF Serves, Idle
  <2>3. ASSUME NEW o \in Pcb, pid'[o] = t, o # a[t] PROVE Idle(status', Q, o)
    <3>1. CASE o = tcb
      BY <1>6, <1>8, <3>1 DEF Idle
    <3>2. CASE o # tcb
      <4>1. pid[o] = t /\ status'[o] = status[o]
        BY <1>5, <1>8, <2>3, <3>2
      <4>2. Idle(status, Q, o)
        BY <1>9, <2>3, <4>1 DEF Serves
      <4> QED BY <4>1, <4>2 DEF Idle
    <3> QED BY <3>1, <3>2
  <2> QED BY <2>1, <2>2, <2>3 DEF Serves
<1>11. BarStatus' = StatusOf(a, status') /\ BarQueue' = QueueOf(Q, pid')
  BY <1>5, <1>7, <1>10, NextReads
<1>12. BarStatus = StatusOf(a, status) /\ BarQueue = QueueOf(Q, pid)
  BY <1>1, <1>2, BarIs DEF BarReads, ThreadsInv
<1>13. StatusOf(a, status') = StatusOf(a, status)
  <2>1. \A t \in {pid0} \cup Task : (IF t = pid0 THEN status'[pid0] ELSE status'[a[t]])
                                   = (IF t = pid0 THEN status[pid0] ELSE status[a[t]])
    BY <1>5, <1>8, <1>9
  <2> QED BY <2>1 DEF StatusOf
<1>14. QueueOf(Q, pid') = QueueOf(Q, pid)
  <2>1. ASSUME NEW x \in Heads PROVE Renamed(Q[x], pid') = Renamed(Q[x], pid)
    <3> DEFINE q == Q[x]
    <3>1. q \in Seq(Pcb)
      BY <1>5 DEF Whole
    <3>2. ~In(q, tcb)
      BY <1>6 DEF Free
    <3> HIDE DEF q
    <3>3. DOMAIN q = 1..Len(q) /\ \A i \in 1..Len(q) : q[i] \in Pcb /\ q[i] # tcb
      BY <3>1, <3>2 DEF In
    <3>4. \A i \in DOMAIN q : pid'[q[i]] = pid[q[i]]
      BY <1>5, <1>8, <3>3
    <3> QED BY <3>4 DEF Renamed, q
  <2> QED BY <2>1 DEF QueueOf
<1>15. ASSUME NEW t \in Task
       PROVE  \E x \in Pcb : /\ pid[x] = t /\ pid'[x] = t
                             /\ \A o \in Pcb : pid[o] = t => wakeup_time[o] <= wakeup_time[x]
                             /\ \A o \in Pcb : pid'[o] = t => wakeup_time[o] <= wakeup_time[x]
  <2>1. PICK x \in Pcb :
          pid[x] = t /\ \A o \in Pcb : pid[o] = t => wakeup_time[o] <= wakeup_time[x]
    BY DEF WakeInv, WakeOK
  <2>2. x # tcb /\ pid'[x] = t
    BY <1>4, <1>5, <1>8, <2>1
  <2>3. wakeup_time[tcb] = 0 /\ wakeup_time[x] \in Nat
    BY <1>3, <1>4, <1>5 DEF WakeInv, WakeOK
  <2>4. \A o \in Pcb : pid'[o] = t => wakeup_time[o] <= wakeup_time[x]
    BY <1>5, <1>8, <2>1, <2>3
  <2> QED BY <2>1, <2>2, <2>4
<1>16. BarWake' = BarWake
  <2>1. BarWake' = WakeOf(wakeup_time, pid') /\ BarWake = WakeOf(wakeup_time, pid)
    <3>1. BarWake' = WakeOf(wakeup_time', pid') /\ BarWake = WakeOf(wakeup_time, pid)
      BY DEF BarWake, WakeOf, Group
    <3> QED BY <1>4, <3>1
  <2>2. ASSUME NEW t \in Task PROVE WakeOf(wakeup_time, pid')[t] = WakeOf(wakeup_time, pid)[t]
    <3>1. PICK x \in Pcb :
            /\ pid[x] = t /\ pid'[x] = t
            /\ \A o \in Pcb : pid[o] = t => wakeup_time[o] <= wakeup_time[x]
            /\ \A o \in Pcb : pid'[o] = t => wakeup_time[o] <= wakeup_time[x]
      BY <1>15
    <3>2. WakeOf(wakeup_time, pid)[t] = wakeup_time[x]
      BY <1>3, <3>1, LatestIs
    <3>3. WakeOf(wakeup_time, pid')[t] = wakeup_time[x]
      <4>1. PICK pd : pd = pid'
        OBVIOUS
      <4>2. WakeOf(wakeup_time, pd)[t] = wakeup_time[x]
        BY <1>3, <3>1, <4>1, LatestIs
      <4> QED BY <4>1, <4>2
    <3> QED BY <3>2, <3>3
  <2>3. \A pd : WakeOf(wakeup_time, pd) = [t \in Task |-> WakeOf(wakeup_time, pd)[t]]
    BY DEF WakeOf
  <2>4. /\ WakeOf(wakeup_time, pid') = [t \in Task |-> WakeOf(wakeup_time, pid')[t]]
        /\ WakeOf(wakeup_time, pid) = [t \in Task |-> WakeOf(wakeup_time, pid)[t]]
    BY <2>3
  <2> QED BY <2>1, <2>2, <2>4
<1>17. pid'[current_running'] = pid[current_running]
  <2>1. p # tcb
    BY <1>3, <1>4 DEF c
  <2> QED BY <1>4, <1>5, <1>8, <2>1
<1>18. UNCHANGED S!schedVars
  BY <1>4, <1>11, <1>12, <1>13, <1>14, <1>16, <1>17 DEF S!schedVars, BarStatus, BarQueue, BarWake
<1>19. WakeInv'
  <2>1. \A o \in Pcb : status'[o] # "BLOCKED" => wakeup_time[o] <= get_timer(ticks)
    <3> SUFFICES ASSUME NEW o \in Pcb, status'[o] # "BLOCKED"
                 PROVE  wakeup_time[o] <= get_timer(ticks)
      OBVIOUS
    <3>1. CASE o = tcb
      <4>1. wakeup_time[o] = 0
        BY <1>4, <3>1 DEF WakeInv, WakeOK
      <4>2. get_timer(ticks) \in Nat
        BY TimerGrows DEF ThreadsInv, Types
      <4> HIDE DEF get_timer
      <4> QED BY <4>1, <4>2
    <3>2. CASE o # tcb
      BY <1>5, <1>8, <3>2 DEF WakeInv, WakeOK
    <3> QED BY <3>1, <3>2
  <2>2. \A o \in Pcb : pid'[o] = pid0 => wakeup_time[o] = 0
    BY <1>3, <1>5, <1>8 DEF WakeInv, WakeOK
  <2>3. ASSUME NEW x \in Pcb, NEW o \in Pcb, pid'[x] # pid0, pid'[o] = pid'[x],
               status'[x] = "BLOCKED"
        PROVE  wakeup_time[o] <= wakeup_time[x]
    <3>1. x # tcb /\ status[x] = "BLOCKED" /\ pid[x] = pid'[x]
      BY <1>5, <1>8, <2>3
    <3>2. CASE o = tcb
      <4>1. wakeup_time[o] = 0 /\ wakeup_time[x] \in Nat
        BY <1>3, <1>4, <3>2 DEF WakeInv, WakeOK
      <4> QED BY <4>1
    <3>3. CASE o # tcb
      <4>1. pid[o] = pid[x] /\ pid[x] # pid0
        BY <1>5, <1>8, <2>3, <3>1, <3>3
      <4> QED BY <3>1, <4>1 DEF WakeInv, WakeOK
    <3> QED BY <3>2, <3>3
  <2>4. \A t \in Task : \E x \in Pcb :
          pid'[x] = t /\ \A o \in Pcb : pid'[o] = t => wakeup_time[o] <= wakeup_time[x]
    BY <1>15
  <2>5. WakeOK(status', wakeup_time, pid', ticks)
    BY <2>1, <2>2, <2>3, <2>4 DEF WakeOK
  <2> QED BY <1>4, <2>5 DEF WakeInv
<1> QED BY <1>18, <1>19

LEMMA StartRefines ==
  ASSUME Init
  PROVE  WakeInv /\ S!SchedInit
<1> DEFINE Q == QueuedTo(NumTask)
<1>1. ThreadsInv
  BY ThreadsStart
<1>2. /\ current_running = pid0 /\ ticks = 0 /\ timer = TimerInterval
      /\ status = [p \in Proc |-> IF p \in Task THEN "READY" ELSE "BLOCKED"]
      /\ pid = [p \in Proc |-> IF p \in Task THEN p ELSE pid0]
      /\ wakeup_time = [p \in Pcb |-> 0]
  BY DEF Init, Proc, Pcb
<1>3. /\ Task \subseteq Pcb /\ Pcb \subseteq Proc /\ pid0 \in Proc
      /\ pid0 \notin Task /\ pid0 \notin Pcb
  BY Constants DEF Pcb, Proc
<1>4. Whole(list, Q, Heads, Pcb)
  BY QueuedWhole
<1> HIDE DEF Q
<1>5. Sound(status, list, Q, pid, current_running)
  <2>1. PICK Q2 : Sound(status, list, Q2, pid, current_running)
    BY <1>1 DEF ThreadsInv
  <2>2. Q2 = Q
    <3>1. Whole(list, Q2, Heads, Pcb)
      BY <2>1 DEF Sound
    <3> QED BY <1>4, <3>1, ReadOnce
  <2> QED BY <2>1, <2>2
<1>6. PICK a : Serving(a, status, Q, pid)
  BY <1>5, ServingExists
<1>7. \A p \in Pcb : /\ pid[p] = IF p \in Task THEN p ELSE pid0
                     /\ wakeup_time[p] = 0
                     /\ status[p] = IF p \in Task THEN "READY" ELSE "BLOCKED"
  BY <1>2, <1>3
<1>8. \A t \in Task : a[t] = t
  <2>1. \A t \in Task : a[t] \in Pcb /\ pid[a[t]] = t
    BY <1>6 DEF Serving, Serves
  <2> QED BY <1>3, <1>7, <2>1
<1>9. BarStatus = StatusOf(a, status) /\ BarQueue = QueueOf(Q, pid)
  BY <1>1, <1>5, <1>6, BarIs DEF BarReads, ThreadsInv
<1>10. BarStatus = [p \in S!Proc |-> IF p = S!pid0 THEN "BLOCKED" ELSE "READY"]
  <2>1. \A t \in {pid0} \cup Task :
          (IF t = pid0 THEN status[pid0] ELSE status[a[t]])
          = IF t = pid0 THEN "BLOCKED" ELSE "READY"
    BY <1>2, <1>3, <1>7, <1>8
  <2>2. StatusOf(a, status) = [t \in {pid0} \cup Task |-> IF t = pid0 THEN "BLOCKED" ELSE "READY"]
    BY <2>1 DEF StatusOf
  <2> QED BY <1>9, <2>2, SameConstants
<1>11. BarQueue = [x \in S!Queue |-> IF x = ready_queue THEN [i \in S!Task |-> i] ELSE << >>]
  <2>1. Task = 1..NumTask
    BY DEF Task
  <2>2. Renamed([i \in Task |-> i], pid) = [i \in Task |-> i]
    <3> DEFINE r == [i \in Task |-> i]
    <3>1. DOMAIN r = Task /\ \A i \in Task : r[i] = i /\ pid[i] = i
      BY <1>3, <1>7
    <3> HIDE DEF r
    <3>2. \A i \in DOMAIN r : pid[r[i]] = i
      BY <3>1
    <3>3. Renamed(r, pid) = [i \in Task |-> pid[r[i]]]
      BY <3>1 DEF Renamed
    <3>4. Renamed(r, pid) = [i \in Task |-> i]
      BY <3>1, <3>2, <3>3
    <3> QED BY <3>4 DEF r
  <2>3. Renamed(<< >>, pid) = << >>
    BY DEF Renamed
  <2>4. \A x \in Heads : Q[x] = IF x = ready_queue THEN [i \in Task |-> i] ELSE << >>
    BY <2>1 DEF Q, QueuedTo
  <2>5. \A x \in Heads : Renamed(Q[x], pid) = IF x = ready_queue THEN [i \in Task |-> i] ELSE << >>
    BY <2>2, <2>3, <2>4
  <2>6. QueueOf(Q, pid) = [x \in Heads |-> IF x = ready_queue THEN [i \in Task |-> i] ELSE << >>]
    BY <2>5 DEF QueueOf
  <2> QED BY <1>9, <2>6, SameConstants
<1>12. BarWake = [t \in S!Task |-> 0]
  <2>1. ASSUME NEW t \in Task PROVE WakeOf(wakeup_time, pid)[t] = 0
    <3>1. /\ t \in Pcb /\ pid[t] = t /\ wakeup_time \in [Pcb -> Nat]
          /\ \A o \in Pcb : pid[o] = t => wakeup_time[o] <= wakeup_time[t]
      BY <1>2, <1>3, <1>7
    <3>2. WakeOf(wakeup_time, pid)[t] = wakeup_time[t]
      BY <3>1, LatestIs
    <3> QED BY <1>7, <3>1, <3>2
  <2>2. WakeOf(wakeup_time, pid) = [t \in Task |-> WakeOf(wakeup_time, pid)[t]]
    BY DEF WakeOf
  <2>3. WakeOf(wakeup_time, pid) = [t \in Task |-> 0]
    BY <2>1, <2>2
  <2> QED BY <2>3, BarWakeIs, SameConstants
<1>13. pid[current_running] = S!pid0
  BY <1>2, <1>3, SameConstants
<1>14. S!SchedInit
  BY <1>2, <1>10, <1>11, <1>12, <1>13 DEF S!SchedInit, BarStatus, BarQueue, BarWake
<1>15. WakeInv
  <2>1. get_timer(ticks) \in Nat
    BY <1>2, TimerGrows
  <2> HIDE DEF get_timer
  <2>2. \A p \in Pcb : wakeup_time[p] <= get_timer(ticks)
    BY <1>7, <2>1
  <2>3. \A t \in Task : pid[t] = t /\ t \in Pcb
    BY <1>3, <1>7
  <2> QED BY <1>7, <2>2, <2>3 DEF WakeInv, WakeOK
<1> QED BY <1>14, <1>15

(***************************************************************************)
(* The pointers of list.c, the loop of check_sleeping and the threads of a *)
(* process implement the scheduler on queues of processes: do_thread_yield *)
(* and do_thread_create are no steps of it.  (A spinner is assumed, as for *)
(* the invariant.)                                                         *)
(***************************************************************************)
THEOREM ThreadsImplementScheduler ==
  ASSUME Spinners # {}
  PROVE  Spec => SchedulerSpec
<1>1. Init => S!SchedInit /\ WakeInv
  BY StartRefines
<1>2. ThreadsInv /\ ThreadsInv' /\ WakeInv /\ [Next]_threadVars
        => WakeInv' /\ [S!SchedStep]_(S!schedVars)
  <2> SUFFICES ASSUME ThreadsInv, ThreadsInv', WakeInv, [Next]_threadVars
               PROVE  WakeInv' /\ (S!SchedStep \/ UNCHANGED S!schedVars)
    OBVIOUS
  <2>1. CASE Tick
    BY <2>1, TickRefines
  <2>2. CASE TimerInterrupt
    BY <2>2, InterruptRefines
  <2>3. ASSUME NEW p \in Pcb, Yield(p) PROVE WakeInv' /\ S!SchedStep
    BY <2>3, YieldRefines
  <2>4. ASSUME NEW p \in Pcb, NEW n \in 0..MaxSleep, Sleep(p, n)
        PROVE  WakeInv' /\ S!SchedStep
    BY <2>4, SleepRefines
  <2>5. ASSUME NEW p \in Pcb, Exit(p) PROVE WakeInv' /\ S!SchedStep
    BY <2>5, ExitRefines
  <2>6. ASSUME NEW p \in Pcb, ThreadYield(p) PROVE WakeInv' /\ UNCHANGED S!schedVars
    BY <2>6, ThreadYieldRefines
  <2>7. ASSUME NEW p \in Pcb, NEW tcb \in Tcb, ThreadCreate(p, tcb)
        PROVE  WakeInv' /\ UNCHANGED S!schedVars
    BY <2>7, ThreadCreateRefines
  <2>8. CASE UNCHANGED threadVars
    <3>1. /\ current_running' = current_running /\ status' = status /\ list' = list
          /\ pid' = pid /\ wakeup_time' = wakeup_time /\ ticks' = ticks /\ timer' = timer
      BY <2>8 DEF threadVars
    <3>2. WakeInv'
      BY <3>1 DEF WakeInv
    <3>3. UNCHANGED S!schedVars
      BY <3>1 DEF S!schedVars, Active, Group, Parked, Linked
    <3> QED BY <3>2, <3>3
  <2> QED BY <2>1, <2>2, <2>3, <2>4, <2>5, <2>6, <2>7, <2>8 DEF Next
<1> QED BY <1>1, <1>2, ThreadsInvariant, PTL DEF Spec, SchedulerSpec

=======================================================================
