----------------------------- MODULE Foundations ----------------------------
(***************************************************************************)
(* Facts that the proofs about several components rest on: induction over  *)
(* natural numbers with sets in place of predicates, the functions that    *)
(* loops define, the distances of module Distances, and the copies of the  *)
(* packets that a network holds.                                           *)
(***************************************************************************)
EXTENDS Distances, SequencesExt, FiniteSetTheorems, SequenceTheorems,
        WellFoundedInduction, TLAPS

(* A nonempty set of natural numbers has a least element.                  *)
LEMMA LeastNatural ==
  ASSUME NEW T, T \subseteq Nat, T # {}
  PROVE  \E x \in T : \A y \in T : x <= y
<1>1. \E x \in T : \A y \in T : ~ (<<y, x>> \in OpToRel(<, Nat))
  BY WFMin, NatLessThanWellFounded, Zenon
<1>2. \A x, y \in Nat : ~ (<<y, x>> \in OpToRel(<, Nat)) => x <= y
  BY DEF OpToRel
<1> QED BY <1>1, <1>2

(* A set that has 0 and, with every number, the next one, has them all.    *)
LEMMA SetInduction ==
  ASSUME NEW T, 0 \in T, \A k \in Nat : k \in T => k + 1 \in T
  PROVE  \A k \in Nat : k \in T
<1> SUFFICES ASSUME Nat \ T # {} PROVE FALSE
  OBVIOUS
<1>1. PICK x \in Nat \ T : \A y \in Nat \ T : x <= y
  BY LeastNatural
<1>2. x - 1 \in Nat /\ x - 1 \in T
  BY <1>1
<1>3. x \in T
  BY <1>2
<1> QED BY <1>1, <1>3

(* h is the beginning of the sequence s0, F[s0], F[F[s0]], ... up to n.    *)
Begins(h, S, s0, F, n) ==
  /\ h \in [0 .. n -> S]
  /\ h[0] = s0
  /\ \A k \in 0 .. n - 1 : h[k + 1] = F[h[k]]

(* There is one such beginning of every length, and it is the only one.    *)
LEMMA BeginningExists ==
  ASSUME NEW S, NEW s0 \in S, NEW F \in [S -> S]
  PROVE  \A n \in Nat : \E h : Begins(h, S, s0, F, n)
<1> DEFINE T == {n \in Nat : \E h : Begins(h, S, s0, F, n)}
<1>1. 0 \in T
  <2>1. Begins([k \in 0 .. 0 |-> s0], S, s0, F, 0)
    BY DEF Begins
  <2> QED BY <2>1
<1>2. ASSUME NEW n \in Nat, n \in T PROVE n + 1 \in T
  <2>1. PICK h : Begins(h, S, s0, F, n)
    BY <1>2
  <2> DEFINE g == [k \in 0 .. n + 1 |-> IF k = n + 1 THEN F[h[n]] ELSE h[k]]
  <2>2. h[n] \in S
    BY <2>1 DEF Begins
  <2>3. Begins(g, S, s0, F, n + 1)
    BY <2>1, <2>2 DEF Begins
  <2> QED BY <2>3
<1> HIDE DEF T
<1>3. \A n \in Nat : n \in T
  BY <1>1, <1>2, SetInduction
<1> QED BY <1>3 DEF T

(* Two beginnings agree as far as both go.                                 *)
LEMMA BeginningsAgree ==
  ASSUME NEW S, NEW s0 \in S, NEW F \in [S -> S],
         NEW n \in Nat, NEW m \in Nat, n <= m, NEW h, NEW g,
         Begins(h, S, s0, F, n), Begins(g, S, s0, F, m)
  PROVE  \A k \in 0 .. n : h[k] = g[k]
<1> DEFINE T == {k \in Nat : k \in 0 .. n => h[k] = g[k]}
<1>1. 0 \in T
  BY DEF Begins
<1>2. ASSUME NEW k \in Nat, k \in T PROVE k + 1 \in T
  BY <1>2 DEF Begins
<1> HIDE DEF T
<1>3. \A k \in Nat : k \in T
  BY <1>1, <1>2, SetInduction
<1> QED BY <1>3 DEF T

(* What a loop computes: the sequence of its states, as a function.        *)
LEMMA LoopExists ==
  ASSUME NEW S, NEW s0 \in S, NEW F \in [S -> S]
  PROVE  \E g \in [Nat -> S] : g[0] = s0 /\ \A k \in Nat : g[k + 1] = F[g[k]]
<1> DEFINE H(n) == CHOOSE h : Begins(h, S, s0, F, n)
           g == [n \in Nat |-> H(n)[n]]
<1>1. \A n \in Nat : Begins(H(n), S, s0, F, n)
  BY BeginningExists
<1> HIDE DEF H
<1>2. g \in [Nat -> S]
  BY <1>1 DEF Begins
<1>3. g[0] = s0
  BY <1>1 DEF Begins
<1>4. ASSUME NEW k \in Nat PROVE g[k + 1] = F[g[k]]
  <2>1. Begins(H(k), S, s0, F, k) /\ Begins(H(k + 1), S, s0, F, k + 1)
    BY <1>1
  <2>2. H(k)[k] = H(k + 1)[k]
    BY <2>1, BeginningsAgree
  <2>3. H(k + 1)[k + 1] = F[H(k + 1)[k]]
    BY <2>1 DEF Begins
  <2> QED BY <2>2, <2>3
<1> QED BY <1>2, <1>3, <1>4

-----------------------------------------------------------------------------

GraphsOn(N) == [N -> SUBSET N]

(* The recursion of Ball is well founded: its equations hold.              *)
LEMMA BallEquations ==
  ASSUME NEW N, NEW next \in GraphsOn(N), NEW n \in N
  PROVE  /\ Ball(next, n) \in [Nat -> SUBSET N]
         /\ Ball(next, n)[0] = {n}
         /\ \A k \in Nat : Ball(next, n)[k + 1] =
              Ball(next, n)[k] \cup UNION {next[x] : x \in Ball(next, n)[k]}
<1> DEFINE F == [B \in SUBSET N |-> B \cup UNION {next[x] : x \in B}]
           Body(f) == [k \in Nat |->
                         IF k = 0 THEN {n}
                         ELSE f[k - 1] \cup UNION {next[x] : x \in f[k - 1]}]
<1>1. {n} \in SUBSET N
  OBVIOUS
<1>2. F \in [SUBSET N -> SUBSET N]
  BY DEF GraphsOn
<1>3. PICK g \in [Nat -> SUBSET N] :
        g[0] = {n} /\ \A k \in Nat : g[k + 1] = F[g[k]]
  <2> DEFINE S == SUBSET N
             s0 == {n}
  <2> SUFFICES \E g \in [Nat -> S] : g[0] = s0 /\ \A k \in Nat : g[k + 1] = F[g[k]]
    OBVIOUS
  <2>1. s0 \in S /\ F \in [S -> S]
    BY <1>1, <1>2
  <2> HIDE DEF F, S, s0
  <2> QED BY <2>1, LoopExists
<1>4. g = Body(g)
  <2> SUFFICES ASSUME NEW k \in Nat PROVE g[k] = Body(g)[k]
    BY <1>3
  <2>1. CASE k = 0
    BY <2>1, <1>3
  <2>2. CASE k # 0
    <3>1. k - 1 \in Nat /\ k = (k - 1) + 1
      BY <2>2
    <3> QED BY <2>2, <3>1, <1>3
  <2> QED BY <2>1, <2>2
<1>5. Ball(next, n) = CHOOSE f : f = Body(f)
  BY DEF Ball
<1> DEFINE b == CHOOSE f : f = Body(f)
<1>6. b = Body(b)
  BY <1>4
<1> HIDE DEF b
<1>7. b[0] = {n} /\ \A k \in Nat : b[k + 1] = b[k] \cup UNION {next[x] : x \in b[k]}
  <2>1. b[0] = {n}
    BY <1>6
  <2>2. ASSUME NEW k \in Nat PROVE b[k + 1] = b[k] \cup UNION {next[x] : x \in b[k]}
    <3>1. k + 1 \in Nat /\ k + 1 # 0 /\ (k + 1) - 1 = k
      OBVIOUS
    <3>2. b[k + 1] = Body(b)[k + 1]
      BY <1>6
    <3> QED BY <3>1, <3>2
  <2> QED BY <2>1, <2>2
<1>8. b \in [Nat -> SUBSET N]
  <2> DEFINE T == {k \in Nat : b[k] \in SUBSET N}
  <2>1. 0 \in T
    BY <1>7
  <2>2. ASSUME NEW k \in Nat, k \in T PROVE k + 1 \in T
    BY <1>7, <2>2 DEF GraphsOn
  <2> HIDE DEF T
  <2>3. \A k \in Nat : k \in T
    BY <2>1, <2>2, SetInduction
  <2>4. \A k \in Nat : b[k] \in SUBSET N
    BY <2>3 DEF T
  <2>5. b = [k \in Nat |-> b[k]]
    BY <1>6
  <2> QED BY <2>4, <2>5
<1> QED BY <1>5, <1>7, <1>8 DEF b

(* Balls grow with their radius.                                           *)
LEMMA BallGrows ==
  ASSUME NEW N, NEW next \in GraphsOn(N), NEW n \in N,
         NEW j \in Nat, NEW k \in Nat, j <= k
  PROVE  Ball(next, n)[j] \subseteq Ball(next, n)[k]
<1> DEFINE b == Ball(next, n)
           T == {i \in Nat : b[j] \subseteq b[j + i]}
<1>1. \A i \in Nat : b[i] \subseteq b[i + 1]
  BY BallEquations
<1> HIDE DEF b
<1>2. 0 \in T
  OBVIOUS
<1>3. ASSUME NEW i \in Nat, i \in T PROVE i + 1 \in T
  <2>1. b[j + i] \subseteq b[(j + i) + 1] /\ (j + i) + 1 = j + (i + 1)
    BY <1>1
  <2> QED BY <1>3, <2>1
<1> HIDE DEF T
<1>4. k - j \in T
  BY <1>2, <1>3, SetInduction
<1>5. b[j] \subseteq b[j + (k - j)] /\ j + (k - j) = k
  BY <1>4 DEF T
<1> QED BY <1>5 DEF b

(* What is k edges away from a neighbour of n is k + 1 edges away from n.  *)
LEMMA BallShift ==
  ASSUME NEW N, NEW next \in GraphsOn(N), NEW n \in N, NEW h \in next[n],
         NEW k \in Nat
  PROVE  Ball(next, h)[k] \subseteq Ball(next, n)[k + 1]
<1> DEFINE b == Ball(next, n)
           c == Ball(next, h)
           T == {i \in Nat : c[i] \subseteq b[i + 1]}
<1>1. h \in N
  BY DEF GraphsOn
<1>2. /\ b[0] = {n} /\ c[0] = {h}
      /\ \A i \in Nat : b[i + 1] = b[i] \cup UNION {next[x] : x \in b[i]}
      /\ \A i \in Nat : c[i + 1] = c[i] \cup UNION {next[x] : x \in c[i]}
  <2>1. b[0] = {n} /\ \A i \in Nat : b[i + 1] = b[i] \cup UNION {next[x] : x \in b[i]}
    BY BallEquations
  <2>2. c[0] = {h} /\ \A i \in Nat : c[i + 1] = c[i] \cup UNION {next[x] : x \in c[i]}
    BY <1>1, BallEquations
  <2> QED BY <2>1, <2>2
<1> HIDE DEF b, c
<1>3. 0 \in T
  <2>1. b[0 + 1] = b[0] \cup UNION {next[x] : x \in b[0]}
    BY <1>2
  <2> QED BY <1>2, <2>1
<1>4. ASSUME NEW i \in Nat, i \in T PROVE i + 1 \in T
  <2>1. b[(i + 1) + 1] = b[i + 1] \cup UNION {next[x] : x \in b[i + 1]}
    BY <1>2
  <2>2. c[i] \subseteq b[i + 1]
    BY <1>4
  <2>3. c[i + 1] = c[i] \cup UNION {next[x] : x \in c[i]}
    BY <1>2
  <2>4. c[i + 1] \subseteq b[(i + 1) + 1]
    BY <2>1, <2>2, <2>3
  <2> QED BY <2>4
<1> HIDE DEF T
<1>5. k \in T
  BY <1>3, <1>4, SetInduction
<1> QED BY <1>5 DEF T, b, c

(* A distance is a radius at which the node is in the ball and below which *)
(* it is not.                                                              *)
LEMMA DistanceIs ==
  ASSUME NEW N, IsFiniteSet(N), NEW next \in GraphsOn(N), NEW n \in N, NEW d,
         NEW c \in 0 .. Cardinality(N), d \in Ball(next, n)[c],
         \A j \in 0 .. c - 1 : d \notin Ball(next, n)[j]
  PROVE  Distance(next, n, d) = c
<1> DEFINE radii == {k \in 0 .. Cardinality(DOMAIN next) : d \in Ball(next, n)[k]}
<1>1. DOMAIN next = N /\ Cardinality(N) \in Nat
  BY FS_CardinalityType DEF GraphsOn
<1>2. c \in radii /\ \A j \in radii : c <= j
  BY <1>1
<1>3. radii \subseteq Nat
  BY <1>1
<1>4. Distance(next, n, d) = CHOOSE k \in radii : \A j \in radii : k <= j
  BY <1>2 DEF Distance
<1> DEFINE e == CHOOSE k \in radii : \A j \in radii : k <= j
<1> HIDE DEF radii
<1>5. e \in radii /\ \A j \in radii : e <= j
  BY <1>2, Zenon
<1>6. e \in Nat /\ c \in Nat /\ e <= c /\ c <= e
  BY <1>2, <1>3, <1>5
<1> QED BY <1>4, <1>6

LEMMA DistanceIsInfinite ==
  ASSUME NEW N, IsFiniteSet(N), NEW next \in GraphsOn(N), NEW n \in N, NEW d,
         \A k \in Nat : d \notin Ball(next, n)[k]
  PROVE  Distance(next, n, d) = INF
<1>1. DOMAIN next = N /\ Cardinality(N) \in Nat
  BY FS_CardinalityType DEF GraphsOn
<1> QED BY <1>1 DEF Distance

(* A path through h that is as short as any from n is as short as any from *)
(* h once its first edge is taken away.                                    *)
LEMMA FirstEdge ==
  ASSUME NEW N, IsFiniteSet(N), NEW next \in GraphsOn(N), NEW n \in N, NEW d,
         NEW h \in next[n], NEW c \in 1 .. Cardinality(N),
         d \in Ball(next, h)[c - 1],
         \A j \in 0 .. c - 1 : d \notin Ball(next, n)[j]
  PROVE  Distance(next, n, d) = c /\ Distance(next, h, d) = c - 1
<1>1. h \in N /\ Cardinality(N) \in Nat
  BY FS_CardinalityType DEF GraphsOn
<1>2. d \in Ball(next, n)[(c - 1) + 1] /\ (c - 1) + 1 = c
  BY <1>1, BallShift
<1>3. c \in 0 .. Cardinality(N) /\ c - 1 \in 0 .. Cardinality(N)
  BY <1>1
<1>4. Distance(next, n, d) = c
  BY <1>2, <1>3, DistanceIs
<1>5. ASSUME NEW j \in 0 .. (c - 1) - 1 PROVE d \notin Ball(next, h)[j]
  <2>1. j \in Nat /\ j + 1 \in 0 .. c - 1
    BY <1>1
  <2> QED BY <2>1, BallShift
<1>6. Distance(next, h, d) = c - 1
  BY <1>1, <1>3, <1>5, DistanceIs
<1> QED BY <1>4, <1>6

(* Every node is at distance 0 from itself; a distance is INF or at most   *)
(* the number of nodes.                                                    *)
LEMMA DistanceRange ==
  ASSUME NEW N, IsFiniteSet(N), NEW next \in GraphsOn(N), NEW n \in N, NEW d
  PROVE  /\ Distance(next, n, d) \in 0 .. Cardinality(N) \cup {INF}
         /\ Distance(next, n, n) = 0
<1>1. DOMAIN next = N /\ Cardinality(N) \in Nat
  BY FS_CardinalityType DEF GraphsOn
<1>2. Distance(next, n, n) = 0
  <2> DEFINE c == 0
  <2>1. c \in 0 .. Cardinality(N) /\ n \in Ball(next, n)[c]
    BY <1>1, BallEquations
  <2>2. \A j \in 0 .. c - 1 : n \notin Ball(next, n)[j]
    OBVIOUS
  <2> HIDE DEF c
  <2>3. Distance(next, n, n) = c
    BY <2>1, <2>2, DistanceIs
  <2> QED BY <2>3 DEF c
<1> DEFINE radii == {k \in 0 .. Cardinality(N) : d \in Ball(next, n)[k]}
<1>3. CASE radii = {}
  BY <1>1, <1>2, <1>3 DEF Distance
<1>4. CASE radii # {}
  <2>1. radii \subseteq Nat /\ radii \subseteq 0 .. Cardinality(N)
    BY <1>1
  <2>2. Distance(next, n, d) = CHOOSE k \in radii : \A j \in radii : k <= j
    BY <1>1, <1>4 DEF Distance
  <2> HIDE DEF radii
  <2>3. \E x \in radii : \A y \in radii : x <= y
    BY <1>4, <2>1, LeastNatural
  <2>4. (CHOOSE k \in radii : \A j \in radii : k <= j) \in radii
    BY <2>3, Zenon
  <2> QED BY <1>2, <2>1, <2>2, <2>4
<1> QED BY <1>3, <1>4

(* Balls stop growing at the latest when they have every node.             *)
LEMMA BallStops ==
  ASSUME NEW N, IsFiniteSet(N), NEW next \in GraphsOn(N), NEW n \in N, NEW k \in Nat
  PROVE  /\ Cardinality(N) - 1 \in Nat
         /\ Ball(next, n)[k] \subseteq Ball(next, n)[Cardinality(N) - 1]
<1> DEFINE b == Ball(next, n)
           size == Cardinality(N) - 1
           Stuck(j) == b[j + 1] = b[j]
           T == {j \in Nat : Stuck(j) \/ Cardinality(b[j]) >= j + 1}
           U == {j \in Nat : b[size + j] = b[size]}
<1>1. /\ b \in [Nat -> SUBSET N] /\ b[0] = {n}
      /\ \A j \in Nat : b[j + 1] = b[j] \cup UNION {next[x] : x \in b[j]}
  BY BallEquations
<1>2. \A j \in Nat : IsFiniteSet(b[j]) /\ Cardinality(b[j]) \in Nat
  <2> SUFFICES ASSUME NEW j \in Nat PROVE IsFiniteSet(b[j]) /\ Cardinality(b[j]) \in Nat
    OBVIOUS
  <2>1. b[j] \subseteq N
    BY <1>1
  <2> QED BY <2>1, FS_Subset, FS_CardinalityType
<1>3. size \in Nat /\ Cardinality(N) = size + 1
  <2>1. Cardinality(N) \in Nat /\ Cardinality(N) # 0
    BY FS_CardinalityType, FS_EmptySet
  <2> QED BY <2>1
<1> HIDE DEF b, size
<1>4. ASSUME NEW j \in Nat, Stuck(j) PROVE Stuck(j + 1)
  <2>1. j + 1 \in Nat
    OBVIOUS
  <2>2. b[(j + 1) + 1] = b[j + 1] \cup UNION {next[x] : x \in b[j + 1]}
    BY <1>1, <2>1
  <2>3. b[j + 1] = b[j] \cup UNION {next[x] : x \in b[j]}
    BY <1>1
  <2> QED BY <1>4, <2>2, <2>3
<1>5. 0 \in T
  <2>1. Cardinality(b[0]) = 1
    BY <1>1, FS_Singleton
  <2> QED BY <2>1
<1>6. ASSUME NEW j \in Nat, j \in T PROVE j + 1 \in T
  <2>1. CASE Stuck(j)
    BY <1>4, <2>1
  <2>2. CASE ~Stuck(j)
    <3>1. b[j] \subseteq b[j + 1] /\ b[j] # b[j + 1]
      BY <1>1, <2>2
    <3>2. Cardinality(b[j]) < Cardinality(b[j + 1])
      BY <1>2, <3>1, FS_Subset
    <3>3. Cardinality(b[j]) >= j + 1
      BY <1>6, <2>2
    <3>4. Cardinality(b[j + 1]) >= (j + 1) + 1
      BY <1>2, <3>2, <3>3
    <3> QED BY <3>4
  <2> QED BY <2>1, <2>2
<1>7. Stuck(size)
  <2> HIDE DEF T
  <2>1. size \in T
    BY <1>3, <1>5, <1>6, SetInduction
  <2>2. CASE Cardinality(b[size]) >= size + 1
    <3>1. b[size] \subseteq b[size + 1] /\ b[size + 1] \subseteq N /\ b[size] \subseteq N
      BY <1>1, <1>3
    <3>2. Cardinality(b[size]) <= Cardinality(N) /\ (Cardinality(b[size]) = Cardinality(N) => b[size] = N)
      BY <3>1, FS_Subset
    <3>3. b[size] = N
      BY <1>2, <1>3, <2>2, <3>2
    <3> QED BY <3>1, <3>3
  <2> QED BY <2>1, <2>2 DEF T
<1>8. 0 \in U
  BY <1>3
<1>9. ASSUME NEW j \in Nat, j \in U PROVE j + 1 \in U
  <2>1. b[(size + j) + 1] = b[size + j] \cup UNION {next[x] : x \in b[size + j]}
    BY <1>1, <1>3
  <2>2. b[size + 1] = b[size] \cup UNION {next[x] : x \in b[size]}
    BY <1>1, <1>3
  <2>3. (size + j) + 1 = size + (j + 1)
    BY <1>3
  <2> QED BY <1>7, <1>9, <2>1, <2>2, <2>3
<1>10. CASE k <= size
  BY <1>3, <1>10, BallGrows DEF b, size
<1>11. CASE k > size
  <2> HIDE DEF U
  <2>1. k - size \in U
    BY <1>3, <1>8, <1>9, <1>11, SetInduction
  <2>2. size + (k - size) = k
    BY <1>3
  <2>3. b[k] = b[size]
    BY <2>1, <2>2 DEF U
  <2> QED BY <1>3, <2>3 DEF b, size
<1> QED BY <1>3, <1>10, <1>11

(* A node is at a finite distance exactly when some ball has it.           *)
LEMMA DistanceReaches ==
  ASSUME NEW N, IsFiniteSet(N), NEW next \in GraphsOn(N), NEW n \in N, NEW d,
         Cardinality(N) < INF
  PROVE  /\ \A k \in Nat : d \in Ball(next, n)[k] =>
              Distance(next, n, d) \in 0 .. Cardinality(N) /\ Distance(next, n, d) <= k
         /\ Distance(next, n, d) # INF =>
              /\ Distance(next, n, d) \in 0 .. Cardinality(N)
              /\ d \in Ball(next, n)[Distance(next, n, d)]
<1> DEFINE size == Cardinality(N)
           b == Ball(next, n)
           radii == {k \in 0 .. size : d \in b[k]}
           Least(c) == c \in radii /\ \A j \in radii : c <= j
<1>1. DOMAIN next = N /\ size \in Nat
  BY FS_CardinalityType DEF GraphsOn
<1>2. \A k \in Nat : d \in b[k] => d \in b[size]
  <2> SUFFICES ASSUME NEW k \in Nat, d \in b[k] PROVE d \in b[size]
    OBVIOUS
  <2>1. size - 1 \in Nat /\ d \in b[size - 1]
    BY BallStops
  <2>2. b[size - 1] \subseteq b[size]
    BY <1>1, <2>1, BallGrows
  <2> QED BY <2>1, <2>2
<1>3. Distance(next, n, d) = IF radii = {} THEN INF ELSE CHOOSE k \in radii : \A j \in radii : k <= j
  BY <1>1 DEF Distance
<1> HIDE DEF size, b
<1>4. radii \subseteq Nat
  BY <1>1
<1>5. CASE radii = {}
  <2>1. d \notin b[size]
    BY <1>1, <1>5
  <2> QED BY <1>2, <1>3, <1>5, <2>1 DEF b
<1>6. CASE radii # {}
  <2> DEFINE e == CHOOSE k \in radii : \A j \in radii : k <= j
  <2> HIDE DEF radii
  <2>1. \E x \in radii : \A y \in radii : x <= y
    BY <1>4, <1>6, LeastNatural
  <2>2. e \in radii /\ \A j \in radii : e <= j
    BY <2>1, Zenon
  <2>3. Distance(next, n, d) = e
    BY <1>3, <1>6
  <2> HIDE DEF e
  <2>4. e \in 0 .. size /\ d \in b[e]
    BY <2>2 DEF radii
  <2>5. ASSUME NEW k \in Nat, d \in b[k] PROVE e <= k
    <3>1. CASE k <= size
      <4>1. k \in radii
        BY <1>1, <2>5, <3>1 DEF radii
      <4> QED BY <2>2, <4>1
    <3>2. CASE k > size
      BY <1>1, <2>4, <3>2
    <3> QED BY <1>1, <3>1, <3>2
  <2> QED BY <2>3, <2>4, <2>5 DEF b, size
<1> QED BY <1>5, <1>6

(* A shortest path visits no node twice.                                   *)
LEMMA DistanceBound ==
  ASSUME NEW N, IsFiniteSet(N), NEW next \in GraphsOn(N), NEW n \in N, NEW d,
         Cardinality(N) < INF
  PROVE  Distance(next, n, d) \in 0 .. (Cardinality(N) - 1) \cup {INF}
<1> DEFINE D == Distance(next, n, d)
           size == Cardinality(N)
<1>1. D # INF => D \in 0 .. size /\ d \in Ball(next, n)[D]
  BY DistanceReaches
<1>2. CASE D = INF
  BY <1>2
<1>3. CASE D # INF
  <2>1. size - 1 \in Nat /\ d \in Ball(next, n)[size - 1]
    BY <1>1, <1>3, BallStops, FS_CardinalityType
  <2>2. D <= size - 1
    BY <2>1, DistanceReaches
  <2> HIDE DEF D, size
  <2>3. D \in 0 .. size - 1
    BY <1>1, <1>3, <2>1, <2>2
  <2> QED BY <2>3 DEF D, size
<1> QED BY <1>2, <1>3

Unfolds(b, next, n) ==
  b[0] = {n} /\ \A k \in Nat : b[k + 1] = b[k] \cup UNION {next[x] : x \in b[k]}

LEMMA BallUnfolds ==
  ASSUME NEW N, NEW next \in GraphsOn(N), NEW n \in N
  PROVE  Unfolds(Ball(next, n), next, n)
BY BallEquations DEF Unfolds

(* Two graphs that agree on a closed set of nodes have the same distances  *)
(* from its members.                                                       *)
LEMMA SameReach ==
  ASSUME NEW N, IsFiniteSet(N), NEW next \in GraphsOn(N), NEW other \in GraphsOn(N),
         NEW R \in SUBSET N, \A x \in R : next[x] = other[x] /\ next[x] \subseteq R,
         NEW n \in R, NEW d
  PROVE  Distance(next, n, d) = Distance(other, n, d)
<1> DEFINE b == Ball(next, n)
           c == Ball(other, n)
           T == {k \in Nat : b[k] = c[k] /\ b[k] \subseteq R}
<1>1. n \in N
  OBVIOUS
<1>2. Unfolds(b, next, n)
  BY <1>1, BallUnfolds
<1>3. Unfolds(c, other, n)
  BY <1>1, BallUnfolds
<1> HIDE DEF b, c
<1>4. 0 \in T
  BY <1>2, <1>3 DEF Unfolds
<1>5. ASSUME NEW k \in Nat, k \in T PROVE k + 1 \in T
  <2>1. b[k] = c[k] /\ b[k] \subseteq R
    BY <1>5
  <2>2. UNION {next[x] : x \in b[k]} = UNION {other[x] : x \in c[k]}
    BY <2>1
  <2>3. UNION {next[x] : x \in b[k]} \subseteq R
    BY <2>1
  <2>4. b[k + 1] = c[k + 1] /\ b[k + 1] \subseteq R
    BY <1>2, <1>3, <2>1, <2>2, <2>3 DEF Unfolds
  <2> QED BY <2>4
<1> HIDE DEF T
<1>6. \A k \in Nat : b[k] = c[k]
  <2>1. \A k \in Nat : k \in T
    BY <1>4, <1>5, SetInduction
  <2> QED BY <2>1 DEF T
<1> DEFINE P == {k \in 0 .. Cardinality(N) : d \in b[k]}
           Q == {k \in 0 .. Cardinality(N) : d \in c[k]}
<1>7. DOMAIN next = N /\ DOMAIN other = N /\ Cardinality(N) \in Nat
  BY FS_CardinalityType DEF GraphsOn
<1>8. P = Q
  BY <1>6, <1>7
<1>9. Distance(next, n, d) = IF P = {} THEN INF ELSE CHOOSE k \in P : \A j \in P : k <= j
  BY <1>7 DEF Distance, b
<1>10. Distance(other, n, d) = IF Q = {} THEN INF ELSE CHOOSE k \in Q : \A j \in Q : k <= j
  BY <1>7 DEF Distance, c
<1> HIDE DEF P, Q
<1> QED BY <1>8, <1>9, <1>10

(* A node without edges reaches no other.                                  *)
LEMMA NoEdges ==
  ASSUME NEW N, IsFiniteSet(N), NEW next \in GraphsOn(N), NEW n \in N, next[n] = {},
         NEW d, d # n
  PROVE  Distance(next, n, d) = INF
<1> DEFINE b == Ball(next, n)
           T == {k \in Nat : b[k] = {n}}
<1>1. Unfolds(b, next, n)
  BY BallUnfolds
<1> HIDE DEF b
<1>2. 0 \in T
  BY <1>1 DEF Unfolds
<1>3. ASSUME NEW k \in Nat, k \in T PROVE k + 1 \in T
  BY <1>1, <1>3 DEF Unfolds
<1> HIDE DEF T
<1>4. \A k \in Nat : k \in T
  BY <1>2, <1>3, SetInduction
<1>5. \A k \in Nat : d \notin b[k]
  BY <1>4 DEF T
<1> QED BY <1>5, DistanceIsInfinite DEF b

(* What n can reach, with the edges that lead there, is closed.            *)
LEMMA ReachIsClosed ==
  ASSUME NEW N, IsFiniteSet(N), NEW next \in GraphsOn(N), NEW n \in N,
         Cardinality(N) < INF,
         NEW x \in N, Distance(next, n, x) # INF, NEW y \in next[x]
  PROVE  y \in N /\ Distance(next, n, y) # INF
<1> DEFINE c == Distance(next, n, x)
           b == Ball(next, n)
<1>1. y \in N /\ Cardinality(N) \in Nat
  BY FS_CardinalityType DEF GraphsOn
<1>2. c \in 0 .. Cardinality(N) /\ x \in b[c]
  BY DistanceReaches
<1>3. \A k \in Nat : b[k + 1] = b[k] \cup UNION {next[z] : z \in b[k]}
  BY BallEquations
<1> HIDE DEF c, b
<1>4. c \in Nat /\ c + 1 \in Nat
  BY <1>1, <1>2
<1>5. y \in b[c + 1]
  BY <1>2, <1>3, <1>4
<1>6. Distance(next, n, y) \in 0 .. Cardinality(N)
  BY <1>4, <1>5, DistanceReaches DEF b
<1>7. INF \in Nat
  BY SMT DEF INF
<1> QED BY <1>1, <1>6, <1>7

(* A path does not leave a closed set.                                     *)
LEMMA PathsStayInside ==
  ASSUME NEW N, IsFiniteSet(N), NEW next \in GraphsOn(N), Cardinality(N) < INF,
         NEW R \in SUBSET N, \A x \in R : next[x] \subseteq R,
         NEW n \in R, NEW d, Distance(next, n, d) # INF
  PROVE  d \in R
<1> DEFINE b == Ball(next, n)
           T == {k \in Nat : b[k] \subseteq R}
<1>1. n \in N
  OBVIOUS
<1>2. Unfolds(b, next, n)
  BY <1>1, BallUnfolds
<1>3. \E k \in Nat : d \in b[k]
  BY <1>1, DistanceIsInfinite
<1> HIDE DEF b
<1>4. 0 \in T
  BY <1>2 DEF Unfolds
<1>5. ASSUME NEW k \in Nat, k \in T PROVE k + 1 \in T
  <2>1. b[k] \subseteq R
    BY <1>5
  <2>2. UNION {next[x] : x \in b[k]} \subseteq R
    BY <2>1
  <2> QED BY <1>2, <2>1, <2>2 DEF Unfolds
<1> HIDE DEF T
<1>6. \A k \in Nat : k \in T
  BY <1>4, <1>5, SetInduction
<1> QED BY <1>3, <1>6 DEF T

(* A path that is not empty starts with an edge.                           *)
LEMMA PathStarts ==
  ASSUME NEW N, NEW next \in GraphsOn(N), NEW n \in N, NEW d
  PROVE  \A k \in Nat : d \in Ball(next, n)[k + 1] =>
           d = n \/ \E h \in next[n] : d \in Ball(next, h)[k]
<1> DEFINE b == Ball(next, n)
           c(h) == Ball(next, h)
           Starts(x, k) == x = n \/ \E h \in next[n] : x \in c(h)[k]
           T == {k \in Nat : \A x \in b[k + 1] : Starts(x, k)}
<1>1. Unfolds(b, next, n) /\ \A h \in next[n] : h \in N /\ Unfolds(c(h), next, h)
  <2>1. \A h \in next[n] : h \in N
    BY DEF GraphsOn
  <2> QED BY <2>1, BallUnfolds
<1> HIDE DEF b, c
<1>2. 0 \in T
  <2>1. b[0 + 1] = {n} \cup next[n]
    <3>1. b[0] = {n} /\ b[0 + 1] = b[0] \cup UNION {next[x] : x \in b[0]}
      BY <1>1 DEF Unfolds
    <3>2. UNION {next[x] : x \in {n}} = next[n]
      OBVIOUS
    <3> QED BY <3>1, <3>2
  <2>2. \A h \in next[n] : h \in c(h)[0]
    BY <1>1 DEF Unfolds
  <2> QED BY <2>1, <2>2
<1>3. ASSUME NEW k \in Nat, k \in T PROVE k + 1 \in T
  <2> SUFFICES ASSUME NEW x \in b[(k + 1) + 1] PROVE Starts(x, k + 1)
    OBVIOUS
  <2>1. \A y \in b[k + 1] : Starts(y, k)
    BY <1>3
  <2>2. k + 1 \in Nat /\ b[(k + 1) + 1] = b[k + 1] \cup UNION {next[y] : y \in b[k + 1]}
    BY <1>1 DEF Unfolds
  <2>3. \A h \in next[n] : c(h)[k + 1] = c(h)[k] \cup UNION {next[y] : y \in c(h)[k]}
    BY <1>1 DEF Unfolds
  <2>4. CASE x \in b[k + 1]
    BY <2>1, <2>3, <2>4
  <2>5. ASSUME NEW y \in b[k + 1], x \in next[y] PROVE Starts(x, k + 1)
    <3>1. CASE y = n
      <4>1. x \in next[n] /\ x \in N
        BY <1>1, <2>5, <3>1
      <4>2. x \in Ball(next, x)[0] /\ Ball(next, x)[0] \subseteq Ball(next, x)[k + 1]
        BY <2>2, <4>1, BallEquations, BallGrows
      <4> QED BY <4>1, <4>2 DEF c
    <3>2. CASE \E h \in next[n] : y \in c(h)[k]
      BY <2>3, <2>5, <3>2
    <3> QED BY <2>1, <3>1, <3>2
  <2> QED BY <2>2, <2>4, <2>5
<1> HIDE DEF T
<1>4. \A k \in Nat : k \in T
  BY <1>2, <1>3, SetInduction
<1> QED BY <1>4 DEF T, b, c

(* Bellman's equations: the distance to another node is one more than the  *)
(* least distance that an edge leads to.                                   *)
LEMMA DistanceEquations ==
  ASSUME NEW N, IsFiniteSet(N), Cardinality(N) < INF, NEW next \in GraphsOn(N),
         NEW n \in N, NEW d
  PROVE  LET D(x) == Distance(next, x, d)
         IN  /\ \A h \in next[n] : D(h) # INF => D(n) # INF /\ D(n) <= D(h) + 1
             /\ n # d /\ D(n) # INF => D(n) >= 1 /\ \E h \in next[n] : D(h) = D(n) - 1
<1> DEFINE D(x) == Distance(next, x, d)
           C == Cardinality(N)
<1>1. C \in Nat /\ INF \in Nat /\ C < INF
  <2>1. INF \in Nat
    BY SMT DEF INF
  <2> QED BY <2>1, FS_CardinalityType
<1>2. \A x \in N : \A k \in Nat :
        d \in Ball(next, x)[k] => D(x) \in 0 .. C /\ D(x) <= k
  BY DistanceReaches
<1>3. \A x \in N : D(x) # INF => D(x) \in 0 .. C /\ d \in Ball(next, x)[D(x)]
  BY DistanceReaches
<1>4. \A h \in next[n] : h \in N
  BY DEF GraphsOn
<1> HIDE DEF D, C
<1>5. ASSUME NEW h \in next[n], D(h) # INF
      PROVE  D(n) # INF /\ D(n) <= D(h) + 1
  <2>1. h \in N /\ D(h) \in Nat /\ D(h) + 1 \in Nat /\ d \in Ball(next, h)[D(h)]
    BY <1>1, <1>3, <1>4, <1>5
  <2>2. d \in Ball(next, n)[D(h) + 1]
    BY <2>1, BallShift
  <2>3. D(n) \in 0 .. C /\ D(n) <= D(h) + 1
    BY <1>2, <2>1, <2>2
  <2> QED BY <1>1, <2>3
<1>6. ASSUME n # d, D(n) # INF
      PROVE  D(n) >= 1 /\ \E h \in next[n] : D(h) = D(n) - 1
  <2>1. D(n) \in 0 .. C /\ d \in Ball(next, n)[D(n)]
    BY <1>3, <1>6
  <2>2. Ball(next, n)[0] = {n}
    BY BallEquations
  <2>3. D(n) # 0
    BY <1>6, <2>1, <2>2
  <2> DEFINE k == D(n) - 1
  <2>4. k \in Nat /\ k + 1 = D(n)
    BY <1>1, <2>1, <2>3
  <2> HIDE DEF k
  <2>5. PICK h \in next[n] : d \in Ball(next, h)[k]
    BY <1>6, <2>1, <2>4, PathStarts
  <2>6. D(h) \in 0 .. C /\ D(h) <= k
    BY <1>2, <1>4, <2>4, <2>5
  <2>7. D(n) <= D(h) + 1
    BY <1>1, <1>5, <2>6
  <2>8. D(h) = D(n) - 1
    BY <1>1, <2>4, <2>6, <2>7
  <2> QED BY <1>1, <2>1, <2>3, <2>8
<1> QED BY <1>5, <1>6 DEF D

-----------------------------------------------------------------------------
(***************************************************************************)
(* Sequences of packets.  A packet has a sender, a message, and the set of *)
(* the receivers whose copies are still in flight.                         *)
(***************************************************************************)
(* The elements after the one that is removed move up.                     *)
LEMMA RemoveAtElements ==
  ASSUME NEW S, NEW s \in Seq(S), NEW i \in 1 .. Len(s)
  PROVE  /\ RemoveAt(s, i) \in Seq(S) /\ Len(RemoveAt(s, i)) = Len(s) - 1
         /\ \A j \in 1 .. Len(s) - 1 : RemoveAt(s, i)[j] = IF j < i THEN s[j] ELSE s[j + 1]
<1> DEFINE before == SubSeq(s, 1, i - 1)
           after  == SubSeq(s, i + 1, Len(s))
<1>1. /\ before \in Seq(S) /\ Len(before) = i - 1
      /\ \A j \in 1 .. Len(before) : before[j] = s[j]
  OBVIOUS
<1>2. /\ after \in Seq(S) /\ Len(after) = Len(s) - i
      /\ \A j \in 1 .. Len(after) : after[j] = s[i + j]
  OBVIOUS
<1> HIDE DEF before, after
<1>3. RemoveAt(s, i) = before \o after
  BY DEF RemoveAt, before, after
<1>4. /\ before \o after \in Seq(S)
      /\ Len(before \o after) = Len(s) - 1
      /\ \A j \in 1 .. Len(s) - 1 :
           (before \o after)[j] = IF j <= i - 1 THEN before[j] ELSE after[j - (i - 1)]
  BY <1>1, <1>2, ConcatProperties
<1>5. ASSUME NEW j \in 1 .. Len(s) - 1
      PROVE  (before \o after)[j] = IF j < i THEN s[j] ELSE s[j + 1]
  <2>1. CASE j < i
    BY <1>1, <1>4, <2>1
  <2>2. CASE ~(j < i)
    BY <1>2, <1>4, <2>2
  <2> QED BY <2>1, <2>2
<1> QED BY <1>3, <1>4, <1>5

(* Removing an element leaves the other elements.                          *)
LEMMA RemoveAtProperties ==
  ASSUME NEW S, NEW s \in Seq(S), NEW i \in 1 .. Len(s)
  PROVE  /\ RemoveAt(s, i) \in Seq(S)
         /\ \A k \in 1 .. Len(s) \ {i} :
              \E j \in 1 .. Len(RemoveAt(s, i)) : RemoveAt(s, i)[j] = s[k]
<1> DEFINE w == RemoveAt(s, i)
<1>1. /\ w \in Seq(S) /\ Len(w) = Len(s) - 1
      /\ \A j \in 1 .. Len(s) - 1 : w[j] = IF j < i THEN s[j] ELSE s[j + 1]
  BY RemoveAtElements
<1> HIDE DEF w
<1>2. ASSUME NEW k \in 1 .. Len(s) \ {i}
      PROVE  \E j \in 1 .. Len(w) : w[j] = s[k]
  <2>1. CASE k < i
    <3>1. k \in 1 .. Len(w) /\ w[k] = s[k]
      BY <1>1, <2>1
    <3> QED BY <3>1
  <2>2. CASE k > i
    <3>1. k - 1 \in 1 .. Len(s) - 1 /\ ~(k - 1 < i) /\ (k - 1) + 1 = k
      BY <2>2
    <3>2. w[k - 1] = s[k]
      BY <1>1, <3>1
    <3> QED BY <1>1, <3>1, <3>2
  <2>3. k < i \/ k > i
    OBVIOUS
  <2> QED BY <2>1, <2>2, <2>3, Zenon
<1> QED BY <1>1, <1>2 DEF w

PacketsOf(N, M) == [from : N, to : SUBSET N, msg : M]

(* A copy of msg is on its way from f to x.                                *)
InFlight(q, f, x, msg) ==
  \E k \in 1 .. Len(q) : q[k].from = f /\ q[k].msg = msg /\ x \in q[k].to

(* The packets without the copy of packet i that is for r.                 *)
Without(q, i, r) ==
  IF q[i].to = {r} THEN RemoveAt(q, i) ELSE [q EXCEPT ![i].to = @ \ {r}]

(* Taking a copy off the network leaves packets of any kind that does not  *)
(* depend on who is still to receive them.                                 *)
LEMMA WithoutProperties ==
  ASSUME NEW N, NEW M, NEW S \in SUBSET PacketsOf(N, M),
         \A p \in S : \A x : [p EXCEPT !.to = @ \ {x}] \in S,
         NEW q \in Seq(S), NEW i \in 1 .. Len(q), NEW r
  PROVE  Without(q, i, r) \in Seq(S)
<1>0. q[i] \in S /\ q[i] \in PacketsOf(N, M)
  OBVIOUS
<1>1. q[i] \in S /\ [q[i] EXCEPT !.to = @ \ {r}] \in S
  BY <1>0 DEF PacketsOf
<1>2. CASE q[i].to = {r}
  BY <1>2, RemoveAtProperties DEF Without
<1>3. CASE q[i].to # {r}
  <2>1. Without(q, i, r) = [q EXCEPT ![i] = [q[i] EXCEPT !.to = @ \ {r}]]
    BY <1>3 DEF Without
  <2> QED BY <1>1, <2>1
<1> QED BY <1>2, <1>3

(* The other copies stay on their way.                                     *)
LEMMA OthersInFlight ==
  ASSUME NEW N, NEW M, NEW q \in Seq(PacketsOf(N, M)), NEW i \in 1 .. Len(q), NEW r,
         NEW f, NEW x, NEW m, InFlight(q, f, x, m)
  PROVE  \/ InFlight(Without(q, i, r), f, x, m)
         \/ f = q[i].from /\ x = r /\ m = q[i].msg
<1> DEFINE S == PacketsOf(N, M)
<1>1. q[i] \in S /\ q \in Seq(S)
  OBVIOUS
<1>2. PICK k \in 1 .. Len(q) : q[k].from = f /\ q[k].msg = m /\ x \in q[k].to
  BY DEF InFlight
<1>3. CASE q[i].to = {r}
  <2> DEFINE w == RemoveAt(q, i)
  <2>1. Without(q, i, r) = w
    BY <1>3 DEF Without
  <2> HIDE DEF S
  <2>2. /\ w \in Seq(S)
        /\ \A l \in 1 .. Len(q) \ {i} : \E j \in 1 .. Len(w) : w[j] = q[l]
    BY <1>1, RemoveAtProperties
  <2> HIDE DEF w
  <2>3. CASE k = i
    BY <1>2, <1>3, <2>3
  <2>4. CASE k # i
    BY <1>2, <2>1, <2>2, <2>4 DEF InFlight
  <2> QED BY <2>3, <2>4
<1>4. CASE q[i].to # {r}
  <2> DEFINE p == [q[i] EXCEPT !.to = @ \ {r}]
             w == [q EXCEPT ![i] = p]
  <2>1. Without(q, i, r) = w
    BY <1>4 DEF Without
  <2>2. p \in S /\ p.from = q[i].from /\ p.msg = q[i].msg /\ p.to = q[i].to \ {r}
    BY <1>1 DEF PacketsOf
  <2> HIDE DEF p, S
  <2>3. /\ w \in Seq(S) /\ Len(w) = Len(q)
        /\ \A j \in 1 .. Len(q) : w[j] = IF j = i THEN p ELSE q[j]
    BY <1>1, <2>2
  <2> HIDE DEF w
  <2>4. CASE k = i /\ x = r
    BY <1>2, <2>4
  <2>5. CASE k # i \/ x # r
    BY <1>2, <2>1, <2>2, <2>3, <2>5 DEF InFlight
  <2> QED BY <2>4, <2>5
<1> QED BY <1>3, <1>4

(* Packet k of q has a copy on its way from m to x.                        *)
CopyAt(q, k, m, x) == q[k].from = m /\ x \in q[k].to

(* The packets of w are those of q in the same order, at the places that   *)
(* f gives, and only the copy of packet i that is for r is missing.        *)
InOrder(q, w, i, r, f) ==
  /\ f \in [1 .. Len(w) -> 1 .. Len(q)]
  /\ \A a, b \in 1 .. Len(w) : a < b => f[a] < f[b]
  /\ \A a \in 1 .. Len(w) :
       /\ w[a].msg = q[f[a]].msg
       /\ \A m, x : CopyAt(w, a, m, x) <=> CopyAt(q, f[a], m, x) /\ ~(f[a] = i /\ x = r)
  /\ \A k \in 1 .. Len(q) : \A m, x :
       CopyAt(q, k, m, x) /\ ~(k = i /\ x = r) => \E a \in 1 .. Len(w) : f[a] = k

(* Taking a copy off the network keeps the order of the others.            *)
LEMMA WithoutInOrder ==
  ASSUME NEW N, NEW M, NEW q \in Seq(PacketsOf(N, M)), NEW i \in 1 .. Len(q), NEW r
  PROVE  \E f : InOrder(q, Without(q, i, r), i, r, f)
<1> DEFINE S == PacketsOf(N, M)
<1>1. q[i] \in S /\ q \in Seq(S) /\ Len(q) \in Nat
  OBVIOUS
<1>2. CASE q[i].to = {r}
  <2> DEFINE w == RemoveAt(q, i)
             f == [a \in 1 .. Len(w) |-> IF a < i THEN a ELSE a + 1]
  <2>1. Without(q, i, r) = w
    BY <1>2 DEF Without
  <2> HIDE DEF S
  <2>2. /\ w \in Seq(S) /\ Len(w) = Len(q) - 1
        /\ \A a \in 1 .. Len(q) - 1 : w[a] = IF a < i THEN q[a] ELSE q[a + 1]
    BY <1>1, RemoveAtElements
  <2> HIDE DEF w
  <2>3. f \in [1 .. Len(w) -> 1 .. Len(q)] /\ \A a, b \in 1 .. Len(w) : a < b => f[a] < f[b]
    BY <1>1, <2>2
  <2>4. \A a \in 1 .. Len(w) : w[a] = q[f[a]] /\ f[a] # i
    BY <1>1, <2>2
  <2>5. \A k \in 1 .. Len(q) : k # i => \E a \in 1 .. Len(w) : f[a] = k
    <3> SUFFICES ASSUME NEW k \in 1 .. Len(q), k # i PROVE \E a \in 1 .. Len(w) : f[a] = k
      OBVIOUS
    <3>1. CASE k < i
      <4>1. k \in 1 .. Len(w) /\ f[k] = k
        BY <1>1, <2>2, <3>1
      <4> QED BY <4>1
    <3>2. CASE k > i
      <4>1. k - 1 \in 1 .. Len(w) /\ f[k - 1] = k
        BY <1>1, <2>2, <3>2
      <4> QED BY <4>1
    <3> QED BY <3>1, <3>2
  <2>6. \A m, x : CopyAt(q, i, m, x) => x = r
    BY <1>2 DEF CopyAt
  <2> HIDE DEF f
  <2>7. \A k \in 1 .. Len(q) : \A m, x :
          CopyAt(q, k, m, x) /\ ~(k = i /\ x = r) => \E a \in 1 .. Len(w) : f[a] = k
    BY <2>5, <2>6
  <2>8. InOrder(q, w, i, r, f)
    BY <2>3, <2>4, <2>7 DEF InOrder, CopyAt
  <2> QED BY <2>1, <2>8
<1>3. CASE q[i].to # {r}
  <2> DEFINE p == [q[i] EXCEPT !.to = @ \ {r}]
             w == [q EXCEPT ![i] = p]
             f == [a \in 1 .. Len(w) |-> a]
  <2>1. Without(q, i, r) = w
    BY <1>3 DEF Without
  <2>2. p \in S /\ p.from = q[i].from /\ p.msg = q[i].msg /\ p.to = q[i].to \ {r}
    BY <1>1 DEF PacketsOf
  <2> HIDE DEF p, S
  <2>3. /\ w \in Seq(S) /\ Len(w) = Len(q)
        /\ \A j \in 1 .. Len(q) : w[j] = IF j = i THEN p ELSE q[j]
    BY <1>1, <2>2
  <2> HIDE DEF w
  <2>4. f \in [1 .. Len(w) -> 1 .. Len(q)] /\ \A a \in 1 .. Len(w) : f[a] = a
    BY <2>3
  <2> HIDE DEF f
  <2>5. \A a \in 1 .. Len(w) :
          /\ w[a].msg = q[a].msg
          /\ \A m, x : CopyAt(w, a, m, x) <=> CopyAt(q, a, m, x) /\ ~(a = i /\ x = r)
    BY <2>2, <2>3 DEF CopyAt
  <2>6. InOrder(q, w, i, r, f)
    BY <2>3, <2>4, <2>5 DEF InOrder
  <2> QED BY <2>1, <2>6
<1> QED BY <1>2, <1>3

(* Sending appends.                                                        *)
LEMMA ConcatInFlight ==
  ASSUME NEW S, NEW a \in Seq(S), NEW b \in Seq(S), NEW f, NEW x, NEW m
  PROVE  InFlight(a \o b, f, x, m) <=> InFlight(a, f, x, m) \/ InFlight(b, f, x, m)
<1>1. /\ Len(a \o b) = Len(a) + Len(b)
      /\ \A j \in 1 .. Len(a) + Len(b) :
           (a \o b)[j] = IF j <= Len(a) THEN a[j] ELSE b[j - Len(a)]
  BY ConcatProperties
<1>2. Len(a) \in Nat /\ Len(b) \in Nat
  OBVIOUS
<1>3. ASSUME InFlight(a \o b, f, x, m)
      PROVE  InFlight(a, f, x, m) \/ InFlight(b, f, x, m)
  <2>1. PICK j \in 1 .. Len(a) + Len(b) :
          (a \o b)[j].from = f /\ (a \o b)[j].msg = m /\ x \in (a \o b)[j].to
    BY <1>1, <1>3 DEF InFlight
  <2>2. CASE j <= Len(a)
    BY <1>1, <1>2, <2>1, <2>2 DEF InFlight
  <2>3. CASE ~(j <= Len(a))
    <3>1. j - Len(a) \in 1 .. Len(b) /\ (a \o b)[j] = b[j - Len(a)]
      BY <1>1, <1>2, <2>3
    <3> QED BY <2>1, <3>1 DEF InFlight
  <2> QED BY <2>2, <2>3
<1>4. ASSUME InFlight(a, f, x, m) PROVE InFlight(a \o b, f, x, m)
  <2>1. PICK j \in 1 .. Len(a) : a[j].from = f /\ a[j].msg = m /\ x \in a[j].to
    BY <1>4 DEF InFlight
  <2>2. j \in 1 .. Len(a) + Len(b) /\ (a \o b)[j] = a[j]
    BY <1>1, <1>2
  <2> QED BY <1>1, <2>1, <2>2 DEF InFlight
<1>5. ASSUME InFlight(b, f, x, m) PROVE InFlight(a \o b, f, x, m)
  <2>1. PICK j \in 1 .. Len(b) : b[j].from = f /\ b[j].msg = m /\ x \in b[j].to
    BY <1>5 DEF InFlight
  <2>2. j + Len(a) \in 1 .. Len(a) + Len(b) /\ (a \o b)[j + Len(a)] = b[j]
    BY <1>1, <1>2
  <2> QED BY <1>1, <2>1, <2>2 DEF InFlight
<1> QED BY <1>3, <1>4, <1>5
=============================================================================
