------------------------------ MODULE Induction ------------------------------
(***************************************************************************)
(* Induction, recursion and order, stated for sets, functions and          *)
(* relations, which the provers can instantiate, in place of operators:    *)
(* what the proofs about folds, sorted sets and flattened sequences use.   *)
(* Then sums over finite sets, which FiniteSetsExt adds up in an order     *)
(* that it leaves open, the parts of a sequence, quotients and remainders. *)
(***************************************************************************)
EXTENDS Integers, FiniteSetsExt, SequencesExt, FiniteSetTheorems,
        FunctionTheorems, SequenceTheorems, WellFoundedInduction, TLAPS

(* A set that contains 0 and with every number the next one holds them all. *)
LEMMA Induction ==
    ASSUME NEW T, 0 \in T, \A i \in Nat : i \in T => i + 1 \in T
    PROVE  Nat \subseteq T
<1> DEFINE R == OpToRel(<, Nat)
           D == Nat \ T
<1>1. IsWellFoundedOn(R, Nat)
  BY NatLessThanWellFounded
<1>2. \A y, x \in Nat : y < x => <<y, x>> \in R
  BY DEF OpToRel
<1> HIDE DEF R
<1>3. SUFFICES ASSUME D # {} PROVE FALSE
  OBVIOUS
<1>4. PICK x \in D : \A y \in D : ~(<<y, x>> \in R)
  BY <1>1, <1>3, WFMin
<1>5. x \in Nat /\ x \notin T /\ x # 0
  BY <1>4
<1>6. x - 1 \in Nat /\ x - 1 < x /\ (x - 1) + 1 = x
  BY <1>5
<1>7. x - 1 \notin D
  BY <1>2, <1>4, <1>5, <1>6
<1> QED BY <1>5, <1>6, <1>7

(* The same up to a number N. *)
LEMMA InductionUpTo ==
    ASSUME NEW N \in Nat, NEW T, 0 \in T,
           \A i \in Nat : i < N /\ i \in T => i + 1 \in T
    PROVE  \A i \in 0 .. N : i \in T
<1> DEFINE U == {i \in Nat : i <= N => i \in T}
<1>1. 0 \in U
  OBVIOUS
<1>2. \A i \in Nat : i \in U => i + 1 \in U
  OBVIOUS
<1> HIDE DEF U
<1>3. Nat \subseteq U
  BY <1>1, <1>2, Induction
<1> QED BY <1>3 DEF U

-----------------------------------------------------------------------------
(* f is built from base by the functions G[1], G[2], ... up to n. *)
Builds(f, n, base, G) ==
    /\ f[0] = base
    /\ \A i \in 1 .. n : f[i] = G[i][f[i - 1]]

(* The same without end. *)
Recurses(f, base, G) ==
    /\ f[0] = base
    /\ \A i \in Nat \ {0} : f[i] = G[i][f[i - 1]]

(* A recursive function of the natural numbers exists. *)
LEMMA Recursion ==
    ASSUME NEW S, NEW base \in S, NEW G \in [Nat \ {0} -> [S -> S]]
    PROVE  \E f \in [Nat -> S] : Recurses(f, base, G)
<1> DEFINE P(n) == {f \in [0 .. n -> S] : Builds(f, n, base, G)}
           T == {n \in Nat : P(n) # {}}
<1>1. 0 \in T
  <2> DEFINE f == [i \in 0 .. 0 |-> base]
  <2>1. f \in P(0)
    BY DEF Builds
  <2> QED BY <2>1
<1>2. ASSUME NEW n \in Nat, n \in T PROVE n + 1 \in T
  <2>1. PICK f \in [0 .. n -> S] : Builds(f, n, base, G)
    BY <1>2
  <2> DEFINE g == [i \in 0 .. n + 1 |-> IF i = n + 1 THEN G[n + 1][f[n]]
                                                    ELSE f[i]]
  <2>2. G[n + 1] \in [S -> S] /\ f[n] \in S
    BY <2>1
  <2>3. g \in [0 .. n + 1 -> S]
    BY <2>1, <2>2
  <2>4. g[0] = base
    BY <2>1 DEF Builds
  <2>5. ASSUME NEW i \in 1 .. n + 1 PROVE g[i] = G[i][g[i - 1]]
    <3>1. CASE i = n + 1
      <4>1. g[i] = G[n + 1][f[n]] /\ g[i - 1] = f[n]
        BY <3>1
      <4> QED BY <4>1, <3>1
    <3>2. CASE i # n + 1
      <4>1. i \in 1 .. n /\ g[i] = f[i] /\ g[i - 1] = f[i - 1]
        BY <3>2
      <4> QED BY <4>1, <2>1 DEF Builds
    <3> QED BY <3>1, <3>2
  <2>6. g \in P(n + 1)
    <3> HIDE DEF g
    <3> QED BY <2>3, <2>4, <2>5 DEF Builds
  <2> HIDE DEF P
  <2> QED BY <2>6
<1>3. \A n \in Nat : P(n) # {}
  <2> HIDE DEF P
  <2> QED BY <1>1, <1>2, Induction
<1>4. ASSUME NEW n \in Nat, NEW f \in P(n), NEW m \in Nat, NEW g \in P(m)
      PROVE  \A i \in Nat : i <= n /\ i <= m => f[i] = g[i]
  <2> DEFINE U == {i \in Nat : i <= n /\ i <= m => f[i] = g[i]}
  <2>1. 0 \in U
    BY DEF Builds
  <2>2. ASSUME NEW i \in Nat, i \in U PROVE i + 1 \in U
    <3>1. SUFFICES ASSUME i + 1 <= n, i + 1 <= m PROVE f[i + 1] = g[i + 1]
      OBVIOUS
    <3>2. i + 1 \in 1 .. n /\ i + 1 \in 1 .. m /\ (i + 1) - 1 = i
      BY <3>1
    <3>3. f[i] = g[i]
      BY <2>2, <3>1
    <3> QED BY <3>2, <3>3 DEF Builds
  <2> HIDE DEF U
  <2>3. Nat \subseteq U
    BY <2>1, <2>2, Induction
  <2> QED BY <2>3 DEF U
<1> DEFINE part == [n \in Nat |-> CHOOSE f \in P(n) : TRUE]
           whole == [n \in Nat |-> part[n][n]]
<1>5. \A n \in Nat : part[n] \in P(n)
  <2> HIDE DEF P
  <2> QED BY <1>3
<1>6. \A n \in Nat : whole[n] = part[n][n] /\ whole[n] \in S
  <2> HIDE DEF part
  <2> QED BY <1>5
<1>7. whole[0] = base
  <2> HIDE DEF whole, part
  <2> QED BY <1>5, <1>6 DEF Builds
<1>8. ASSUME NEW i \in Nat \ {0} PROVE whole[i] = G[i][whole[i - 1]]
  <2> HIDE DEF part
  <2>1. i - 1 \in Nat /\ i \in Nat /\ i \in 1 .. i /\ i - 1 <= i
    OBVIOUS
  <2>2. part[i] \in P(i) /\ part[i - 1] \in P(i - 1)
    BY <2>1, <1>5
  <2>3. part[i][i - 1] = part[i - 1][i - 1]
    <3> HIDE DEF P
    <3> QED BY <2>1, <2>2, <1>4
  <2>4. part[i][i] = G[i][part[i][i - 1]]
    BY <2>1, <2>2 DEF Builds
  <2> QED BY <2>1, <2>3, <2>4
<1>9. whole \in [Nat -> S]
  <2> HIDE DEF part
  <2> QED BY <1>6
<1> QED
  <2> HIDE DEF whole
  <2> QED BY <1>7, <1>8, <1>9 DEF Recurses

-----------------------------------------------------------------------------
(* The greatest number of an interval, and of a set that holds its bound. *)
LEMMA MaxIsBound ==
    ASSUME NEW k \in Nat, NEW S, S \subseteq 1 .. k, k \in S
    PROVE  Max(S) = k
<1>1. \A y \in S : k >= y /\ y \in Nat
  OBVIOUS
<1>2. ASSUME NEW x \in S, \A y \in S : x >= y PROVE x = k
  BY <1>1, <1>2
<1> QED BY <1>1, <1>2 DEF Max

(* A set of numbers up to k that is not empty has a greatest one. *)
LEMMA MaxExists ==
    ASSUME NEW k \in Nat, NEW S, S \subseteq 1 .. k, S # {}
    PROVE  Max(S) \in S /\ \A y \in S : Max(S) >= y
<1> DEFINE T == {i \in Nat : \A U : U \subseteq 1 .. i /\ U # {} =>
                                       \E x \in U : \A y \in U : x >= y}
<1>1. 0 \in T
  OBVIOUS
<1>2. ASSUME NEW i \in Nat, i \in T PROVE i + 1 \in T
  <2>1. ASSUME NEW U, U \subseteq 1 .. i + 1, U # {}
        PROVE  \E x \in U : \A y \in U : x >= y
    <3>1. CASE i + 1 \in U
      BY <2>1, <3>1
    <3>2. CASE i + 1 \notin U
      <4>1. U \subseteq 1 .. i
        BY <2>1, <3>2
      <4> QED BY <1>2, <2>1, <4>1
    <3> QED BY <3>1, <3>2
  <2> QED BY <2>1
<1>3. k \in T
  <2> HIDE DEF T
  <2>1. Nat \subseteq T
    BY <1>1, <1>2, Induction
  <2> QED BY <2>1
<1> QED BY <1>3 DEF Max

-----------------------------------------------------------------------------
(* Folds over sequences, as SequencesExt defines them: by recursion over   *)
(* the sets of positions.                                                  *)

(* it takes the positions in a set from the least to the greatest. *)
Iterates(it, N, base, G) ==
    \A S \in SUBSET (1 .. N) :
        it[S] = IF S = {} THEN base ELSE G[Max(S)][it[S \ {Max(S)}]]

(* Such an iteration exists. *)
LEMMA Iteration ==
    ASSUME NEW N \in Nat, NEW V, NEW base \in V,
           NEW G \in [1 .. N -> [V -> V]]
    PROVE  \E it \in [SUBSET (1 .. N) -> V] : Iterates(it, N, base, G)
<1> DEFINE P(k) == \E it \in [SUBSET (1 .. k) -> V] : Iterates(it, k, base, G)
           T == {k \in Nat : P(k)}
<1>1. 0 \in T
  <2> DEFINE it == [S \in SUBSET (1 .. 0) |-> base]
  <2>1. it \in [SUBSET (1 .. 0) -> V]
    OBVIOUS
  <2>2. \A S \in SUBSET (1 .. 0) : S = {} /\ it[S] = base
    OBVIOUS
  <2>3. Iterates(it, 0, base, G)
    BY <2>2 DEF Iterates
  <2> HIDE DEF it
  <2> QED BY <2>1, <2>3
<1>2. ASSUME NEW k \in Nat, k < N, k \in T PROVE k + 1 \in T
  <2>1. PICK it \in [SUBSET (1 .. k) -> V] : Iterates(it, k, base, G)
    BY <1>2
  <2> DEFINE J == SUBSET (1 .. k + 1)
             jt == [S \in J |-> IF k + 1 \in S THEN G[k + 1][it[S \ {k + 1}]]
                                               ELSE it[S]]
  <2>2. ASSUME NEW S \in J
        PROVE  /\ k + 1 \in S => /\ S \ {k + 1} \in SUBSET (1 .. k)
                                 /\ Max(S) = k + 1
               /\ k + 1 \notin S => S \in SUBSET (1 .. k)
    <3>1. k + 1 \in S => Max(S) = k + 1
      <4>1. k + 1 \in Nat
        OBVIOUS
      <4> QED BY <4>1, MaxIsBound
    <3>2. ASSUME NEW x \in S, x # k + 1 PROVE x \in 1 .. k
      BY <3>2
    <3> QED BY <3>1, <3>2
  <2>3. G[k + 1] \in [V -> V]
    BY <1>2
  <2>4. jt \in [J -> V]
    <3>1. ASSUME NEW S \in J PROVE jt[S] \in V
      BY <2>1, <2>2, <2>3
    <3> QED BY <3>1
  <2>5. Iterates(jt, k + 1, base, G)
    <3>1. ASSUME NEW S \in J
          PROVE  jt[S] = IF S = {} THEN base ELSE G[Max(S)][jt[S \ {Max(S)}]]
      <4>1. S \ {Max(S)} \in J
        OBVIOUS
      <4>2. CASE k + 1 \in S
        <5>1. jt[S] = G[k + 1][it[S \ {k + 1}]]
          BY <4>2
        <5>2. jt[S \ {k + 1}] = it[S \ {k + 1}]
          BY <4>2
        <5> QED BY <4>2, <5>1, <5>2, <2>2
      <4>3. CASE k + 1 \notin S
        <5>1. /\ jt[S] = it[S] /\ S \in SUBSET (1 .. k)
              /\ jt[S \ {Max(S)}] = it[S \ {Max(S)}]
          BY <4>1, <4>3, <2>2
        <5> QED BY <5>1, <2>1 DEF Iterates
      <4> QED BY <4>2, <4>3
    <3> QED BY <3>1 DEF Iterates
  <2> HIDE DEF jt
  <2> QED BY <2>4, <2>5
<1>3. N \in T
  <2> HIDE DEF T
  <2>1. \A i \in 0 .. N : i \in T
    BY <1>1, <1>2, InductionUpTo
  <2> QED BY <2>1
<1> QED BY <1>3

(* The values of an iteration over the first positions. *)
LEMMA IterationStep ==
    ASSUME NEW k \in Nat \ {0}
    PROVE  /\ Max(1 .. k) = k /\ (1 .. k) \ {k} = 1 .. (k - 1)
           /\ 1 .. k # {}
<1>1. Max(1 .. k) = k
  BY MaxIsBound
<1>2. \A x : x \in (1 .. k) \ {k} <=> x \in 1 .. (k - 1)
  OBVIOUS
<1>3. k \in 1 .. k
  OBVIOUS
<1> QED BY <1>1, <1>2, <1>3

-----------------------------------------------------------------------------
(* The elements of a finite set in order.                                  *)

(* s lists every element of S once. *)
Lists(s, S) ==
    /\ s \in Seq(S)
    /\ \A i, j \in 1 .. Len(s) : s[i] = s[j] => i = j
    /\ \A t \in S : \E i \in 1 .. Len(s) : s[i] = t

(* Each element of s comes before the next ones in R. *)
InOrder(s, R) == \A i, j \in 1 .. Len(s) : i < j => <<s[i], s[j]>> \in R

(* R orders the elements of S. *)
Orders(R, S) ==
    /\ \A t \in S : <<t, t>> \notin R
    /\ \A t, u, v \in S : <<t, u>> \in R /\ <<u, v>> \in R => <<t, v>> \in R
    /\ \A t, u \in S : t = u \/ <<t, u>> \in R \/ <<u, t>> \in R

(* A function on the first numbers is a sequence. *)
LEMMA FunctionIsSeq ==
    ASSUME NEW n \in Nat, NEW S, NEW s \in [1 .. n -> S]
    PROVE  s \in Seq(S) /\ Len(s) = n
<1>1. s \in Seq(S)
  OBVIOUS
<1>2. DOMAIN s = 1 .. n /\ DOMAIN s = 1 .. Len(s) /\ Len(s) \in Nat
  BY <1>1, LenProperties
<1> QED BY <1>1, <1>2

(* A sequence of elements of U is one of elements of a larger set. *)
LEMMA SeqOfMore ==
    ASSUME NEW X, NEW U \in SUBSET X, NEW s \in Seq(U)
    PROVE  s \in Seq(X)
<1>1. Len(s) \in Nat /\ s \in [1 .. Len(s) -> U]
  BY LenProperties
<1>2. s \in [1 .. Len(s) -> X]
  BY <1>1
<1> QED BY <1>1, <1>2, FunctionIsSeq

(* How many elements of S come before t. *)
Rank(S, R) == [t \in S |-> Cardinality({u \in S : <<u, t>> \in R})]

(* Every number below n is a rank. *)
RanksReach(S, R, n) == \A i \in 0 .. n - 1 : \E t \in S : Rank(S, R)[t] = i

(* The ranks of n elements are the numbers below n. *)
LEMMA RankIsBijective ==
    ASSUME NEW S, IsFiniteSet(S), NEW R, Orders(R, S),
           NEW n \in Nat, n = Cardinality(S)
    PROVE  /\ \A t \in S : Rank(S, R)[t] \in 0 .. n - 1
           /\ \A t, u \in S : <<t, u>> \in R => Rank(S, R)[t] < Rank(S, R)[u]
           /\ \A t, u \in S : Rank(S, R)[t] = Rank(S, R)[u] => t = u
           /\ RanksReach(S, R, n)
<1>1. n = Cardinality(S)
  OBVIOUS
<1> DEFINE Below(t) == {u \in S : <<u, t>> \in R}
           rank == [t \in S |-> Cardinality(Below(t))]
<1>6. rank = Rank(S, R)
  BY DEF Rank
<1>2. ASSUME NEW t \in S
      PROVE  IsFiniteSet(Below(t)) /\ rank[t] \in 0 .. n - 1
  <2>1. Below(t) \in SUBSET S /\ t \notin Below(t)
    BY DEF Orders
  <2>2. /\ IsFiniteSet(Below(t)) /\ Cardinality(Below(t)) <= n
        /\ Cardinality(Below(t)) \in Nat /\ Cardinality(Below(t)) # n
    <3> HIDE DEF Below
    <3>1. /\ IsFiniteSet(Below(t)) /\ Cardinality(Below(t)) <= Cardinality(S)
          /\ Below(t) # S
      BY <2>1, FS_Subset
    <3>2. PICK m \in Nat : m = Cardinality(Below(t))
      BY <3>1, FS_CardinalityType
    <3>3. m # n
      BY <1>1, <2>1, <3>1, <3>2, FS_Subset
    <3>4. m <= n
      BY <1>1, <3>1, <3>2
    <3> QED BY <3>1, <3>2, <3>3, <3>4
  <2> HIDE DEF Below
  <2> QED BY <1>1, <2>2
<1>3. ASSUME NEW t \in S, NEW u \in S, <<t, u>> \in R PROVE rank[t] < rank[u]
  <2>1. Below(t) \in SUBSET Below(u)
    BY <1>3 DEF Orders
  <2>2. Below(t) # Below(u)
    <3>1. t \in Below(u) /\ t \notin Below(t)
      BY <1>3 DEF Orders
    <3> HIDE DEF Below
    <3> QED BY <3>1
  <2>3. /\ Cardinality(Below(t)) <= Cardinality(Below(u))
        /\ Cardinality(Below(t)) # Cardinality(Below(u))
    <3> HIDE DEF Below
    <3> QED BY <1>2, <2>1, <2>2, FS_Subset
  <2> HIDE DEF Below
  <2>4. /\ rank[t] = Cardinality(Below(t)) /\ rank[t] \in 0 .. n - 1
        /\ rank[u] = Cardinality(Below(u)) /\ rank[u] \in 0 .. n - 1
    BY <1>2
  <2> HIDE DEF rank
  <2>5. rank[t] <= rank[u] /\ rank[t] # rank[u]
    BY <2>3, <2>4
  <2> QED BY <2>4, <2>5
<1> HIDE DEF Below
<1>4. \A t, u \in S : rank[t] = rank[u] => t = u
  <2> HIDE DEF rank
  <2> SUFFICES ASSUME NEW t \in S, NEW u \in S, rank[t] = rank[u], t # u
               PROVE  FALSE
    OBVIOUS
  <2>1. rank[t] < rank[u] \/ rank[u] < rank[t]
    BY <1>3 DEF Orders
  <2>2. rank[t] \in Int /\ rank[u] \in Int
    BY <1>2
  <2> QED BY <2>1, <2>2
<1>5. \A i \in 0 .. n - 1 : \E t \in S : rank[t] = i
  <2>1. rank \in Injection(S, 0 .. n - 1)
    <3>1. rank \in [S -> 0 .. n - 1]
      BY <1>2
    <3> HIDE DEF rank
    <3> QED BY <3>1, <1>4 DEF Injection, IsInjective
  <2>2. /\ IsFiniteSet(0 .. n - 1) /\ Cardinality(0 .. n - 1) = n
    <3>1. n - 1 \in Int /\ 0 \in Int /\ (IF 0 > n - 1 THEN 0 ELSE (n - 1) - 0 + 1) = n
      BY <1>1
    <3> QED BY <3>1, FS_Interval
  <2>3. rank \in Surjection(S, 0 .. n - 1)
    <3> HIDE DEF rank
    <3>1. Cardinality(S) = Cardinality(0 .. n - 1)
      BY <1>1, <2>2
    <3> QED BY <2>1, <2>2, <3>1, FS_Injection
  <2> HIDE DEF rank
  <2> QED BY <2>3 DEF Surjection
<1> HIDE DEF rank
<1> QED BY <1>2, <1>3, <1>4, <1>5, <1>6 DEF RanksReach

(* A finite set is listed in order by the ranks of its elements. *)
LEMMA Ranks ==
    ASSUME NEW S, IsFiniteSet(S), NEW R, Orders(R, S),
           NEW n \in Nat, n = Cardinality(S), NEW s \in [1 .. n -> S],
           \A i \in 1 .. n : Rank(S, R)[s[i]] = i - 1
    PROVE  /\ Lists(s, S) /\ Len(s) = n
           /\ InOrder(s, R)
<1>1. PICK rank : /\ rank = Rank(S, R)
                  /\ \A t \in S : rank[t] \in 0 .. n - 1
                  /\ \A t, u \in S : <<t, u>> \in R => rank[t] < rank[u]
                  /\ \A t, u \in S : rank[t] = rank[u] => t = u
  BY RankIsBijective
<1>2. \A i \in 1 .. n : s[i] \in S /\ rank[s[i]] = i - 1
  BY <1>1
<1>7. s \in Seq(S) /\ Len(s) = n
  BY FunctionIsSeq
<1>8. ASSUME NEW i \in 1 .. n, NEW j \in 1 .. n, s[i] = s[j] PROVE i = j
  <2>1. i - 1 = j - 1
    BY <1>2, <1>8
  <2> QED BY <2>1
<1>9. ASSUME NEW t \in S PROVE \E i \in 1 .. n : s[i] = t
  <2>1. PICK k \in 0 .. n - 1 : k = rank[t]
    BY <1>1
  <2>2. k + 1 \in 1 .. n /\ (k + 1) - 1 = k
    OBVIOUS
  <2>3. rank[s[k + 1]] = k /\ s[k + 1] \in S
    BY <1>2, <2>2
  <2>4. s[k + 1] = t
    BY <2>1, <2>3, <1>1
  <2> QED BY <2>2, <2>4
<1>10. ASSUME NEW i \in 1 .. n, NEW j \in 1 .. n, i < j
       PROVE  <<s[i], s[j]>> \in R
  <2>1. /\ s[i] \in S /\ s[j] \in S
        /\ rank[s[i]] = i - 1 /\ rank[s[j]] = j - 1
    BY <1>2
  <2>2. s[i] # s[j]
    <3>1. i # j
      BY <1>10
    <3> QED BY <1>8, <3>1
  <2>3. ~(<<s[j], s[i]>> \in R)
    <3>1. ~(j - 1 < i - 1)
      BY <1>10
    <3> QED BY <2>1, <3>1, <1>1
  <2> QED BY <2>1, <2>2, <2>3 DEF Orders
<1> QED BY <1>7, <1>8, <1>9, <1>10 DEF Lists, InOrder

-----------------------------------------------------------------------------
(* A sequence q that flattens the first n sequences of ss: position j of   *)
(* q is position pos[j] of the sequence blk[j].                            *)
Splices(q, ss, n, blk, pos) ==
    /\ \A j \in 1 .. Len(q) : /\ blk[j] \in 1 .. n
                              /\ pos[j] \in 1 .. Len(ss[blk[j]])
                              /\ q[j] = ss[blk[j]][pos[j]]
    /\ \A i, j \in 1 .. Len(q) : blk[i] = blk[j] /\ pos[i] = pos[j] => i = j
    /\ \A i \in 1 .. n : \A p \in 1 .. Len(ss[i]) :
          \E j \in 1 .. Len(q) : blk[j] = i /\ pos[j] = p

Flattens(q, ss, n) == \E blk, pos : Splices(q, ss, n, blk, pos)

(* One more sequence. *)
LEMMA FlattensOneMore ==
    ASSUME NEW X, NEW ss \in Seq(Seq(X)), NEW n \in Nat, n + 1 \in 1 .. Len(ss),
           NEW q \in Seq(X), Flattens(q, ss, n)
    PROVE  Flattens(q \o ss[n + 1], ss, n + 1)
<1>1. PICK blk, pos : Splices(q, ss, n, blk, pos)
  BY DEF Flattens
<1> DEFINE a == Len(q)
           b == Len(ss[n + 1])
           r == q \o ss[n + 1]
           blk2 == [j \in 1 .. a + b |-> IF j <= a THEN blk[j] ELSE n + 1]
           pos2 == [j \in 1 .. a + b |-> IF j <= a THEN pos[j] ELSE j - a]
<1>2. /\ a \in Nat /\ b \in Nat /\ ss[n + 1] \in Seq(X)
      /\ Len(r) = a + b
      /\ \A j \in 1 .. a + b : r[j] = IF j <= a THEN q[j] ELSE ss[n + 1][j - a]
  <2>1. ss[n + 1] \in Seq(X)
    OBVIOUS
  <2> QED BY <2>1
<1> HIDE DEF r, a, b
<1>3. ASSUME NEW j \in 1 .. a + b
      PROVE  \/ /\ j \in 1 .. a /\ blk2[j] = blk[j] /\ pos2[j] = pos[j] /\ r[j] = q[j]
             \/ /\ j - a \in 1 .. b /\ blk2[j] = n + 1 /\ pos2[j] = j - a
                /\ r[j] = ss[n + 1][j - a] /\ j > a
  BY <1>2
<1>4. \A j \in 1 .. a : j \in 1 .. a + b /\ blk2[j] = blk[j] /\ pos2[j] = pos[j]
  BY <1>2
<1>5. \A p \in 1 .. b : a + p \in 1 .. a + b /\ blk2[a + p] = n + 1 /\ pos2[a + p] = p
  BY <1>2
<1>6. \A j \in 1 .. a : /\ blk[j] \in 1 .. n
                        /\ pos[j] \in 1 .. Len(ss[blk[j]])
                        /\ q[j] = ss[blk[j]][pos[j]]
  BY <1>1 DEF Splices, a
<1>7. \A i, j \in 1 .. a : blk[i] = blk[j] /\ pos[i] = pos[j] => i = j
  BY <1>1 DEF Splices, a
<1>8. \A i \in 1 .. n : \A p \in 1 .. Len(ss[i]) :
          \E j \in 1 .. a : blk[j] = i /\ pos[j] = p
  BY <1>1 DEF Splices, a
<1> HIDE DEF blk2, pos2
<1>9. ASSUME NEW j \in 1 .. a + b
      PROVE  /\ blk2[j] \in 1 .. n + 1
             /\ pos2[j] \in 1 .. Len(ss[blk2[j]])
             /\ r[j] = ss[blk2[j]][pos2[j]]
  <2>1. CASE /\ j \in 1 .. a /\ blk2[j] = blk[j] /\ pos2[j] = pos[j] /\ r[j] = q[j]
    BY <2>1, <1>6
  <2>2. CASE /\ j - a \in 1 .. b /\ blk2[j] = n + 1 /\ pos2[j] = j - a
             /\ r[j] = ss[n + 1][j - a]
    BY <2>2 DEF b
  <2> QED BY <2>1, <2>2, <1>3
<1>10. ASSUME NEW i \in 1 .. a + b, NEW j \in 1 .. a + b,
              blk2[i] = blk2[j], pos2[i] = pos2[j]
       PROVE  i = j
  <2>1. \A k \in 1 .. a : blk[k] # n + 1
    <3>1. \A x \in 1 .. n : x # n + 1
      OBVIOUS
    <3> QED BY <3>1, <1>6
  <2>2. CASE i <= a
    <3>1. i \in 1 .. a /\ j \in 1 .. a
      BY <1>2, <1>3, <1>10, <2>1, <2>2
    <3> QED BY <3>1, <1>4, <1>7, <1>10
  <2>3. CASE i > a
    <3>1. j > a
      BY <1>2, <1>3, <1>10, <2>1, <2>3
    <3>2. pos2[i] = i - a /\ pos2[j] = j - a
      BY <1>2, <1>3, <2>3, <3>1
    <3>3. a \in Nat /\ i \in Int /\ j \in Int
      BY <1>2
    <3>4. i - a = j - a
      BY <1>10, <3>2
    <3> QED BY <3>3, <3>4
  <2> QED BY <1>2, <2>2, <2>3
<1>11. ASSUME NEW i \in 1 .. n + 1, NEW p \in 1 .. Len(ss[i])
       PROVE  \E j \in 1 .. a + b : blk2[j] = i /\ pos2[j] = p
  <2>1. CASE i \in 1 .. n
    <3>1. PICK j \in 1 .. a : blk[j] = i /\ pos[j] = p
      BY <2>1, <1>8
    <3> QED BY <3>1, <1>4
  <2>2. CASE i = n + 1
    <3>1. p \in 1 .. b
      BY <2>2 DEF b
    <3> QED BY <3>1, <2>2, <1>5
  <2> QED BY <2>1, <2>2
<1>12. Splices(r, ss, n + 1, blk2, pos2)
  BY <1>2, <1>9, <1>10, <1>11 DEF Splices
<1> QED BY <1>12 DEF Flattens, r

(* FlattenSeq() puts the sequences one after another. *)
LEMMA FlattenSeqPlaces ==
    ASSUME NEW X, NEW ss \in Seq(Seq(X))
    PROVE  FlattenSeq(ss) \in Seq(X) /\ Flattens(FlattenSeq(ss), ss, Len(ss))
<1>1. PICK N \in Nat : N = Len(ss) /\ \A i \in 1 .. N : ss[i] \in Seq(X)
  OBVIOUS
<1>2. CASE N = 0
  <2>1. FlattenSeq(ss) = ss
    <3>1. Len(ss) = 0
      BY <1>1, <1>2
    <3> QED BY <3>1, Zenon DEF FlattenSeq
  <2>2. Len(ss) = 0 /\ ss = <<>>
    <3>1. Len(ss) = 0
      BY <1>1, <1>2
    <3> QED BY <3>1, EmptySeq
  <2>3. ss \in Seq(X)
    BY <2>2
  <2>4. Splices(ss, ss, 0, <<>>, <<>>)
    BY <2>2 DEF Splices
  <2> QED BY <2>1, <2>2, <2>3, <2>4 DEF Flattens
<1>3. CASE N # 0
  <2> DEFINE G == [i \in Nat \ {0} |->
                      [v \in Seq(X) |-> IF i <= N THEN v \o ss[i] ELSE v]]
             Flat(f) == [i \in 1 .. N |-> IF i = 1 THEN ss[i] ELSE f[i - 1] \o ss[i]]
             c == CHOOSE f : f = Flat(f)
  <2>1. G \in [Nat \ {0} -> [Seq(X) -> Seq(X)]]
    BY <1>1
  <2>2. <<>> \in Seq(X)
    OBVIOUS
  <2>3. PICK f \in [Nat -> Seq(X)] : Recurses(f, <<>>, G)
    <3> HIDE DEF G
    <3> QED BY <2>1, <2>2, Recursion
  <2>4. \A i \in 1 .. N : f[i] = f[i - 1] \o ss[i] /\ f[i - 1] \in Seq(X)
    <3>1. ASSUME NEW i \in 1 .. N PROVE f[i] = f[i - 1] \o ss[i] /\ f[i - 1] \in Seq(X)
      <4>1. i \in Nat \ {0} /\ i - 1 \in Nat /\ i <= N
        BY <1>1
      <4>2. f[i] = G[i][f[i - 1]]
        BY <4>1, <2>3 DEF Recurses
      <4> QED BY <4>1, <4>2
    <3> QED BY <3>1
  <2>5. f[0] = <<>>
    BY <2>3 DEF Recurses
  <2> DEFINE g == [i \in 1 .. N |-> f[i]]
  <2>6. g = Flat(g)
    <3>1. ASSUME NEW i \in 1 .. N
          PROVE  f[i] = IF i = 1 THEN ss[i] ELSE g[i - 1] \o ss[i]
      <4>1. CASE i = 1
        <5>1. f[1] = f[0] \o ss[1]
          <6>1. 1 \in 1 .. N /\ 1 - 1 = 0
            BY <1>3
          <6> QED BY <6>1, <2>4
        <5> QED BY <5>1, <4>1, <1>1, <2>5
      <4>2. CASE i # 1
        <5>1. i - 1 \in 1 .. N
          BY <4>2, <1>1
        <5> QED BY <5>1, <4>2, <2>4
      <4> QED BY <4>1, <4>2
    <3> QED BY <3>1
  <2>7. c = Flat(c)
    <3> HIDE DEF Flat, g
    <3> QED BY <2>6
  <2>8. FlattenSeq(ss) = c[N]
    BY <1>1, <1>3 DEF FlattenSeq
  <2>12. \A i \in 1 .. N : c[i] = IF i = 1 THEN ss[i] ELSE c[i - 1] \o ss[i]
    <3>1. c = [i \in 1 .. N |-> IF i = 1 THEN ss[i] ELSE c[i - 1] \o ss[i]]
      <4> HIDE DEF c
      <4> QED BY <2>7
    <3> HIDE DEF c
    <3> QED BY <3>1
  <2> HIDE DEF c
  <2> DEFINE T == {i \in 0 .. N : i # 0 => c[i] \in Seq(X) /\ Flattens(c[i], ss, i)}
  <2>9. 0 \in T
    BY <1>1
  <2>10. ASSUME NEW i \in Nat, i < N, i \in T PROVE i + 1 \in T
    <3>4. i + 1 \in 1 .. N /\ (i + 1) - 1 = i /\ i + 1 \in 0 .. N /\ i + 1 # 0
      <4>1. i \in Nat /\ N \in Nat /\ i < N
        BY <2>10
      <4> HIDE DEF T
      <4> QED BY <4>1
    <3>1. /\ i + 1 \in 1 .. N /\ (i + 1) - 1 = i /\ ss[i + 1] \in Seq(X)
          /\ i + 1 \in 1 .. Len(ss)
      BY <1>1, <3>4
    <3>2. CASE i = 0
      <4>1. c[1] = ss[1] /\ ss[1] = <<>> \o ss[1]
        <5>1. c[1] = ss[1] /\ ss[1] \in Seq(X)
          BY <3>1, <3>2, <2>12
        <5> QED BY <5>1
      <4>2. Splices(<<>>, ss, 0, <<>>, <<>>)
        BY DEF Splices
      <4>3. Flattens(<<>> \o ss[0 + 1], ss, 0 + 1)
        BY <2>2, <3>1, <3>2, <4>2, FlattensOneMore DEF Flattens
      <4> QED BY <3>4, <3>1, <3>2, <4>1, <4>3
    <3>3. CASE i # 0
      <4>1. c[i + 1] = c[i] \o ss[i + 1]
        <5>1. i + 1 # 1
          BY <3>3, <2>10
        <5> QED BY <3>1, <5>1, <2>12
      <4>2. c[i] \in Seq(X) /\ Flattens(c[i], ss, i)
        BY <2>10, <3>3
      <4>3. Flattens(c[i] \o ss[i + 1], ss, i + 1)
        BY <3>1, <4>2, FlattensOneMore
      <4>4. c[i] \o ss[i + 1] \in Seq(X)
        BY <3>1, <4>2
      <4> QED BY <3>4, <4>1, <4>3, <4>4
    <3> QED BY <3>2, <3>3
  <2> HIDE DEF T
  <2>11. N \in T
    <3>1. \A i \in 0 .. N : i \in T
      BY <1>1, <2>9, <2>10, InductionUpTo
    <3> QED BY <1>1, <3>1
  <2> QED BY <2>8, <2>11, <1>1, <1>3 DEF T
<1> QED BY <1>2, <1>3

-----------------------------------------------------------------------------
(* A function that stays in V from each number to the next.                *)
LEMMA StaysIn ==
    ASSUME NEW N \in Nat, NEW V, NEW f, f[0] \in V,
           \A i \in 1 .. N : f[i - 1] \in V => f[i] \in V
    PROVE  \A i \in 0 .. N : f[i] \in V
<1> DEFINE T == {i \in 0 .. N : f[i] \in V}
<1>1. 0 \in T
  OBVIOUS
<1>2. ASSUME NEW i \in Nat, i < N, i \in T PROVE i + 1 \in T
  <2>1. i + 1 \in 1 .. N /\ (i + 1) - 1 = i /\ f[i] \in V
    BY <1>2
  <2> QED BY <2>1
<1> HIDE DEF T
<1>3. \A i \in 0 .. N : i \in T
  BY <1>1, <1>2, InductionUpTo
<1> QED BY <1>3 DEF T

-----------------------------------------------------------------------------
(* Sums over finite sets, as FiniteSetsExt defines them.                   *)

Pick(s) == CHOOSE x \in s : TRUE

(* it adds up F over the subsets of S. *)
Sums(it, S, F) ==
    \A s \in SUBSET S :
        it[s] = IF s = {} THEN 0 ELSE F[Pick(s)] + it[s \ {Pick(s)}]

(* What is picked is there, and one less remains. *)
LEMMA PickOne ==
    ASSUME NEW S, IsFiniteSet(S), NEW s \in SUBSET S, NEW x \in s
    PROVE  /\ IsFiniteSet(s) /\ Cardinality(s) \in Nat \ {0}
           /\ s \ {x} \in SUBSET S /\ Cardinality(s \ {x}) = Cardinality(s) - 1
           /\ Pick(s) \in s
<1>1. IsFiniteSet(s) /\ Cardinality(s) \in Nat
  BY FS_Subset, FS_CardinalityType
<1>2. Cardinality(s) # 0
  BY <1>1, FS_EmptySet
<1>3. Cardinality(s \ {x}) = Cardinality(s) - 1
  BY <1>1, FS_RemoveElement
<1>4. Pick(s) \in s
  BY DEF Pick
<1> QED BY <1>1, <1>2, <1>3, <1>4

(* Such a sum exists. *)
LEMMA SumExists ==
    ASSUME NEW S, IsFiniteSet(S), NEW F \in [S -> Int]
    PROVE  \E it \in [SUBSET S -> Int] : Sums(it, S, F)
<1> DEFINE D(n) == {s \in SUBSET S : Cardinality(s) <= n}
           Eq(it, s) == it[s] = IF s = {} THEN 0 ELSE F[Pick(s)] + it[s \ {Pick(s)}]
           T == {n \in Nat : \E it \in [D(n) -> Int] : \A s \in D(n) : Eq(it, s)}
<1>1. \A s \in SUBSET S : Cardinality(s) \in Nat /\ (Cardinality(s) = 0 <=> s = {})
  BY FS_Subset, FS_CardinalityType, FS_EmptySet
<1>2. 0 \in T
  <2> DEFINE it == [s \in D(0) |-> 0]
  <2>1. \A s \in D(0) : s = {}
    BY <1>1
  <2>2. it \in [D(0) -> Int] /\ \A s \in D(0) : Eq(it, s)
    BY <2>1
  <2> HIDE DEF it, Eq, D
  <2> QED BY <2>2
<1>3. ASSUME NEW n \in Nat, n \in T PROVE n + 1 \in T
  <2>1. PICK it \in [D(n) -> Int] : \A s \in D(n) : Eq(it, s)
    BY <1>3
  <2> DEFINE jt == [s \in D(n + 1) |-> IF Cardinality(s) <= n THEN it[s]
                                       ELSE F[Pick(s)] + it[s \ {Pick(s)}]]
  <2>2. ASSUME NEW s \in D(n + 1), s # {}
        PROVE  /\ Pick(s) \in s /\ F[Pick(s)] \in Int
               /\ s \ {Pick(s)} \in D(n) /\ s \ {Pick(s)} \in D(n + 1)
               /\ Cardinality(s \ {Pick(s)}) <= n
    <3>1. Pick(s) \in s
      BY <2>2 DEF Pick
    <3>2. /\ Cardinality(s) \in Nat \ {0} /\ s \ {Pick(s)} \in SUBSET S
          /\ Cardinality(s \ {Pick(s)}) = Cardinality(s) - 1
      BY <3>1, PickOne
    <3>3. Cardinality(s) <= n + 1
      OBVIOUS
    <3> QED BY <3>1, <3>2, <3>3
  <2>3. jt \in [D(n + 1) -> Int]
    <3>1. ASSUME NEW s \in D(n + 1) PROVE jt[s] \in Int
      <4>1. CASE Cardinality(s) <= n
        BY <2>1, <4>1
      <4>2. CASE ~(Cardinality(s) <= n)
        <5>1. s # {}
          BY <1>1, <4>2
        <5> HIDE DEF D
        <5>2. it[s \ {Pick(s)}] \in Int /\ F[Pick(s)] \in Int
          BY <2>1, <2>2, <5>1
        <5> QED BY <4>2, <5>2
      <4> QED BY <4>1, <4>2
    <3> HIDE DEF D
    <3> QED BY <3>1
  <2>4. ASSUME NEW s \in D(n + 1) PROVE Eq(jt, s)
    <3>1. CASE s = {}
      <4>1. s \in D(n) /\ Cardinality(s) <= n
        BY <1>1, <3>1
      <4>2. Eq(it, s)
        BY <2>1, <4>1
      <4> QED BY <4>1, <4>2, <3>1
    <3>2. CASE s # {} /\ Cardinality(s) <= n
      <4>1. s \in D(n) /\ Eq(it, s)
        BY <2>1, <3>2
      <4>2. jt[s] = it[s] /\ jt[s \ {Pick(s)}] = it[s \ {Pick(s)}]
        BY <2>2, <3>2
      <4> QED BY <4>1, <4>2, <3>2
    <3>3. CASE s # {} /\ ~(Cardinality(s) <= n)
      <4>1. /\ jt[s] = F[Pick(s)] + it[s \ {Pick(s)}]
            /\ jt[s \ {Pick(s)}] = it[s \ {Pick(s)}]
        BY <2>2, <3>3
      <4> QED BY <4>1, <3>3
    <3> QED BY <3>1, <3>2, <3>3
  <2> HIDE DEF jt, Eq, D
  <2> QED BY <2>3, <2>4
<1> HIDE DEF T
<1>4. Nat \subseteq T
  BY <1>2, <1>3, Induction
<1>5. PICK n : n = Cardinality(S) /\ n \in Nat
  BY FS_CardinalityType
<1>6. PICK it \in [D(n) -> Int] : \A s \in D(n) : Eq(it, s)
  BY <1>4, <1>5 DEF T
<1>7. D(n) = SUBSET S
  <2>1. \A s \in SUBSET S : Cardinality(s) <= n
    BY <1>5, FS_Subset
  <2> QED BY <2>1
<1> HIDE DEF D
<1> QED BY <1>6, <1>7 DEF Sums

(* Sums over a set and over another one agree on the subsets of both. *)
LEMMA SumSame ==
    ASSUME NEW S, IsFiniteSet(S), NEW S2, NEW F, NEW F2,
           NEW it, NEW jt, Sums(it, S, F), Sums(jt, S2, F2),
           NEW R, R \subseteq S, R \subseteq S2, \A x \in R : F[x] = F2[x]
    PROVE  it[R] = jt[R]
<1> DEFINE T == {n \in Nat : \A s \in SUBSET R : Cardinality(s) = n => it[s] = jt[s]}
<1>1. 0 \in T
  <2>1. ASSUME NEW s \in SUBSET R, Cardinality(s) = 0 PROVE it[s] = jt[s]
    <3>1. IsFiniteSet(s)
      BY FS_Subset
    <3>2. s = {}
      BY <2>1, <3>1, FS_EmptySet
    <3> QED BY <3>2 DEF Sums
  <2> QED BY <2>1
<1>2. ASSUME NEW n \in Nat, n \in T PROVE n + 1 \in T
  <2>1. ASSUME NEW s \in SUBSET R, Cardinality(s) = n + 1 PROVE it[s] = jt[s]
    <3>1. s # {}
      BY <2>1, FS_EmptySet
    <3>2. Pick(s) \in s
      BY <3>1 DEF Pick
    <3>3. /\ s \ {Pick(s)} \in SUBSET R
          /\ Cardinality(s \ {Pick(s)}) = Cardinality(s) - 1
      BY <3>2, PickOne
    <3>4. it[s \ {Pick(s)}] = jt[s \ {Pick(s)}]
      BY <1>2, <2>1, <3>3
    <3>5. F[Pick(s)] = F2[Pick(s)]
      BY <3>2
    <3>6. /\ it[s] = F[Pick(s)] + it[s \ {Pick(s)}]
          /\ jt[s] = F2[Pick(s)] + jt[s \ {Pick(s)}]
      <4>1. s \in SUBSET S /\ s \in SUBSET S2
        OBVIOUS
      <4> QED BY <3>1, <4>1 DEF Sums
    <3> QED BY <3>4, <3>5, <3>6
  <2> QED BY <2>1
<1> HIDE DEF T
<1>3. Nat \subseteq T
  BY <1>1, <1>2, Induction
<1>4. Cardinality(R) \in Nat
  BY FS_Subset, FS_CardinalityType
<1> QED BY <1>3, <1>4 DEF T

(* Whatever is picked, a sum may be taken apart at any element. *)
Additive(it, S, F) ==
    \A s \in SUBSET S : \A y \in s : it[s] = F[y] + it[s \ {y}]

(* Whatever element is picked first, the sum is the same. *)
LEMMA SumAdds ==
    ASSUME NEW S, IsFiniteSet(S), NEW F \in [S -> Int],
           NEW it \in [SUBSET S -> Int], Sums(it, S, F)
    PROVE  Additive(it, S, F)
<1> DEFINE Adds(s) == \A y \in s : it[s] = F[y] + it[s \ {y}]
           T == {n \in Nat : \A s \in SUBSET S : Cardinality(s) = n => Adds(s)}
<1>1. 0 \in T
  <2>1. ASSUME NEW s \in SUBSET S, Cardinality(s) = 0 PROVE Adds(s)
    <3>1. IsFiniteSet(s)
      BY FS_Subset
    <3>2. s = {}
      BY <2>1, <3>1, FS_EmptySet
    <3> QED BY <3>2
  <2> QED BY <2>1
<1>2. ASSUME NEW n \in Nat, n \in T PROVE n + 1 \in T
  <2>1. ASSUME NEW s \in SUBSET S, Cardinality(s) = n + 1, NEW y \in s
        PROVE  it[s] = F[y] + it[s \ {y}]
    <3>1. PICK x : x = Pick(s)
      OBVIOUS
    <3>2. x \in s /\ it[s] = F[x] + it[s \ {x}]
      BY <3>1 DEF Pick, Sums
    <3>3. CASE y = x
      BY <3>2, <3>3
    <3>4. CASE y # x
      <4>1. /\ s \ {x} \in SUBSET S /\ Cardinality(s \ {x}) = n
            /\ s \ {y} \in SUBSET S /\ Cardinality(s \ {y}) = n
        <5>1. /\ Cardinality(s \ {x}) = Cardinality(s) - 1
              /\ Cardinality(s \ {y}) = Cardinality(s) - 1
          BY <3>2, PickOne
        <5> QED BY <2>1, <5>1
      <4>2. Adds(s \ {x}) /\ Adds(s \ {y})
        BY <1>2, <4>1
      <4>3. y \in s \ {x} /\ x \in s \ {y}
        BY <3>2, <3>4
      <4>4. it[s \ {x}] = F[y] + it[(s \ {x}) \ {y}]
        BY <4>2, <4>3
      <4>5. it[s \ {y}] = F[x] + it[(s \ {y}) \ {x}]
        BY <4>2, <4>3
      <4>6. PICK r \in SUBSET S : r = (s \ {x}) \ {y} /\ r = (s \ {y}) \ {x}
        OBVIOUS
      <4>7. F[x] \in Int /\ F[y] \in Int /\ it[r] \in Int
        BY <3>2
      <4>8. it[s \ {x}] = F[y] + it[r] /\ it[s \ {y}] = F[x] + it[r]
        BY <4>4, <4>5, <4>6
      <4> HIDE DEF Adds
      <4> QED BY <3>2, <4>7, <4>8
    <3> QED BY <3>3, <3>4
  <2> QED BY <2>1
<1> HIDE DEF T
<1>3. Nat \subseteq T
  BY <1>1, <1>2, Induction
<1>4. \A s \in SUBSET S : Cardinality(s) \in Nat
  BY FS_Subset, FS_CardinalityType
<1> QED BY <1>3, <1>4 DEF T, Additive

-----------------------------------------------------------------------------
(* How many places of s have what is not e.                                *)
Filling(s, e) == {i \in DOMAIN s : s[i] # e}

(* Two sequences together have as many filled places as each of them. *)
LEMMA FillingConcat ==
    ASSUME NEW V, NEW s \in Seq(V), NEW t \in Seq(V), NEW e
    PROVE  /\ Cardinality(Filling(s, e)) \in Nat
           /\ Cardinality(Filling(s \o t, e)) =
                 Cardinality(Filling(s, e)) + Cardinality(Filling(t, e))
<1> DEFINE a == Len(s)
           b == Len(t)
           A == Filling(s, e)
           B == Filling(t, e)
           C == {i + a : i \in B}
<1>1. /\ a \in Nat /\ b \in Nat /\ DOMAIN s = 1 .. a /\ DOMAIN t = 1 .. b
      /\ DOMAIN (s \o t) = 1 .. a + b
      /\ \A i \in 1 .. a + b : (s \o t)[i] = IF i <= a THEN s[i] ELSE t[i - a]
  BY ConcatProperties, LenProperties
<1>2. A \subseteq 1 .. a /\ B \subseteq 1 .. b
  BY <1>1 DEF Filling
<1>3. Filling(s \o t, e) = A \cup C
  <2> HIDE DEF a, b
  <2>1. ASSUME NEW i \in Filling(s \o t, e) PROVE i \in A \cup C
    <3>1. i \in 1 .. a + b /\ (s \o t)[i] # e
      BY <1>1 DEF Filling
    <3>2. CASE i <= a
      BY <1>1, <3>1, <3>2 DEF Filling
    <3>3. CASE ~(i <= a)
      <4>1. i - a \in 1 .. b /\ t[i - a] # e /\ (i - a) + a = i
        BY <1>1, <3>1, <3>3
      <4>2. i - a \in B
        BY <1>1, <4>1 DEF Filling
      <4> QED BY <4>1, <4>2
    <3> QED BY <3>2, <3>3
  <2>2. ASSUME NEW i \in A PROVE i \in Filling(s \o t, e)
    <3>1. i \in 1 .. a /\ s[i] # e
      BY <1>1 DEF Filling
    <3> QED BY <1>1, <3>1 DEF Filling
  <2>3. ASSUME NEW j \in B PROVE j + a \in Filling(s \o t, e)
    <3>1. j \in 1 .. b /\ t[j] # e
      BY <1>1 DEF Filling
    <3>2. j + a \in 1 .. a + b /\ ~(j + a <= a) /\ (j + a) - a = j
      BY <1>1, <3>1
    <3> QED BY <1>1, <3>1, <3>2 DEF Filling
  <2> HIDE DEF A, B
  <2> QED BY <2>1, <2>2, <2>3
<1> HIDE DEF a, b, A, B
<1>4. IsFiniteSet(A) /\ IsFiniteSet(B)
  <2>1. IsFiniteSet(1 .. a) /\ IsFiniteSet(1 .. b)
    BY <1>1, FS_Interval
  <2> QED BY <1>2, <2>1, FS_Subset
<1>5. IsFiniteSet(C) /\ Cardinality(C) = Cardinality(B)
  <2> DEFINE f == [i \in B |-> i + a]
  <2>1. f \in [B -> C]
    OBVIOUS
  <2>2. \A i, j \in B : f[i] = f[j] => i = j
    BY <1>1, <1>2
  <2>3. \A y \in C : \E i \in B : f[i] = y
    OBVIOUS
  <2> HIDE DEF f, C
  <2>4. f \in Bijection(B, C)
    BY <2>1, <2>2, <2>3 DEF Bijection, Injection, Surjection, IsInjective
  <2> QED BY <1>4, <2>4, FS_Bijection DEF ExistsBijection
<1>6. A \cap C = {}
  <2>1. ASSUME NEW j \in B PROVE j + a \notin A
    BY <1>1, <1>2
  <2> QED BY <2>1
<1>7. /\ Cardinality(A) \in Nat /\ Cardinality(C) \in Nat
      /\ Cardinality(A \cup C) = Cardinality(A) + Cardinality(C)
  <2> HIDE DEF C
  <2>1. Cardinality(A) \in Nat /\ Cardinality(C) \in Nat /\ Cardinality(A \cap C) = 0
    BY <1>4, <1>5, <1>6, FS_CardinalityType, FS_EmptySet
  <2>2. Cardinality(A \cup C) = Cardinality(A) + Cardinality(C) - Cardinality(A \cap C)
    BY <1>4, <1>5, FS_Union
  <2> QED BY <2>1, <2>2
<1> QED BY <1>3, <1>5, <1>7 DEF A, B
-----------------------------------------------------------------------------
(* The values of a fold over the subsets of its places, which it takes     *)
(* from the greatest one down.                                             *)
Unfolds(it, N, base, G) ==
    \A S \in SUBSET (1 .. N) :
        /\ S = {} => it[S] = base
        /\ S # {} => /\ Max(S) \in 1 .. N /\ S \ {Max(S)} \in SUBSET (1 .. N)
                     /\ it[S] = G[Max(S)][it[S \ {Max(S)}]]

(* They exist. *)
LEMMA Unfolding ==
    ASSUME NEW N \in Nat, NEW V, NEW base \in V,
           NEW G \in [1 .. N -> [V -> V]]
    PROVE  \E it \in [SUBSET (1 .. N) -> V] : Unfolds(it, N, base, G)
<1>1. PICK it \in [SUBSET (1 .. N) -> V] : Iterates(it, N, base, G)
  BY Iteration
<1>2. ASSUME NEW S \in SUBSET (1 .. N), S # {}
      PROVE  /\ Max(S) \in 1 .. N /\ S \ {Max(S)} \in SUBSET (1 .. N)
             /\ it[S] = G[Max(S)][it[S \ {Max(S)}]]
  <2>1. Max(S) \in 1 .. N /\ S \ {Max(S)} \in SUBSET (1 .. N)
    BY <1>2, MaxExists
  <2> QED BY <1>1, <1>2, <2>1 DEF Iterates
<1> QED BY <1>1, <1>2 DEF Iterates, Unfolds

-----------------------------------------------------------------------------
(* A sequence taken apart and put together.                                *)

(* A sequence is its first k elements and the rest. *)
LEMMA SplitAt ==
    ASSUME NEW V, NEW s \in Seq(V), NEW k \in 0 .. Len(s)
    PROVE  /\ SubSeq(s, 1, k) \in Seq(V) /\ Len(SubSeq(s, 1, k)) = k
           /\ SubSeq(s, k + 1, Len(s)) \in Seq(V)
           /\ Len(SubSeq(s, k + 1, Len(s))) = Len(s) - k
           /\ s = SubSeq(s, 1, k) \o SubSeq(s, k + 1, Len(s))
<1> DEFINE a == SubSeq(s, 1, k)
           b == SubSeq(s, k + 1, Len(s))
<1>1. /\ a \in Seq(V) /\ Len(a) = k /\ \A i \in 1 .. k : a[i] = s[i]
      /\ b \in Seq(V) /\ Len(b) = Len(s) - k
      /\ \A i \in 1 .. Len(s) - k : b[i] = s[k + i]
      /\ Len(s) \in Nat /\ k \in Nat
  OBVIOUS
<1> HIDE DEF a, b
<1>2. /\ a \o b \in Seq(V) /\ Len(a \o b) = Len(s)
      /\ \A i \in 1 .. Len(s) : (a \o b)[i] = IF i <= k THEN a[i] ELSE b[i - k]
  BY <1>1
<1>3. ASSUME NEW i \in 1 .. Len(s) PROVE (a \o b)[i] = s[i]
  <2>1. CASE i <= k
    BY <1>1, <1>2, <2>1
  <2>2. CASE ~(i <= k)
    <3>1. i - k \in 1 .. Len(s) - k /\ k + (i - k) = i
      BY <1>1, <2>2
    <3> QED BY <1>1, <1>2, <2>2, <3>1
  <2> QED BY <2>1, <2>2
<1>4. s = a \o b
  BY <1>2, <1>3, SeqEqual
<1> QED BY <1>1, <1>4 DEF a, b

(* a and b are what is around place k of s, and v may take the place. *)
Around(a, b, s, k, v, V) ==
    /\ a \in Seq(V) /\ a = SubSeq(s, 1, k - 1) /\ Len(a) = k - 1
    /\ b \in Seq(V) /\ b = SubSeq(s, k + 1, Len(s)) /\ Len(b) = Len(s) - k
    /\ s[k] \in V
    /\ s = (a \o <<s[k]>>) \o b
    /\ [s EXCEPT ![k] = v] = (a \o <<v>>) \o b

(* An element has the rest of its sequence around it. *)
LEMMA SplitAround ==
    ASSUME NEW V, NEW s \in Seq(V), NEW k \in 1 .. Len(s), NEW v \in V
    PROVE  \E a, b : Around(a, b, s, k, v, V)
<1> DEFINE t == [s EXCEPT ![k] = v]
<1>1. PICK a, b : a = SubSeq(s, 1, k - 1) /\ b = SubSeq(s, k + 1, Len(s))
  OBVIOUS
<1>2. /\ a \in Seq(V) /\ Len(a) = k - 1 /\ \A i \in 1 .. k - 1 : a[i] = s[i]
      /\ b \in Seq(V) /\ Len(b) = Len(s) - k
      /\ \A i \in 1 .. Len(s) - k : b[i] = s[k + i]
      /\ Len(s) \in Nat /\ k \in Nat \ {0} /\ s[k] \in V /\ k <= Len(s)
  BY <1>1
<1>3. /\ t \in Seq(V) /\ Len(t) = Len(s)
      /\ \A i \in 1 .. Len(s) : t[i] = IF i = k THEN v ELSE s[i]
  OBVIOUS
<1>4. ASSUME NEW w \in V
      PROVE  /\ (a \o <<w>>) \o b \in Seq(V)
             /\ Len((a \o <<w>>) \o b) = Len(s)
             /\ \A i \in 1 .. Len(s) :
                   ((a \o <<w>>) \o b)[i] = IF i = k THEN w ELSE s[i]
  <2>1. /\ a \o <<w>> \in Seq(V) /\ Len(a \o <<w>>) = k
        /\ \A i \in 1 .. k : (a \o <<w>>)[i] = IF i = k THEN w ELSE a[i]
    BY <1>2
  <2>2. /\ (a \o <<w>>) \o b \in Seq(V) /\ Len((a \o <<w>>) \o b) = Len(s)
        /\ \A i \in 1 .. Len(s) :
              ((a \o <<w>>) \o b)[i] = IF i <= k THEN (a \o <<w>>)[i] ELSE b[i - k]
    <3>1. PICK c : c = a \o <<w>>
      OBVIOUS
    <3>2. c \in Seq(V) /\ Len(c) = k
      BY <2>1, <3>1
    <3>3. /\ c \o b \in Seq(V) /\ Len(c \o b) = Len(c) + Len(b)
          /\ \A i \in 1 .. Len(c) + Len(b) :
                (c \o b)[i] = IF i <= Len(c) THEN c[i] ELSE b[i - Len(c)]
      <4>1. b \in Seq(V) /\ c \in Seq(V)
        BY <1>2, <3>2
      <4> QED BY <4>1, ConcatProperties
    <3>4. Len(c) + Len(b) = Len(s)
      BY <1>2, <3>2
    <3> QED BY <3>1, <3>2, <3>3, <3>4
  <2>3. ASSUME NEW i \in 1 .. Len(s)
        PROVE  ((a \o <<w>>) \o b)[i] = IF i = k THEN w ELSE s[i]
    <3>1. CASE i <= k
      <4>1. i \in 1 .. k /\ (i # k => i \in 1 .. k - 1)
        BY <1>2, <3>1
      <4> QED BY <1>2, <2>1, <2>2, <3>1, <4>1
    <3>2. CASE ~(i <= k)
      <4>1. i - k \in 1 .. Len(s) - k /\ k + (i - k) = i /\ i # k
        BY <1>2, <3>2
      <4> QED BY <1>2, <2>2, <3>2, <4>1
    <3> QED BY <3>1, <3>2
  <2> QED BY <2>2, <2>3
<1> HIDE DEF t
<1>5. t = (a \o <<v>>) \o b
  <2>1. PICK u : u = (a \o <<v>>) \o b
    OBVIOUS
  <2>2. /\ u \in Seq(V) /\ Len(u) = Len(s)
        /\ \A i \in 1 .. Len(s) : u[i] = IF i = k THEN v ELSE s[i]
    BY <1>4, <2>1
  <2>3. t = u
    BY <1>3, <2>2, SeqEqual
  <2> QED BY <2>1, <2>3
<1>6. s = (a \o <<s[k]>>) \o b
  <2>1. PICK u : u = (a \o <<s[k]>>) \o b
    OBVIOUS
  <2>2. /\ u \in Seq(V) /\ Len(u) = Len(s)
        /\ \A i \in 1 .. Len(s) : u[i] = s[i]
    BY <1>2, <1>4, <2>1
  <2>3. s = u
    BY <2>2, SeqEqual
  <2> QED BY <2>1, <2>3
<1>7. Around(a, b, s, k, v, V)
  BY <1>1, <1>2, <1>5, <1>6 DEF t, Around
<1> QED BY <1>7

-----------------------------------------------------------------------------
(* Products, quotients and remainders, and recursion to smaller arguments. *)

(* A common factor does not matter. *)
LEMMA CancelFactor ==
    ASSUME NEW p \in Nat, NEW q \in Nat, NEW d \in Nat \ {0}
    PROVE  (p * d < q * d => p < q) /\ (p * d <= q * d => p <= q)
<1>1. CASE p >= q + 1
  <2>1. PICK w \in Nat : p = q + 1 + w
    <3>1. p - q - 1 \in Nat /\ p = q + 1 + (p - q - 1)
      BY <1>1
    <3> QED BY <3>1
  <2>2. p * d = q * d + d + w * d /\ w * d \in Nat /\ q * d \in Nat
    BY <2>1
  <2> QED BY <2>2
<1>2. CASE p = q
  <2>1. PICK t \in Nat : t = q * d
    OBVIOUS
  <2> QED BY <1>2, <2>1
<1>3. CASE p < q
  BY <1>3
<1> QED BY <1>1, <1>2, <1>3

(* A quotient and a remainder. *)
LEMMA DivisionExists ==
    ASSUME NEW n \in Nat, NEW d \in Nat \ {0}
    PROVE  \E q \in Nat, r \in Nat :
              r < d /\ n = q * d + r /\ n \div d = q /\ n % d = r
<1>1. PICK q, r : q = n \div d /\ r = n % d
  OBVIOUS
<1>2. q \in Nat /\ r \in Nat /\ r < d /\ n = d * q + r
  BY <1>1
<1>3. d * q = q * d
  BY <1>2
<1> QED BY <1>1, <1>2, <1>3

(* The only quotient and remainder. *)
DivMod(n, d, q, r) == n \div d = q /\ n % d = r

(* There is one quotient and one remainder. *)
LEMMA Euclid ==
    ASSUME NEW n \in Nat, NEW q \in Nat, NEW d \in Nat \ {0},
           NEW r \in 0 .. d - 1, n = q * d + r
    PROVE  DivMod(n, d, q, r)
<1>1. n = q * d + r
  OBVIOUS
<1>2. PICK p \in Nat, s \in Nat :
         s < d /\ n = p * d + s /\ n \div d = p /\ n % d = s
  BY DivisionExists
<1>3. CASE p = q
  <2>1. PICK t \in Nat : t = q * d
    OBVIOUS
  <2>2. s = r
    BY <1>1, <1>2, <1>3, <2>1
  <2> QED BY <1>1, <1>2, <1>3, <2>2 DEF DivMod
<1>4. CASE p > q
  <2>1. PICK c \in Nat : p = q + 1 + c
    <3>1. p - q - 1 \in Nat /\ p = q + 1 + (p - q - 1)
      BY <1>4
    <3> QED BY <3>1
  <2>2. p * d = q * d + d + c * d /\ c * d \in Nat /\ q * d \in Nat
    BY <2>1
  <2> QED BY <1>1, <1>2, <2>2
<1>5. CASE p < q
  <2>1. PICK c \in Nat : q = p + 1 + c
    <3>1. q - p - 1 \in Nat /\ q = p + 1 + (q - p - 1)
      BY <1>5
    <3> QED BY <3>1
  <2>2. q * d = p * d + d + c * d /\ c * d \in Nat /\ p * d \in Nat
    BY <2>1
  <2> QED BY <1>1, <1>2, <2>2
<1> QED BY <1>3, <1>4, <1>5

(* c divides like a, and then b. *)
Divides(c, a, b, n) == n \div c = (n \div a) \div b

(* Dividing twice is dividing by the product. *)
LEMMA DivideTwice ==
    ASSUME NEW n \in Nat, NEW a \in Nat \ {0}, NEW b \in Nat \ {0},
           NEW c \in Nat \ {0}, c = a * b
    PROVE  Divides(c, a, b, n)
<1>1. PICK q \in Nat, r \in Nat :
         r < a /\ n = q * a + r /\ n \div a = q
  BY DivisionExists
<1>2. PICK p \in Nat, s \in Nat :
         s < b /\ q = p * b + s /\ q \div b = p
  BY DivisionExists
<1>3. PICK t \in Nat : t = s * a + r
  <2>1. s * a + r \in Nat
    OBVIOUS
  <2> QED BY <2>1
<1>4. t < c
  <2>1. PICK w \in Nat : b = s + 1 + w
    <3>1. b - s - 1 \in Nat /\ b = s + 1 + (b - s - 1)
      BY <1>2
    <3> QED BY <3>1
  <2>2. a * b = s * a + a + w * a /\ w * a \in Nat /\ s * a \in Nat
    BY <2>1
  <2> QED BY <1>1, <1>3, <2>2
<1>5. n = p * c + t
  <2>1. (p * b + s) * a + r = p * (a * b) + (s * a + r)
    OBVIOUS
  <2> QED BY <1>1, <1>2, <1>3, <2>1
<1>6. n \div c = p
  BY <1>4, <1>5, Euclid DEF DivMod
<1> QED BY <1>1, <1>2, <1>6 DEF Divides

(* The powers of a base, as the modules define them. *)
LEMMA PowersExist ==
    ASSUME NEW b \in Nat \ {0}
    PROVE  \E f \in [Nat -> Nat \ {0}] :
              /\ f = [k \in Nat |-> IF k = 0 THEN 1 ELSE b * f[k - 1]]
              /\ f[0] = 1 /\ \A k \in Nat : f[k + 1] = b * f[k]
<1> DEFINE Positive == Nat \ {0}
           Times == [i \in Nat \ {0} |-> [x \in Positive |-> b * x]]
<1>1. Times \in [Nat \ {0} -> [Positive -> Positive]]
  OBVIOUS
<1>2. \A i \in Nat \ {0} : \A x \in Positive : Times[i][x] = b * x
  OBVIOUS
<1>3. PICK f \in [Nat -> Positive] :
         f[0] = 1 /\ \A i \in Nat \ {0} : f[i] = Times[i][f[i - 1]]
  <2>1. PICK base \in Positive : base = 1
    OBVIOUS
  <2> HIDE DEF Times, Positive
  <2>2. \E f \in [Nat -> Positive] : Recurses(f, base, Times)
    BY <1>1, Recursion
  <2> QED BY <2>1, <2>2 DEF Recurses
<1>4. \A i \in Nat \ {0} : f[i] = b * f[i - 1]
  <2> HIDE DEF Times, Positive
  <2> TAKE i \in Nat \ {0}
  <2>1. f[i - 1] \in Positive
    <3>1. i - 1 \in Nat
      OBVIOUS
    <3> QED BY <3>1
  <2> QED BY <1>2, <1>3, <2>1
<1>5. f = [k \in Nat |-> IF k = 0 THEN 1 ELSE b * f[k - 1]]
  BY <1>3, <1>4
<1>6. \A k \in Nat : f[k + 1] = b * f[k]
  <2> TAKE k \in Nat
  <2>1. k + 1 \in Nat \ {0} /\ (k + 1) - 1 = k
    OBVIOUS
  <2> QED BY <1>4, <2>1
<1> QED BY <1>3, <1>5, <1>6

(* A set of numbers that is not empty has a least one. *)
LEMMA MinExists ==
    ASSUME NEW D, D \subseteq Nat, D # {}
    PROVE  Min(D) \in D /\ \A j \in D : Min(D) <= j
<1> DEFINE R == OpToRel(<, Nat)
<1>1. IsWellFoundedOn(R, Nat)
  BY NatLessThanWellFounded
<1>2. \A y, z \in Nat : y < z => <<y, z>> \in R
  BY DEF OpToRel
<1> HIDE DEF R
<1>3. PICK i \in D : \A j \in D : ~(<<j, i>> \in R)
  BY <1>1, WFMin
<1>4. ASSUME NEW j \in D PROVE i <= j
  <2>1. i \in Nat /\ j \in Nat /\ ~(<<j, i>> \in R)
    BY <1>3
  <2>2. ~(j < i)
    BY <1>2, <2>1
  <2> QED BY <2>1, <2>2
<1> QED BY <1>4 DEF Min

(* f recurses to a smaller argument, down to size zero. *)
Descends(f, P, z, size, next, G) ==
    \A p \in P : f[p] = IF size[p] = 0 THEN z ELSE G[p][f[next[p]]]
Shrinks(P, size, next) == \A p \in P : size[p] # 0 => size[next[p]] < size[p]

(* Such a function exists. *)
LEMMA Descent ==
    ASSUME NEW P, NEW V, NEW z \in V, NEW size \in [P -> Nat], NEW next \in [P -> P],
           NEW G \in [P -> [V -> V]],
           Shrinks(P, size, next)
    PROVE  \E f \in [P -> V] : Descends(f, P, z, size, next, G)
<1> DEFINE Fs == [P -> V]
           base == [p \in P |-> z]
           Once(g) == [p \in P |-> IF size[p] = 0 THEN z ELSE G[p][g[next[p]]]]
           H == [i \in Nat \ {0} |-> [g \in Fs |-> Once(g)]]
<1>1. base \in Fs
  OBVIOUS
<1>2. \A g \in Fs : Once(g) \in Fs
  OBVIOUS
<1>3. H \in [Nat \ {0} -> [Fs -> Fs]]
  <2> HIDE DEF Once, Fs
  <2> QED BY <1>2
<1>4. \A i \in Nat \ {0} : \A g \in Fs : H[i][g] = Once(g)
  <2> HIDE DEF Once, Fs
  <2> QED OBVIOUS
<1>5. PICK r \in [Nat -> Fs] : r[0] = base /\ \A i \in Nat \ {0} : r[i] = H[i][r[i - 1]]
  <2> HIDE DEF Once, Fs, H, base
  <2>1. \E r \in [Nat -> Fs] : Recurses(r, base, H)
    BY <1>1, <1>3, Recursion
  <2> QED BY <2>1 DEF Recurses
<1>6. \A i \in Nat : r[i + 1] = Once(r[i])
  <2> HIDE DEF Once, Fs, H, base
  <2> TAKE i \in Nat
  <2>1. i + 1 \in Nat \ {0} /\ (i + 1) - 1 = i /\ r[i] \in Fs
    OBVIOUS
  <2> QED BY <1>4, <1>5, <2>1
<1>7. \A i \in Nat : \A p \in P :
         r[i + 1][p] = IF size[p] = 0 THEN z ELSE G[p][r[i][next[p]]]
  <2> HIDE DEF Fs, H, base
  <2> TAKE i \in Nat
  <2>1. r[i + 1] = Once(r[i])
    BY <1>6
  <2> QED BY <2>1
<1>8. \A i \in Nat : \A p \in P : r[i][p] \in V
  OBVIOUS
<1>9. \A p \in P : r[0][p] = z
  BY <1>5
<1> HIDE DEF Fs, H, base, Once
<1> DEFINE T == {k \in Nat : \A j \in Nat : \A p \in P :
                    size[p] <= k => r[k + j][p] = r[k][p]}
<1>10. 0 \in T
  <2> SUFFICES ASSUME NEW j \in Nat, NEW p \in P, size[p] <= 0
               PROVE  r[0 + j][p] = r[0][p]
    OBVIOUS
  <2>1. size[p] = 0
    OBVIOUS
  <2>2. CASE j = 0
    BY <2>2
  <2>3. CASE j # 0
    <3>1. PICK i \in Nat : 0 + j = i + 1
      <4>1. j - 1 \in Nat /\ 0 + j = (j - 1) + 1
        BY <2>3
      <4> QED BY <4>1
    <3>2. r[i + 1][p] = z
      BY <1>7, <2>1
    <3> QED BY <1>9, <3>1, <3>2
  <2> QED BY <2>2, <2>3
<1>11. ASSUME NEW k \in Nat, k \in T PROVE k + 1 \in T
  <2> SUFFICES ASSUME NEW j \in Nat, NEW p \in P, size[p] <= k + 1
               PROVE  r[(k + 1) + j][p] = r[k + 1][p]
    OBVIOUS
  <2>1. (k + 1) + j = (k + j) + 1 /\ k + j \in Nat
    OBVIOUS
  <2>2. CASE size[p] = 0
    <3>1. r[(k + j) + 1][p] = z /\ r[k + 1][p] = z
      BY <1>7, <2>1, <2>2
    <3> QED BY <2>1, <3>1
  <2>3. CASE size[p] # 0
    <3>1. next[p] \in P /\ size[next[p]] <= k
      BY <2>3 DEF Shrinks
    <3>2. r[k + j][next[p]] = r[k][next[p]]
      BY <1>11, <3>1
    <3>3. r[(k + j) + 1][p] = G[p][r[k + j][next[p]]]
      BY <1>7, <2>1, <2>3
    <3>4. r[k + 1][p] = G[p][r[k][next[p]]]
      BY <1>7, <2>3
    <3> QED BY <2>1, <3>2, <3>3, <3>4
  <2> QED BY <2>2, <2>3
<1>12. \A k \in Nat : k \in T
  <2> HIDE DEF T
  <2>1. Nat \subseteq T
    BY <1>10, <1>11, Induction
  <2> QED BY <2>1
<1> DEFINE f == [p \in P |-> r[size[p]][p]]
<1>13. f \in [P -> V]
  BY <1>8
<1>14. ASSUME NEW p \in P
       PROVE  f[p] = IF size[p] = 0 THEN z ELSE G[p][f[next[p]]]
  <2>1. CASE size[p] = 0
    BY <1>9, <2>1
  <2>2. CASE size[p] # 0
    <3>1. PICK i \in Nat : size[p] = i + 1
      <4>1. size[p] - 1 \in Nat /\ size[p] = (size[p] - 1) + 1
        BY <2>2
      <4> QED BY <4>1
    <3>2. f[p] = G[p][r[i][next[p]]]
      BY <1>7, <2>2, <3>1
    <3>3. PICK q \in P : q = next[p]
      OBVIOUS
    <3>4. PICK k \in Nat : k = size[q]
      OBVIOUS
    <3>5. PICK j \in Nat : i = k + j
      <4>1. k < i + 1
        BY <2>2, <3>1, <3>3, <3>4 DEF Shrinks
      <4>2. i - k \in Nat /\ i = k + (i - k)
        BY <4>1
      <4> QED BY <4>2
    <3>6. r[k + j][q] = r[k][q]
      BY <1>12, <3>4
    <3>7. f[q] = r[k][q]
      BY <3>4
    <3> QED BY <2>2, <3>2, <3>3, <3>5, <3>6, <3>7
  <2> QED BY <2>1, <2>2
<1> HIDE DEF f
<1> QED BY <1>13, <1>14 DEF Descends
=============================================================================
