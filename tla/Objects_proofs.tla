--------------------------- MODULE Objects_proofs ---------------------------
(***************************************************************************)
(* For any values, any wallet, any payments and any calls: the length and  *)
(* the cache of a transaction follow from its slots; a block's length      *)
(* follows from its transactions, and its index from the chain as long as  *)
(* the calls do; a payment that is pushed balances; a peer stays reachable *)
(* as long as it is in the table; hash rates add up in H/s; and hashes     *)
(* compare and combine like the numbers they are, in either form.          *)
(*                                                                         *)
(* Each object has an invariant of its own, which its calls keep.  At the  *)
(* end, they hold side by side in MCObjects.                               *)
(***************************************************************************)
EXTENDS MCObjects, Induction

-----------------------------------------------------------------------------
(* Hash rates.                                                             *)

(* Every power of ten is ten times the one below it. *)
LEMMA TenPowers ==
    /\ TenTo[0] = 1
    /\ \A k \in Nat : /\ TenTo[k] \in Nat \ {0}
                      /\ TenTo[k + 1] = 10 * TenTo[k]
<1> DEFINE Positive == Nat \ {0}
           Times == [i \in Nat \ {0} |-> [x \in Positive |-> 10 * x]]
<1>1. Times \in [Nat \ {0} -> [Positive -> Positive]]
  OBVIOUS
<1>2. \A i \in Nat \ {0} : \A x \in Positive : Times[i][x] = 10 * x
  OBVIOUS
<1>3. PICK f \in [Nat -> Positive] :
         f[0] = 1 /\ \A i \in Nat \ {0} : f[i] = Times[i][f[i - 1]]
  <2>1. PICK base \in Positive : base = 1
    OBVIOUS
  <2> HIDE DEF Times, Positive
  <2>2. \E f \in [Nat -> Positive] : Recurses(f, base, Times)
    BY <1>1, Recursion
  <2> QED BY <2>1, <2>2 DEF Recurses
<1>4. \A i \in Nat \ {0} : f[i] = 10 * f[i - 1]
  <2> HIDE DEF Times
  <2> QED BY <1>2, <1>3
<1>5. f = [k \in Nat |-> IF k = 0 THEN 1 ELSE 10 * f[k - 1]]
  BY <1>3, <1>4
<1>6. TenTo = [k \in Nat |-> IF k = 0 THEN 1 ELSE 10 * TenTo[k - 1]]
  BY <1>5 DEF TenTo
<1>7. TenTo[0] = 1 /\ \A k \in Nat : TenTo[k + 1] = 10 * TenTo[k]
  BY <1>6
<1> DEFINE T == {k \in Nat : TenTo[k] \in Nat \ {0}}
<1>8. 0 \in T
  BY <1>7
<1>9. ASSUME NEW k \in Nat, k \in T PROVE k + 1 \in T
  BY <1>7, <1>9
<1>10. Nat \subseteq T
  <2> HIDE DEF T
  <2> QED BY <1>8, <1>9, Induction
<1> QED BY <1>7, <1>10

(* A power is a multiple of every lower one. *)
LEMMA TenSplits ==
    ASSUME NEW m \in Nat, NEW n \in Nat, m <= n
    PROVE  \E k \in Nat \ {0} : TenTo[n] = k * TenTo[m]
<1> DEFINE T == {d \in Nat : \E k \in Nat \ {0} : TenTo[m + d] = k * TenTo[m]}
<1>1. 0 \in T
  <2>1. TenTo[m + 0] = 1 * TenTo[m]
    BY TenPowers
  <2> QED BY <2>1
<1>2. ASSUME NEW d \in Nat, d \in T PROVE d + 1 \in T
  <2>1. PICK k \in Nat \ {0} : TenTo[m + d] = k * TenTo[m]
    BY <1>2
  <2>2. TenTo[m + (d + 1)] = 10 * TenTo[m + d] /\ TenTo[m] \in Nat
    <3>1. m + d \in Nat /\ m + (d + 1) = (m + d) + 1
      OBVIOUS
    <3> QED BY <3>1, TenPowers
  <2>3. 10 * (k * TenTo[m]) = (10 * k) * TenTo[m] /\ 10 * k \in Nat \ {0}
    BY <2>2
  <2> QED BY <2>1, <2>2, <2>3
<1>3. n - m \in Nat /\ m + (n - m) = n
  OBVIOUS
<1>4. Nat \subseteq T
  <2> HIDE DEF T
  <2> QED BY <1>1, <1>2, Induction
<1>5. \E k \in Nat \ {0} : TenTo[m + (n - m)] = k * TenTo[m]
  BY <1>3, <1>4
<1> QED BY <1>3, <1>5

(* A product divided by one of its factors. *)
LEMMA Divided ==
    ASSUME NEW a \in Nat, NEW d \in Nat \ {0}
    PROVE  (a * d) \div d = a
<1>1. PICK q \in Nat, r \in Nat : q = (a * d) \div d /\ r < d /\ a * d = d * q + r
  <2>1. a * d \in Nat
    OBVIOUS
  <2>2. PICK q, r : q = (a * d) \div d /\ r = (a * d) % d
    OBVIOUS
  <2>3. q \in Nat /\ r \in Nat /\ r < d /\ a * d = d * q + r
    BY <2>1, <2>2
  <2> QED BY <2>2, <2>3
<1>2. CASE a = q
  BY <1>1, <1>2
<1>3. CASE a > q
  <2>1. PICK c \in Nat : a = q + 1 + c
    <3>1. a - q - 1 \in Nat /\ a = q + 1 + (a - q - 1)
      BY <1>3
    <3> QED BY <3>1
  <2>2. a * d = d * q + d + c * d /\ c * d >= 0
    BY <2>1
  <2> QED BY <1>1, <2>2
<1>4. CASE a < q
  <2>1. PICK c \in Nat : q = a + 1 + c
    <3>1. q - a - 1 \in Nat /\ q = a + 1 + (q - a - 1)
      BY <1>4
    <3> QED BY <3>1
  <2>2. d * q = a * d + d + c * d /\ c * d >= 0
    BY <2>1
  <2> QED BY <1>1, <2>2
<1> QED BY <1>2, <1>3, <1>4

(* The units, their order and their powers. *)
LEMMA RateUnitFacts ==
    /\ "Hps" \in RateUnit /\ UnitIndex("Hps") = 1 /\ Power("Hps") = 0
    /\ \A u \in RateUnit : UnitIndex(u) \in 1 .. 11 /\ Power(u) \in Nat
    /\ \A u, v \in RateUnit :
          /\ UnitIndex(u) = UnitIndex(v) => u = v
          /\ UnitIndex(u) <= UnitIndex(v) => Power(u) <= Power(v)
<1> DEFINE P == <<0, 1, 2, 3, 6, 9, 12, 15, 18, 21, 24>>
<1>1. DOMAIN RateUnits = 1 .. 11 /\ RateUnits[1] = "Hps"
  BY DEF RateUnits
<1>2. \A i, j \in 1 .. 11 : i = j \/ RateUnits[i] # RateUnits[j]
  BY DEF RateUnits
<1>3. ASSUME NEW u \in RateUnit
      PROVE  UnitIndex(u) \in 1 .. 11 /\ RateUnits[UnitIndex(u)] = u
  <2>1. \E i \in 1 .. 11 : RateUnits[i] = u
    BY <1>1 DEF RateUnit, ToSet
  <2> QED BY <1>1, <2>1 DEF UnitIndex
<1>4. "Hps" \in RateUnit
  BY <1>1 DEF RateUnit, ToSet
<1>5. UnitIndex("Hps") = 1
  BY <1>1, <1>2, <1>3, <1>4
<1>6. \A i \in 1 .. 11 : P[i] \in Nat
  OBVIOUS
<1>7. \A i, j \in 1 .. 11 : i <= j => P[i] <= P[j]
  OBVIOUS
<1>8. \A u : Power(u) = P[UnitIndex(u)]
  BY DEF Power
<1>9. P[1] = 0
  OBVIOUS
<1> HIDE DEF P
<1> QED BY <1>3, <1>4, <1>5, <1>6, <1>7, <1>8, <1>9

(* Rates with a whole number of units, and their number of H/s. *)
WholeRate == [value : Nat, unit : RateUnit]
InHps(r) == r.value * TenTo[Power(r.unit)]

(* Nothing is lost on the way to a unit that is not higher. *)
LEMMA ToLowerUnit ==
    ASSUME NEW r \in WholeRate, NEW u \in RateUnit,
           UnitIndex(u) <= UnitIndex(r.unit)
    PROVE  /\ InUnit(r, u) \in Nat /\ InHps(r) \in Nat
           /\ InUnit(r, u) * TenTo[Power(u)] = InHps(r)
<1>1. r.value \in Nat /\ r.unit \in RateUnit
  BY DEF WholeRate
<1>2. Power(u) \in Nat /\ Power(r.unit) \in Nat /\ Power(u) <= Power(r.unit)
  BY <1>1, RateUnitFacts
<1>3. PICK k \in Nat \ {0} : TenTo[Power(r.unit)] = k * TenTo[Power(u)]
  BY <1>2, TenSplits
<1>4. PICK d \in Nat \ {0} : d = TenTo[Power(u)]
  BY <1>2, TenPowers
<1>5. r.value * (k * d) = (r.value * k) * d /\ r.value * k \in Nat
  BY <1>1
<1>6. InUnit(r, u) = r.value * k
  BY <1>3, <1>4, <1>5, Divided DEF InUnit
<1>7. (r.value * k) * d \in Nat
  BY <1>5
<1> QED BY <1>3, <1>4, <1>5, <1>6, <1>7 DEF InHps

(* To H/s in particular. *)
LEMMA ToHps ==
    ASSUME NEW r \in WholeRate
    PROVE  InUnit(r, "Hps") = InHps(r) /\ InHps(r) \in Nat
<1>1. r.unit \in RateUnit
  BY DEF WholeRate
<1>2. UnitIndex("Hps") <= UnitIndex(r.unit) /\ "Hps" \in RateUnit
  BY <1>1, RateUnitFacts
<1>3. InUnit(r, "Hps") \in Nat /\ InHps(r) \in Nat
      /\ InUnit(r, "Hps") * TenTo[Power("Hps")] = InHps(r)
  BY <1>2, ToLowerUnit
<1>4. TenTo[Power("Hps")] = 1
  BY RateUnitFacts, TenPowers
<1> QED BY <1>3, <1>4

(* Two rates meet in the lower of their units. *)
LEMMA TheyMeet ==
    ASSUME NEW a \in WholeRate, NEW b \in WholeRate
    PROVE  \E u \in RateUnit, d \in Nat \ {0} :
              /\ u = CommonUnit(a, b) /\ d = TenTo[Power(u)]
              /\ (a.unit = "Hps" => u = "Hps")
              /\ InUnit(a, u) \in Nat /\ InUnit(a, u) * d = InHps(a)
              /\ InUnit(b, u) \in Nat /\ InUnit(b, u) * d = InHps(b)
<1>1. PICK u : u = CommonUnit(a, b)
  OBVIOUS
<1>2. a.unit \in RateUnit /\ b.unit \in RateUnit
  BY DEF WholeRate
<1>3. UnitIndex(a.unit) \in Nat /\ UnitIndex(b.unit) \in Nat
  BY <1>2, RateUnitFacts
<1>4. /\ u \in RateUnit
      /\ UnitIndex(u) <= UnitIndex(a.unit) /\ UnitIndex(u) <= UnitIndex(b.unit)
  BY <1>1, <1>2, <1>3 DEF CommonUnit
<1>5. a.unit = "Hps" => u = "Hps"
  BY <1>1, <1>2, <1>3, RateUnitFacts DEF CommonUnit
<1>6. TenTo[Power(u)] \in Nat \ {0}
  BY <1>4, RateUnitFacts, TenPowers
<1>7. InUnit(a, u) \in Nat /\ InUnit(a, u) * TenTo[Power(u)] = InHps(a)
  BY <1>4, ToLowerUnit
<1>8. InUnit(b, u) \in Nat /\ InUnit(b, u) * TenTo[Power(u)] = InHps(b)
  BY <1>4, ToLowerUnit
<1> QED BY <1>1, <1>4, <1>5, <1>6, <1>7, <1>8

(* A sum has the H/s of both. *)
LEMMA SumInHps ==
    ASSUME NEW a \in WholeRate, NEW b \in WholeRate
    PROVE  /\ RateSum(a, b) \in WholeRate
           /\ a.unit = "Hps" => RateSum(a, b).unit = "Hps"
           /\ InHps(RateSum(a, b)) = InHps(a) + InHps(b)
<1>1. PICK u \in RateUnit, d \in Nat \ {0} :
         /\ u = CommonUnit(a, b) /\ d = TenTo[Power(u)]
         /\ (a.unit = "Hps" => u = "Hps")
         /\ InUnit(a, u) \in Nat /\ InUnit(a, u) * d = InHps(a)
         /\ InUnit(b, u) \in Nat /\ InUnit(b, u) * d = InHps(b)
  BY TheyMeet
<1>2. RateSum(a, b) = [value |-> InUnit(a, u) + InUnit(b, u), unit |-> u]
  BY <1>1 DEF RateSum, Rate
<1>3. PICK x \in Nat, y \in Nat : x = InUnit(a, u) /\ y = InUnit(b, u)
  BY <1>1
<1>4. (x + y) * d = x * d + y * d
  BY <1>3
<1> QED BY <1>1, <1>2, <1>3, <1>4 DEF WholeRate, InHps

(* A multiple of the greater number is greater. *)
LEMMA TimesGrows ==
    ASSUME NEW d \in Nat \ {0}, NEW x \in Nat, NEW y \in Nat, x < y
    PROVE  x * d < y * d
<1>1. PICK c \in Nat : y = x + 1 + c
  <2>1. y - x - 1 \in Nat /\ y = x + 1 + (y - x - 1)
    OBVIOUS
  <2> QED BY <2>1
<1>2. y * d = x * d + d + c * d /\ c * d >= 0
  BY <1>1
<1> QED BY <1>2

(* Rates compare and add up like their numbers of H/s. *)
LEMMA RatesAgree ==
    ASSUME NEW a \in WholeRate, NEW b \in WholeRate
    PROVE  AgreesInHps(a, b)
<1>1. PICK u \in RateUnit, d \in Nat \ {0} :
         /\ u = CommonUnit(a, b) /\ d = TenTo[Power(u)]
         /\ InUnit(a, u) \in Nat /\ InUnit(a, u) * d = InHps(a)
         /\ InUnit(b, u) \in Nat /\ InUnit(b, u) * d = InHps(b)
  BY TheyMeet
<1>2. PICK x \in Nat, y \in Nat : x = InUnit(a, u) /\ y = InUnit(b, u)
  BY <1>1
<1>3. x * d = y * d <=> x = y
  BY TimesGrows
<1>4. x * d < y * d <=> x < y
  BY TimesGrows
<1>5. InUnit(a, "Hps") = x * d /\ InUnit(b, "Hps") = y * d
  BY <1>1, <1>2, ToHps
<1>6. SameRate(a, b) <=> x = y
  BY <1>1, <1>2 DEF SameRate
<1>7. LowerRate(a, b) <=> x < y
  BY <1>1, <1>2 DEF LowerRate
<1>8. InUnit(RateSum(a, b), "Hps") = x * d + y * d
  BY <1>1, <1>2, SumInHps, ToHps
<1> QED BY <1>3, <1>4, <1>5, <1>6, <1>7, <1>8 DEF AgreesInHps
(* The sum over the miners goes from one to the next. *)
LEMMA FoldRates ==
    ASSUME NEW s \in Seq(WholeRate)
    PROVE  \E f \in [0 .. Len(s) -> WholeRate] :
              /\ f[0] = Rate(0, "Hps")
              /\ \A i \in 1 .. Len(s) : f[i] = RateSum(f[i - 1], s[i])
              /\ f[Len(s)] = NetworkRate(s)
<1> DEFINE N == Len(s)
           G == [i \in 1 .. N |-> [v \in WholeRate |-> RateSum(v, s[i])]]
           Val(c, S) == IF S = {} THEN Rate(0, "Hps")
                        ELSE RateSum(c[S \ {Max(S)}], s[Max(S)])
           D == SUBSET (1 .. N)
           c == CHOOSE c : c = [S \in D |-> Val(c, S)]
<1>1. N \in Nat /\ DOMAIN s = 1 .. N
  OBVIOUS
<1>2. Rate(0, "Hps") \in WholeRate
  BY RateUnitFacts DEF Rate, WholeRate
<1>3. \A i \in 1 .. N : \A v \in WholeRate : RateSum(v, s[i]) \in WholeRate
  BY SumInHps
<1>4. G \in [1 .. N -> [WholeRate -> WholeRate]]
  BY <1>3
<1>5. PICK it \in [D -> WholeRate] : Unfolds(it, N, Rate(0, "Hps"), G)
  <2> HIDE DEF G, N
  <2> QED BY <1>1, <1>2, <1>4, Unfolding
<1>6. ASSUME NEW S \in D PROVE it[S] = Val(it, S)
  <2>1. CASE S = {}
    BY <1>5, <2>1 DEF Unfolds
  <2>2. CASE S # {}
    <3>1. Max(S) \in 1 .. N /\ S \ {Max(S)} \in D
      BY <1>5, <2>2 DEF Unfolds
    <3>2. it[S \ {Max(S)}] \in WholeRate /\ it[S] = G[Max(S)][it[S \ {Max(S)}]]
      BY <1>5, <2>2, <3>1 DEF Unfolds
    <3> QED BY <3>1, <3>2, <2>2
  <2> QED BY <2>1, <2>2
<1>7. it = [S \in D |-> Val(it, S)]
  <2> HIDE DEF Val, D
  <2> QED BY <1>5, <1>6
<1>8. c = [S \in D |-> Val(c, S)]
  <2> HIDE DEF Val, D
  <2> QED BY <1>7
<1>9. NetworkRate(s) = c[1 .. N]
  BY <1>1 DEF NetworkRate, FoldLeft, MapThenFoldSet
<1> HIDE DEF c
<1> DEFINE f == [i \in 0 .. N |-> c[1 .. i]]
<1>10. f[0] = Rate(0, "Hps")
  <2>1. 1 .. 0 \in D /\ 1 .. 0 = {} /\ 0 \in 0 .. N
    BY <1>1
  <2> QED BY <2>1, <1>8
<1>11. ASSUME NEW i \in 1 .. N PROVE f[i] = RateSum(f[i - 1], s[i])
  <2>1. /\ 1 .. i \in D /\ i - 1 \in 0 .. N /\ i \in Nat \ {0}
        /\ i \in 0 .. N
    BY <1>1
  <2>2. c[1 .. i] = Val(c, 1 .. i)
    <3> HIDE DEF Val, D
    <3> QED BY <2>1, <1>8
  <2>3. c[1 .. i] = RateSum(c[1 .. (i - 1)], s[i])
    BY <2>1, <2>2, IterationStep
  <2> QED BY <2>1, <2>3
<1>12. \A i \in 1 .. N : f[i - 1] \in WholeRate => f[i] \in WholeRate
  <2> HIDE DEF f, N
  <2> QED BY <1>3, <1>11
<1>13. f \in [0 .. N -> WholeRate]
  <2> HIDE DEF N
  <2>1. \A i \in 0 .. N : f[i] \in WholeRate
    <3> HIDE DEF f
    <3> QED BY <1>1, <1>2, <1>10, <1>12, StaysIn
  <2> QED BY <2>1
<1>14. f[N] = c[1 .. N]
  BY <1>1
<1> HIDE DEF f, N
<1>15. f[N] = NetworkRate(s)
  BY <1>9, <1>14, Zenon
<1> QED BY <1>10, <1>11, <1>13, <1>15 DEF N

(* So does the sum of their numbers of H/s. *)
LEMMA FoldHps ==
    ASSUME NEW s \in Seq(WholeRate)
    PROVE  \E f \in [0 .. Len(s) -> Nat] :
              /\ f[0] = 0
              /\ \A i \in 1 .. Len(s) : f[i] = f[i - 1] + InUnit(s[i], "Hps")
              /\ f[Len(s)] = FoldLeft(LAMBDA sum, r : sum + InUnit(r, "Hps"), 0, s)
<1> DEFINE N == Len(s)
           G == [i \in 1 .. N |-> [v \in Nat |-> v + InUnit(s[i], "Hps")]]
           Val(c, S) == IF S = {} THEN 0
                        ELSE c[S \ {Max(S)}] + InUnit(s[Max(S)], "Hps")
           D == SUBSET (1 .. N)
           c == CHOOSE c : c = [S \in D |-> Val(c, S)]
<1>1. N \in Nat /\ DOMAIN s = 1 .. N
  OBVIOUS
<1>2. 0 \in Nat
  OBVIOUS
<1>3. \A i \in 1 .. N : \A v \in Nat : v + InUnit(s[i], "Hps") \in Nat
  BY ToHps
<1>4. G \in [1 .. N -> [Nat -> Nat]]
  BY <1>3
<1>5. PICK it \in [D -> Nat] : Unfolds(it, N, 0, G)
  <2> HIDE DEF G, N
  <2> QED BY <1>1, <1>2, <1>4, Unfolding
<1>6. ASSUME NEW S \in D PROVE it[S] = Val(it, S)
  <2>1. CASE S = {}
    BY <1>5, <2>1 DEF Unfolds
  <2>2. CASE S # {}
    <3>1. Max(S) \in 1 .. N /\ S \ {Max(S)} \in D
      BY <1>5, <2>2 DEF Unfolds
    <3>2. it[S \ {Max(S)}] \in Nat /\ it[S] = G[Max(S)][it[S \ {Max(S)}]]
      BY <1>5, <2>2, <3>1 DEF Unfolds
    <3> QED BY <3>1, <3>2, <2>2
  <2> QED BY <2>1, <2>2
<1>7. it = [S \in D |-> Val(it, S)]
  <2> HIDE DEF Val, D
  <2> QED BY <1>5, <1>6
<1>8. c = [S \in D |-> Val(c, S)]
  <2> HIDE DEF Val, D
  <2> QED BY <1>7
<1>9. FoldLeft(LAMBDA sum, r : sum + InUnit(r, "Hps"), 0, s) = c[1 .. N]
  BY <1>1 DEF FoldLeft, MapThenFoldSet
<1> HIDE DEF c
<1> DEFINE f == [i \in 0 .. N |-> c[1 .. i]]
<1>10. f[0] = 0
  <2>1. 1 .. 0 \in D /\ 1 .. 0 = {} /\ 0 \in 0 .. N
    BY <1>1
  <2> QED BY <2>1, <1>8
<1>11. ASSUME NEW i \in 1 .. N PROVE f[i] = f[i - 1] + InUnit(s[i], "Hps")
  <2>1. /\ 1 .. i \in D /\ i - 1 \in 0 .. N /\ i \in Nat \ {0}
        /\ i \in 0 .. N
    BY <1>1
  <2>2. c[1 .. i] = Val(c, 1 .. i)
    <3> HIDE DEF Val, D
    <3> QED BY <2>1, <1>8
  <2>3. c[1 .. i] = c[1 .. (i - 1)] + InUnit(s[i], "Hps")
    BY <2>1, <2>2, IterationStep
  <2> QED BY <2>1, <2>3
<1>12. \A i \in 1 .. N : f[i - 1] \in Nat => f[i] \in Nat
  <2> HIDE DEF f, N
  <2> QED BY <1>3, <1>11
<1>13. f \in [0 .. N -> Nat]
  <2> HIDE DEF N
  <2>1. \A i \in 0 .. N : f[i] \in Nat
    <3> HIDE DEF f
    <3> QED BY <1>1, <1>2, <1>10, <1>12, StaysIn
  <2> QED BY <2>1
<1>14. f[N] = c[1 .. N]
  BY <1>1
<1> HIDE DEF f, N
<1>15. f[N] = FoldLeft(LAMBDA sum, r : sum + InUnit(r, "Hps"), 0, s)
  BY <1>9, <1>14, Zenon
<1> QED BY <1>10, <1>11, <1>13, <1>15 DEF N

(* A number of H/s is itself. *)
LEMMA AlreadyHps ==
    ASSUME NEW r \in WholeRate, r.unit = "Hps"
    PROVE  r.value \in Nat /\ r.value = InHps(r)
<1>1. r.value \in Nat
  BY DEF WholeRate
<1>2. TenTo[Power(r.unit)] = 1
  BY RateUnitFacts, TenPowers
<1>3. InHps(r) = r.value * 1
  BY <1>2 DEF InHps
<1> QED BY <1>1, <1>3

(* The number hps() of the sum is the number of H/s. *)
LEMMA NetworkInHps ==
    ASSUME NEW s \in Seq(WholeRate)
    PROVE  NetworkRateIsInHps(s)
<1> DEFINE total == FoldLeft(LAMBDA sum, r : sum + InUnit(r, "Hps"), 0, s)
           N == Len(s)
<1>1. PICK f \in [0 .. N -> WholeRate] :
         /\ f[0] = Rate(0, "Hps")
         /\ \A i \in 1 .. N : f[i] = RateSum(f[i - 1], s[i])
         /\ f[N] = NetworkRate(s)
  BY FoldRates
<1>2. PICK g \in [0 .. N -> Nat] :
         /\ g[0] = 0
         /\ \A i \in 1 .. N : g[i] = g[i - 1] + InUnit(s[i], "Hps")
         /\ g[N] = total
  BY FoldHps
<1>3. N \in Nat
  OBVIOUS
<1> HIDE DEF total
<1> DEFINE T == {i \in 0 .. N : f[i].unit = "Hps" /\ InHps(f[i]) = g[i]}
<1>4. 0 \in T
  <2>1. f[0] \in WholeRate /\ f[0].unit = "Hps" /\ f[0].value = 0
    BY <1>1, <1>3 DEF Rate
  <2>2. InHps(f[0]) = g[0]
    BY <1>2, <2>1, AlreadyHps
  <2> QED BY <1>3, <2>1, <2>2
<1>5. ASSUME NEW i \in Nat, i < N, i \in T PROVE i + 1 \in T
  <2>1. i + 1 \in 1 .. N /\ (i + 1) - 1 = i /\ i + 1 \in 0 .. N
    BY <1>3, <1>5
  <2>2. f[i + 1] = RateSum(f[i], s[i + 1]) /\ g[i + 1] = g[i] + InUnit(s[i + 1], "Hps")
    BY <1>1, <1>2, <2>1
  <2>3. f[i] \in WholeRate /\ s[i + 1] \in WholeRate
    BY <1>1, <1>5, <2>1
  <2>4. f[i + 1].unit = "Hps" /\ InHps(f[i + 1]) = g[i + 1]
    BY <1>5, <2>2, <2>3, SumInHps, ToHps
  <2> QED BY <2>1, <2>4
<1>6. f[N].unit = "Hps" /\ InHps(f[N]) = g[N]
  <2> HIDE DEF T
  <2>1. \A i \in 0 .. N : i \in T
    BY <1>3, <1>4, <1>5, InductionUpTo
  <2> QED BY <1>3, <2>1 DEF T
<1>7. f[N].value \in Nat /\ f[N].value = InHps(f[N])
  <2>1. f[N] \in WholeRate
    BY <1>1, <1>3
  <2> QED BY <2>1, <1>6, AlreadyHps
<1> QED BY <1>1, <1>2, <1>6, <1>7 DEF NetworkRateIsInHps, Hps, total

-----------------------------------------------------------------------------
(* Transactions.                                                           *)

Slot == Amounts \cup {Empty}
Count(slots) == Cardinality(Filling(slots, Empty))

(* What a transaction consists of. *)
IsTx(t) ==
    /\ t = [txIn |-> t.txIn, txOut |-> t.txOut, bytes |-> t.bytes, cache |-> t.cache]
    /\ t.txIn \in Seq(Slot) /\ t.txOut \in Seq(Slot) /\ t.bytes \in Int

(* The size of an array grows from one byte to nine. *)
LEMMA CompactSizes ==
    /\ \A n \in Nat : CompactSize(n) \in Nat \ {0} /\ CompactSize(n) <= 9
    /\ CompactSize(0) = 1 /\ CompactSize(1) = 1
<1> DEFINE L(n) == {l \in CompactLimit : l <= n}
           table == <<1, 3, 5, 9>>
<1>1. /\ CompactLimit \subseteq Nat \ {0, 1} /\ IsFiniteSet(CompactLimit)
      /\ Cardinality(CompactLimit) <= 3
  BY TransactionAssumption
<1>2. ASSUME NEW n \in Nat PROVE Cardinality(L(n)) \in 0 .. 3
  <2>1. L(n) \subseteq CompactLimit
    OBVIOUS
  <2>2. IsFiniteSet(L(n)) /\ Cardinality(L(n)) <= Cardinality(CompactLimit)
    BY <1>1, <2>1, FS_Subset
  <2>3. Cardinality(L(n)) \in Nat /\ Cardinality(CompactLimit) \in Nat
    BY <1>1, <2>2, FS_CardinalityType
  <2> QED BY <1>1, <2>2, <2>3
<1>3. ASSUME NEW i \in 0 .. 3 PROVE table[i + 1] \in Nat \ {0} /\ table[i + 1] <= 9
  <2>1. table[1] = 1 /\ table[2] = 3 /\ table[3] = 5 /\ table[4] = 9
    OBVIOUS
  <2> HIDE DEF table
  <2>2. i + 1 = 1 \/ i + 1 = 2 \/ i + 1 = 3 \/ i + 1 = 4
    OBVIOUS
  <2> QED BY <2>1, <2>2
<1>4. L(0) = {} /\ L(1) = {}
  <2>1. \A l \in CompactLimit : ~(l <= 0) /\ ~(l <= 1)
    BY <1>1
  <2> QED BY <2>1
<1>5. Cardinality({}) = 0 /\ table[0 + 1] = 1
  BY FS_EmptySet
<1>6. \A n : CompactSize(n) = table[Cardinality(L(n)) + 1]
  BY DEF CompactSize
<1> HIDE DEF table, L
<1> QED BY <1>2, <1>3, <1>4, <1>5, <1>6

(* A weight counts the slots that hold something. *)
LEMMA Weights ==
    ASSUME NEW side \in Side, NEW slots \in Seq(Slot)
    PROVE  /\ Weight(side, slots) = Bytes[side] * Count(slots)
           /\ Bytes[side] \in Nat /\ Count(slots) \in Nat
           /\ Weight(side, slots) \in Nat
<1>1. Weight(side, slots) = Bytes[side] * Count(slots)
  BY DEF Weight, Count, Filling
<1>2. Bytes[side] \in Nat
  BY DEF Bytes, Side
<1>3. Count(slots) \in Nat
  BY FillingConcat DEF Count
<1> QED BY <1>1, <1>2, <1>3

(* What holds nothing, or one thing, counts accordingly. *)
LEMMA CountOne ==
    /\ Count(<<>>) = 0
    /\ \A v \in Slot : Count(<<v>>) = IF v = Empty THEN 0 ELSE 1
<1>1. Filling(<<>>, Empty) = {}
  BY DEF Filling
<1>2. ASSUME NEW v \in Slot PROVE Filling(<<v>>, Empty) = IF v = Empty THEN {} ELSE {1}
  BY DEF Filling
<1>3. Cardinality({}) = 0 /\ Cardinality({1}) = 1
  BY FS_EmptySet, FS_Singleton
<1> QED BY <1>1, <1>2, <1>3 DEF Count

(* Counts of a sequence that is put together. *)
LEMMA CountConcat ==
    ASSUME NEW s \in Seq(Slot), NEW t \in Seq(Slot)
    PROVE  Count(s \o t) = Count(s) + Count(t) /\ s \o t \in Seq(Slot)
BY FillingConcat DEF Count

(* A sequence put together of three counts like its parts. *)
LEMMA CountThree ==
    ASSUME NEW a \in Seq(Slot), NEW v \in Slot, NEW b \in Seq(Slot)
    PROVE  /\ Count(a) \in Nat /\ Count(b) \in Nat /\ Count(<<v>>) \in Nat
           /\ (a \o <<v>>) \o b \in Seq(Slot)
           /\ Count((a \o <<v>>) \o b) = Count(a) + Count(<<v>>) + Count(b)
           /\ Count(a \o b) = Count(a) + Count(b)
<1>1. <<v>> \in Seq(Slot)
  OBVIOUS
<1>2. Count(a) \in Nat /\ Count(b) \in Nat /\ Count(<<v>>) \in Nat
  BY <1>1, Weights DEF Side
<1>3. a \o <<v>> \in Seq(Slot) /\ Count(a \o <<v>>) = Count(a) + Count(<<v>>)
  BY <1>1, CountConcat
<1>4. /\ (a \o <<v>>) \o b \in Seq(Slot)
      /\ Count((a \o <<v>>) \o b) = Count(a \o <<v>>) + Count(b)
  BY <1>3, CountConcat
<1>5. Count(a \o b) = Count(a) + Count(b)
  BY CountConcat
<1> QED BY <1>2, <1>3, <1>4, <1>5

(* A sequence with and without one of its elements. *)
LEMMA CountAround ==
    ASSUME NEW s \in Seq(Slot), NEW k \in 1 .. Len(s), NEW v \in Slot
    PROVE  /\ [s EXCEPT ![k] = v] \in Seq(Slot)
           /\ Len([s EXCEPT ![k] = v]) = Len(s)
           /\ Count([s EXCEPT ![k] = v]) = Count(s) - Count(<<s[k]>>) + Count(<<v>>)
           /\ RemoveAt(s, k) \in Seq(Slot) /\ Len(RemoveAt(s, k)) = Len(s) - 1
           /\ Count(RemoveAt(s, k)) = Count(s) - Count(<<s[k]>>)
<1>0. PICK a, b : Around(a, b, s, k, v, Slot)
  BY SplitAround
<1>1. /\ a \in Seq(Slot) /\ b \in Seq(Slot)
      /\ a = SubSeq(s, 1, k - 1) /\ Len(a) = k - 1
      /\ b = SubSeq(s, k + 1, Len(s)) /\ Len(b) = Len(s) - k
      /\ s[k] \in Slot
      /\ s = (a \o <<s[k]>>) \o b
      /\ [s EXCEPT ![k] = v] = (a \o <<v>>) \o b
  BY <1>0 DEF Around
<1>2. RemoveAt(s, k) = a \o b
  BY <1>1 DEF RemoveAt
<1>3. /\ Count(a) \in Nat /\ Count(b) \in Nat
      /\ Count(<<v>>) \in Nat /\ Count(<<s[k]>>) \in Nat
      /\ Count(s) = Count(a) + Count(<<s[k]>>) + Count(b)
      /\ Count([s EXCEPT ![k] = v]) = Count(a) + Count(<<v>>) + Count(b)
      /\ Count(RemoveAt(s, k)) = Count(a) + Count(b)
  <2>1. /\ Count(<<s[k]>>) \in Nat
        /\ Count((a \o <<s[k]>>) \o b) = Count(a) + Count(<<s[k]>>) + Count(b)
    BY <1>1, CountThree
  <2>2. /\ Count(a) \in Nat /\ Count(b) \in Nat /\ Count(<<v>>) \in Nat
        /\ Count((a \o <<v>>) \o b) = Count(a) + Count(<<v>>) + Count(b)
        /\ Count(a \o b) = Count(a) + Count(b)
    BY <1>1, CountThree
  <2> QED BY <1>1, <1>2, <2>1, <2>2
<1>4. a \o b \in Seq(Slot) /\ Len(a \o b) = Len(s) - 1
  <2>1. Len(s) \in Nat /\ (k - 1) + (Len(s) - k) = Len(s) - 1
    OBVIOUS
  <2>2. a \o b \in Seq(Slot) /\ Len(a \o b) = Len(a) + Len(b)
    <3>1. a \in Seq(Slot) /\ b \in Seq(Slot)
      BY <1>1
    <3> QED BY <3>1, ConcatProperties
  <2> QED BY <1>1, <2>1, <2>2
<1>5. [s EXCEPT ![k] = v] \in Seq(Slot) /\ Len([s EXCEPT ![k] = v]) = Len(s)
  OBVIOUS
<1> QED BY <1>2, <1>3, <1>4, <1>5

(* A sequence with one more. *)
LEMMA CountInserted ==
    ASSUME NEW s \in Seq(Slot), NEW k \in 1 .. Len(s) + 1, NEW v \in Slot
    PROVE  /\ InsertAt(s, k, v) \in Seq(Slot)
           /\ Len(InsertAt(s, k, v)) = Len(s) + 1
           /\ Count(InsertAt(s, k, v)) = Count(s) + Count(<<v>>)
<1>1. PICK a, b : a = SubSeq(s, 1, k - 1) /\ b = SubSeq(s, k, Len(s))
  OBVIOUS
<1>2. /\ a \in Seq(Slot) /\ Len(a) = k - 1
      /\ b \in Seq(Slot) /\ Len(b) = Len(s) - (k - 1)
      /\ s = a \o b
  <2>1. k - 1 \in 0 .. Len(s) /\ (k - 1) + 1 = k
    OBVIOUS
  <2> QED BY <1>1, <2>1, SplitAt
<1>3. InsertAt(s, k, v) = (a \o <<v>>) \o b
  BY <1>1 DEF InsertAt
<1>4. /\ Count(a) \in Nat /\ Count(b) \in Nat /\ Count(<<v>>) \in Nat
      /\ (a \o <<v>>) \o b \in Seq(Slot)
      /\ Count((a \o <<v>>) \o b) = Count(a) + Count(<<v>>) + Count(b)
      /\ Count(a \o b) = Count(a) + Count(b)
  BY <1>2, CountThree
<1>5. Len((a \o <<v>>) \o b) = Len(s) + 1
  BY <1>2
<1> QED BY <1>2, <1>3, <1>4, <1>5

(* An array of n slots keeps the first ones ... *)
LEMMA Shrinking ==
    ASSUME NEW V, NEW s \in Seq(V), NEW e, NEW n \in Nat, n <= Len(s)
    PROVE  Resize(s, n, e) = SubSeq(s, 1, n)
<1> DEFINE m == Min({n, Len(s)})
           u == [i \in 1 .. n - Len(s) |-> e]
<1>1. Len(s) \in Nat
  OBVIOUS
<1>2. Resize(s, n, e) = SubSeq(s, 1, m) \o u
  BY DEF Resize
<1>3. m = n
  BY <1>1 DEF Min
<1>4. u = <<>>
  <2>1. 1 .. n - Len(s) = {}
    BY <1>1
  <2>2. \A S : S = {} => [i \in S |-> e] = <<>>
    OBVIOUS
  <2> QED BY <2>1, <2>2
<1> HIDE DEF m, u
<1>5. SubSeq(s, 1, n) \in Seq(V)
  BY <1>1, SplitAt
<1> QED BY <1>2, <1>3, <1>4, <1>5

(* ... and when there are more of them, the others are empty. *)
LEMMA Growing ==
    ASSUME NEW V, NEW s \in Seq(V), NEW e \in V, NEW n \in Nat, n > Len(s)
    PROVE  /\ SubSeq(s, n + 1, Len(s)) = <<>>
           /\ [i \in 1 .. n - Len(s) |-> e] \in Seq(V)
           /\ Resize(s, n, e) = s \o [i \in 1 .. n - Len(s) |-> e]
<1> DEFINE m == Min({n, Len(s)})
           u == [i \in 1 .. n - Len(s) |-> e]
<1>1. Len(s) \in Nat
  OBVIOUS
<1>2. Resize(s, n, e) = SubSeq(s, 1, m) \o u
  BY DEF Resize
<1>3. m = Len(s)
  BY <1>1 DEF Min
<1>4. n - Len(s) \in Nat
  BY <1>1
<1>5. u \in Seq(V)
  BY <1>4
<1>6. SubSeq(s, 1, Len(s)) = s
  OBVIOUS
<1>7. SubSeq(s, n + 1, Len(s)) = <<>>
  BY <1>1
<1> HIDE DEF m, u
<1> QED BY <1>2, <1>3, <1>5, <1>6, <1>7 DEF u

(* Either way there are n. *)
LEMMA Resizing ==
    ASSUME NEW V, NEW s \in Seq(V), NEW e \in V, NEW n \in Nat
    PROVE  /\ Resize(s, n, e) \in Seq(V) /\ Len(Resize(s, n, e)) = n
           /\ \A i \in 1 .. n : Resize(s, n, e)[i] = IF i <= Len(s) THEN s[i] ELSE e
<1>1. Len(s) \in Nat
  OBVIOUS
<1>2. CASE n <= Len(s)
  <2>1. PICK r : r = Resize(s, n, e)
    OBVIOUS
  <2>2. r = SubSeq(s, 1, n)
    BY <1>2, <2>1, Shrinking
  <2>3. r \in Seq(V) /\ Len(r) = n /\ \A i \in 1 .. n : r[i] = s[i]
    BY <1>1, <1>2, <2>2
  <2>4. \A i \in 1 .. n : i <= Len(s)
    BY <1>1, <1>2
  <2> QED BY <2>1, <2>3, <2>4
<1>3. CASE n > Len(s)
  <2>1. PICK u : u = [i \in 1 .. n - Len(s) |-> e]
    OBVIOUS
  <2>2. Resize(s, n, e) = s \o u
    <3>1. Resize(s, n, e) = s \o [i \in 1 .. n - Len(s) |-> e]
      BY <1>3, Growing
    <3> QED BY <2>1, <3>1
  <2>3. n - Len(s) \in Nat
    BY <1>1, <1>3
  <2>4. u \in Seq(V) /\ Len(u) = n - Len(s) /\ \A i \in 1 .. Len(u) : u[i] = e
    BY <2>1, <2>3
  <2>5. /\ s \o u \in Seq(V) /\ Len(s \o u) = Len(s) + Len(u)
        /\ \A i \in 1 .. Len(s) + Len(u) :
              (s \o u)[i] = IF i <= Len(s) THEN s[i] ELSE u[i - Len(s)]
    BY <2>4, ConcatProperties
  <2>6. Len(s) + Len(u) = n
    BY <1>1, <2>4
  <2>7. ASSUME NEW i \in 1 .. n PROVE (s \o u)[i] = IF i <= Len(s) THEN s[i] ELSE e
    <3>1. CASE i <= Len(s)
      BY <2>5, <2>6, <3>1
    <3>2. CASE ~(i <= Len(s))
      <4>1. i - Len(s) \in 1 .. Len(u)
        BY <1>1, <2>4, <2>6, <3>2
      <4>2. u[i - Len(s)] = e
        BY <2>4, <4>1
      <4> QED BY <2>5, <2>6, <3>2, <4>2
    <3> QED BY <3>1, <3>2
  <2> QED BY <2>2, <2>5, <2>6, <2>7
<1> QED BY <1>1, <1>2, <1>3

(* Its count loses that of the slots that go. *)
LEMMA CountResized ==
    ASSUME NEW s \in Seq(Slot), NEW n \in Nat
    PROVE  /\ SubSeq(s, n + 1, Len(s)) \in Seq(Slot)
           /\ Count(Resize(s, n, Empty)) = Count(s) - Count(SubSeq(s, n + 1, Len(s)))
<1>1. Len(s) \in Nat /\ Empty \in Slot
  BY DEF Slot
<1>2. Count(s) \in Nat
  BY Weights DEF Side
<1>3. CASE n <= Len(s)
  <2>1. PICK a, b : a = SubSeq(s, 1, n) /\ b = SubSeq(s, n + 1, Len(s))
    OBVIOUS
  <2>2. a \in Seq(Slot) /\ b \in Seq(Slot) /\ s = a \o b
    <3>1. n \in 0 .. Len(s)
      BY <1>1, <1>3
    <3> QED BY <2>1, <3>1, SplitAt
  <2>3. Count(s) = Count(a) + Count(b) /\ Count(a) \in Nat /\ Count(b) \in Nat
    BY <2>2, CountConcat, Weights DEF Side
  <2>4. Resize(s, n, Empty) = a
    <3>1. Resize(s, n, Empty) = SubSeq(s, 1, n)
      BY <1>3, Shrinking
    <3> QED BY <2>1, <3>1
  <2>5. Count(a) = Count(s) - Count(b)
    BY <2>3
  <2> QED BY <2>1, <2>2, <2>4, <2>5
<1>4. CASE n > Len(s)
  <2>1. PICK u : u = [i \in 1 .. n - Len(s) |-> Empty]
    OBVIOUS
  <2>2. /\ SubSeq(s, n + 1, Len(s)) = <<>>
        /\ u \in Seq(Slot) /\ Resize(s, n, Empty) = s \o u
    BY <1>1, <1>4, <2>1, Growing
  <2>3. Count(u) = 0
    <3>1. Filling(u, Empty) = {}
      BY <2>1 DEF Filling
    <3> QED BY <3>1, FS_EmptySet DEF Count
  <2>4. Count(s \o u) = Count(s)
    BY <1>2, <2>2, <2>3, CountConcat
  <2>5. <<>> \in Seq(Slot)
    OBVIOUS
  <2>6. Count(s) = Count(s) - 0
    BY <1>2
  <2> QED BY <2>2, <2>4, <2>5, <2>6, CountOne
<1> QED BY <1>1, <1>3, <1>4

(* u is t with other slots on one side, without a cache, and the length is *)
(* as true as it was.                                                      *)
Swapped(u, t, side, slots) ==
    /\ IsTx(u) /\ u.cache = <<>>
    /\ u.txIn = (IF side = "txIn" THEN slots ELSE t.txIn)
    /\ u.txOut = (IF side = "txOut" THEN slots ELSE t.txOut)
    /\ t.bytes = TrueBytes(t) => u.bytes = TrueBytes(u)

(* A call that changes the length by what the array gains does that. *)
LEMMA Changing ==
    ASSUME NEW t, IsTx(t), NEW side \in Side, NEW slots \in Seq(Slot), NEW gain,
           gain = CompactSize(Len(slots)) - CompactSize(Len(t[side]))
                    + (Weight(side, slots) - Weight(side, t[side]))
    PROVE  Swapped(Changed(t, side, slots, gain), t, side, slots)
<1>1. PICK u : u = Changed(t, side, slots, gain)
  OBVIOUS
<1>2. t.txIn \in Seq(Slot) /\ t.txOut \in Seq(Slot) /\ t.bytes \in Int
  BY DEF IsTx
<1>3. /\ Len(slots) \in Nat /\ Len(t.txIn) \in Nat /\ Len(t.txOut) \in Nat
      /\ "txIn" \in Side /\ "txOut" \in Side
  BY <1>2 DEF Side
<1>4. /\ CompactSize(Len(slots)) \in Nat
      /\ CompactSize(Len(t.txIn)) \in Nat /\ CompactSize(Len(t.txOut)) \in Nat
      /\ Weight(side, slots) \in Nat
      /\ Weight("txIn", t.txIn) \in Nat /\ Weight("txOut", t.txOut) \in Nat
  BY <1>2, <1>3, CompactSizes, Weights
<1>5. CASE side = "txIn"
  <2>1. u = [txIn |-> slots, txOut |-> t.txOut, bytes |-> t.bytes + gain, cache |-> <<>>]
    BY <1>1, <1>5 DEF IsTx, Changed
  <2>2. u.txIn = slots /\ u.txOut = t.txOut /\ u.bytes = t.bytes + gain /\ u.cache = <<>>
    BY <2>1
  <2>3. gain = CompactSize(Len(slots)) - CompactSize(Len(t.txIn))
                 + (Weight("txIn", slots) - Weight("txIn", t.txIn))
    BY <1>5
  <2>4. gain \in Int
    BY <1>4, <1>5, <2>3
  <2>5. IsTx(u)
    BY <1>2, <2>1, <2>2, <2>4 DEF IsTx
  <2>6. t.bytes = TrueBytes(t) => u.bytes = TrueBytes(u)
    <3>1. PICK a \in Nat, b \in Nat, c \in Nat, d \in Nat, x \in Nat, y \in Nat :
             /\ a = CompactSize(Len(slots)) /\ b = Weight("txIn", slots)
             /\ c = CompactSize(Len(t.txIn)) /\ d = Weight("txIn", t.txIn)
             /\ x = CompactSize(Len(t.txOut)) /\ y = Weight("txOut", t.txOut)
      BY <1>4, <1>5
    <3>2. TrueBytes(t) = 4 + c + d + x + y + 4
      BY <1>2, <3>1 DEF TrueBytes
    <3>3. TrueBytes(u) = 4 + a + b + x + y + 4
      BY <2>2, <3>1 DEF TrueBytes
    <3>4. u.bytes = t.bytes + (a - c + (b - d))
      BY <2>2, <2>3, <3>1
    <3> QED BY <1>2, <3>2, <3>3, <3>4
  <2> QED BY <1>1, <1>5, <2>2, <2>5, <2>6 DEF Swapped
<1>6. CASE side = "txOut"
  <2>1. u = [txIn |-> t.txIn, txOut |-> slots, bytes |-> t.bytes + gain, cache |-> <<>>]
    BY <1>1, <1>6 DEF IsTx, Changed
  <2>2. u.txIn = t.txIn /\ u.txOut = slots /\ u.bytes = t.bytes + gain /\ u.cache = <<>>
    BY <2>1
  <2>3. gain = CompactSize(Len(slots)) - CompactSize(Len(t.txOut))
                 + (Weight("txOut", slots) - Weight("txOut", t.txOut))
    BY <1>6
  <2>4. gain \in Int
    BY <1>4, <1>6, <2>3
  <2>5. IsTx(u)
    BY <1>2, <2>1, <2>2, <2>4 DEF IsTx
  <2>6. t.bytes = TrueBytes(t) => u.bytes = TrueBytes(u)
    <3>1. PICK a \in Nat, b \in Nat, c \in Nat, d \in Nat, x \in Nat, y \in Nat :
             /\ a = CompactSize(Len(slots)) /\ b = Weight("txOut", slots)
             /\ c = CompactSize(Len(t.txOut)) /\ d = Weight("txOut", t.txOut)
             /\ x = CompactSize(Len(t.txIn)) /\ y = Weight("txIn", t.txIn)
      BY <1>4, <1>6
    <3>2. TrueBytes(t) = 4 + c + d + x + y + 4
      BY <1>2, <3>1 DEF TrueBytes
    <3>3. TrueBytes(u) = 4 + a + b + x + y + 4
      BY <2>2, <3>1 DEF TrueBytes
    <3>4. u.bytes = t.bytes + (a - c + (b - d))
      BY <2>2, <2>3, <3>1
    <3> QED BY <1>2, <3>2, <3>3, <3>4
  <2> QED BY <1>1, <1>6, <2>2, <2>5, <2>6 DEF Swapped
<1> QED BY <1>5, <1>6 DEF Side

(* One side of a transaction, and what a slot of it weighs. *)
LEMMA Sides ==
    ASSUME NEW t, IsTx(t), NEW side \in Side
    PROVE  /\ t[side] \in Seq(Slot) /\ Len(t[side]) \in Nat
           /\ \A v \in Slot : Weight(side, <<v>>) = IF v = Empty THEN 0 ELSE Bytes[side]
<1>1. t[side] \in Seq(Slot)
  BY DEF IsTx, Side
<1>2. ASSUME NEW v \in Slot PROVE Weight(side, <<v>>) = IF v = Empty THEN 0 ELSE Bytes[side]
  <2>1. <<v>> \in Seq(Slot)
    OBVIOUS
  <2>2. Weight(side, <<v>>) = Bytes[side] * Count(<<v>>) /\ Bytes[side] \in Nat
    BY <2>1, Weights
  <2>3. Count(<<v>>) = IF v = Empty THEN 0 ELSE 1
    BY CountOne
  <2> QED BY <2>2, <2>3
<1> QED BY <1>1, <1>2

(* A weight gains in proportion to the count. *)
LEMMA WeightGains ==
    ASSUME NEW side \in Side, NEW s \in Seq(Slot), NEW r \in Seq(Slot),
           NEW u \in Seq(Slot), NEW w \in Seq(Slot),
           Count(r) = Count(s) - Count(u) + Count(w)
    PROVE  Weight(side, r) - Weight(side, s) = Weight(side, w) - Weight(side, u)
<1>1. PICK b \in Nat, x \in Nat, y \in Nat, z \in Nat, q \in Nat :
         /\ b = Bytes[side]
         /\ x = Count(s) /\ y = Count(u) /\ z = Count(w) /\ q = Count(r)
  BY Weights
<1>2. q = x - y + z
  BY <1>1
<1>3. b * q - b * x = b * z - b * y
  BY <1>2
<1> QED BY <1>1, <1>3, Weights

(* What the calls do to the arrays. *)
LEMMA ResizedFollows ==
    ASSUME NEW t, IsTx(t), NEW side \in Side, NEW n \in Nat
    PROVE  Swapped(Resized(t, side, n), t, side, Resize(t[side], n, Empty))
<1>1. PICK s, r, gone : /\ s = t[side] /\ r = Resize(s, n, Empty)
                        /\ gone = SubSeq(s, n + 1, Len(s))
  OBVIOUS
<1>2. s \in Seq(Slot) /\ Empty \in Slot
  BY <1>1, Sides DEF Slot
<1>3. r \in Seq(Slot) /\ Len(r) = n
  BY <1>1, <1>2, Resizing
<1>4. gone \in Seq(Slot) /\ Count(r) = Count(s) - Count(gone)
  BY <1>1, <1>2, CountResized
<1>5. /\ Count(s) \in Nat /\ Count(gone) \in Nat /\ <<>> \in Seq(Slot)
      /\ Count(<<>>) = 0
  BY <1>2, <1>4, Weights, CountOne
<1>6. /\ Weight(side, r) - Weight(side, s) = Weight(side, <<>>) - Weight(side, gone)
      /\ Weight(side, <<>>) = 0 /\ Weight(side, gone) \in Nat
  <2>1. Count(r) = Count(s) - Count(gone) + Count(<<>>)
    BY <1>4, <1>5
  <2>2. Weight(side, <<>>) = Bytes[side] * 0 /\ Bytes[side] \in Nat
    BY <1>5, Weights
  <2>3. Weight(side, r) - Weight(side, s) = Weight(side, <<>>) - Weight(side, gone)
    <3>1. PICK w \in Seq(Slot) : w = <<>>
      BY <1>5
    <3>2. Count(r) = Count(s) - Count(gone) + Count(w)
      BY <2>1, <3>1
    <3>3. Weight(side, r) - Weight(side, s) = Weight(side, w) - Weight(side, gone)
      BY <1>2, <1>3, <1>4, <3>2, WeightGains
    <3> QED BY <3>1, <3>3
  <2>4. Weight(side, gone) \in Nat
    BY <1>4, Weights
  <2> QED BY <2>2, <2>3, <2>4
<1>7. PICK gain : gain = CompactSize(n) - CompactSize(Len(s)) - Weight(side, gone)
  OBVIOUS
<1>8. gain = CompactSize(Len(r)) - CompactSize(Len(s))
               + (Weight(side, r) - Weight(side, s))
  <2>1. CompactSize(n) \in Nat /\ CompactSize(Len(s)) \in Nat
    BY <1>2, CompactSizes
  <2> QED BY <1>3, <1>6, <1>7, <2>1
<1>9. Swapped(Changed(t, side, r, gain), t, side, r)
  BY <1>1, <1>3, <1>8, Changing
<1>10. Resized(t, side, n) = Changed(t, side, r, gain)
  BY <1>1, <1>7 DEF Resized
<1> QED BY <1>1, <1>9, <1>10

(* setInput(), setOutput(): the slot has the new value. *)
LEMMA PlacedFollows ==
    ASSUME NEW t, IsTx(t), NEW side \in Side, NEW k \in 1 .. Len(t[side]),
           NEW v \in Amounts
    PROVE  Swapped(Placed(t, side, k, v), t, side, [t[side] EXCEPT ![k] = v])
<1>1. PICK s, r : s = t[side] /\ r = [s EXCEPT ![k] = v]
  OBVIOUS
<1>2. s \in Seq(Slot) /\ k \in 1 .. Len(s) /\ v \in Slot /\ v # Empty
  BY <1>1, Sides, WordAssumption DEF Slot, Amounts, Empty
<1>3. s[k] \in Slot /\ <<s[k]>> \in Seq(Slot) /\ <<v>> \in Seq(Slot) /\ Len(s) \in Nat
  BY <1>2
<1>4. /\ r \in Seq(Slot) /\ Len(r) = Len(s)
      /\ Count(r) = Count(s) - Count(<<s[k]>>) + Count(<<v>>)
  BY <1>1, <1>2, CountAround
<1>5. Weight(side, r) - Weight(side, s) = Weight(side, <<v>>) - Weight(side, <<s[k]>>)
  <2>1. PICK u \in Seq(Slot), w \in Seq(Slot) : u = <<s[k]>> /\ w = <<v>>
    BY <1>3
  <2>2. Count(r) = Count(s) - Count(u) + Count(w)
    BY <1>4, <2>1
  <2>3. Weight(side, r) - Weight(side, s) = Weight(side, w) - Weight(side, u)
    BY <1>2, <1>4, <2>2, WeightGains
  <2> QED BY <2>1, <2>3
<1>6. Weight(side, <<v>>) = Bytes[side] /\ Weight(side, <<s[k]>>) \in Nat /\ Bytes[side] \in Nat
  BY <1>2, <1>3, Sides, Weights
<1>7. PICK gain : gain = Bytes[side] - Weight(side, <<s[k]>>)
  OBVIOUS
<1>8. gain = CompactSize(Len(r)) - CompactSize(Len(s))
               + (Weight(side, r) - Weight(side, s))
  <2>1. CompactSize(Len(s)) \in Nat
    BY <1>2, CompactSizes
  <2> QED BY <1>4, <1>5, <1>6, <1>7, <2>1
<1>9. Swapped(Changed(t, side, r, gain), t, side, r)
  BY <1>1, <1>4, <1>8, Changing
<1>10. Placed(t, side, k, v) = Changed(t, side, r, gain)
  BY <1>1, <1>7 DEF Placed
<1> QED BY <1>1, <1>9, <1>10

(* insertInput(), insertOutput(): one more slot, with the new value. *)
LEMMA InsertedFollows ==
    ASSUME NEW t, IsTx(t), NEW side \in Side, NEW k \in 1 .. Len(t[side]) + 1,
           NEW v \in Amounts
    PROVE  Swapped(Inserted(t, side, k, v), t, side, InsertAt(t[side], k, v))
<1>1. PICK s, r : s = t[side] /\ r = InsertAt(s, k, v)
  OBVIOUS
<1>2. s \in Seq(Slot) /\ k \in 1 .. Len(s) + 1 /\ v \in Slot /\ v # Empty /\ Len(s) \in Nat
  BY <1>1, Sides, WordAssumption DEF Slot, Amounts, Empty
<1>3. <<v>> \in Seq(Slot) /\ <<>> \in Seq(Slot)
  BY <1>2
<1>4. /\ r \in Seq(Slot) /\ Len(r) = Len(s) + 1
      /\ Count(r) = Count(s) + Count(<<v>>)
  BY <1>1, <1>2, CountInserted
<1>5. /\ Count(<<>>) = 0 /\ Count(s) \in Nat /\ Bytes[side] \in Nat
      /\ Weight(side, <<>>) = Bytes[side] * 0
  BY <1>2, <1>3, CountOne, Weights
<1>6. Weight(side, r) - Weight(side, s) = Weight(side, <<v>>) - Weight(side, <<>>)
  <2>1. PICK u \in Seq(Slot), w \in Seq(Slot) : u = <<>> /\ w = <<v>>
    BY <1>3
  <2>2. Count(w) \in Nat
    BY Weights
  <2>3. Count(r) = Count(s) - Count(u) + Count(w)
    BY <1>4, <1>5, <2>1, <2>2
  <2>4. Weight(side, r) - Weight(side, s) = Weight(side, w) - Weight(side, u)
    BY <1>2, <1>4, <2>3, WeightGains
  <2> QED BY <2>1, <2>4
<1>7. Weight(side, <<v>>) = Bytes[side]
  BY <1>2, Sides
<1>8. PICK gain : gain = CompactSize(Len(s) + 1) - CompactSize(Len(s)) + Bytes[side]
  OBVIOUS
<1>9. gain = CompactSize(Len(r)) - CompactSize(Len(s))
               + (Weight(side, r) - Weight(side, s))
  <2>1. CompactSize(Len(s)) \in Nat /\ CompactSize(Len(s) + 1) \in Nat
    BY <1>2, CompactSizes
  <2> QED BY <1>4, <1>5, <1>6, <1>7, <1>8, <2>1
<1>10. Swapped(Changed(t, side, r, gain), t, side, r)
  BY <1>1, <1>4, <1>9, Changing
<1>11. Inserted(t, side, k, v) = Changed(t, side, r, gain)
  BY <1>1, <1>8 DEF Inserted
<1> QED BY <1>1, <1>10, <1>11

(* eraseInput(), eraseOutput(): the slot is gone. *)
LEMMA ErasedFollows ==
    ASSUME NEW t, IsTx(t), NEW side \in Side, NEW k \in 1 .. Len(t[side])
    PROVE  Swapped(Erased(t, side, k), t, side, RemoveAt(t[side], k))
<1>1. PICK s, r : s = t[side] /\ r = RemoveAt(s, k)
  OBVIOUS
<1>2. s \in Seq(Slot) /\ k \in 1 .. Len(s) /\ Len(s) \in Nat /\ Empty \in Slot
  BY <1>1, Sides DEF Slot
<1>3. s[k] \in Slot /\ <<s[k]>> \in Seq(Slot) /\ <<>> \in Seq(Slot)
  BY <1>2
<1>4. /\ r \in Seq(Slot) /\ Len(r) = Len(s) - 1
      /\ Count(r) = Count(s) - Count(<<s[k]>>)
  BY <1>1, <1>2, CountAround
<1>5. /\ Count(<<>>) = 0 /\ Count(s) \in Nat /\ Count(<<s[k]>>) \in Nat
      /\ Bytes[side] \in Nat /\ Weight(side, <<>>) = Bytes[side] * 0
      /\ Weight(side, <<s[k]>>) \in Nat
  BY <1>2, <1>3, CountOne, Weights
<1>6. Weight(side, r) - Weight(side, s) = Weight(side, <<>>) - Weight(side, <<s[k]>>)
  <2>1. PICK u \in Seq(Slot), w \in Seq(Slot) : u = <<s[k]>> /\ w = <<>>
    BY <1>3
  <2>2. Count(r) = Count(s) - Count(u) + Count(w)
    BY <1>4, <1>5, <2>1
  <2>3. Weight(side, r) - Weight(side, s) = Weight(side, w) - Weight(side, u)
    BY <1>2, <1>4, <2>2, WeightGains
  <2> QED BY <2>1, <2>3
<1>7. PICK gain : gain = CompactSize(Len(s) - 1) - CompactSize(Len(s))
                           - Weight(side, <<s[k]>>)
  OBVIOUS
<1>8. gain = CompactSize(Len(r)) - CompactSize(Len(s))
               + (Weight(side, r) - Weight(side, s))
  <2>1. CompactSize(Len(s)) \in Nat /\ CompactSize(Len(s) - 1) \in Nat
    <3>1. Len(s) - 1 \in Nat
      BY <1>2
    <3> QED BY <1>2, <3>1, CompactSizes
  <2> QED BY <1>4, <1>5, <1>6, <1>7, <2>1
<1>9. Swapped(Changed(t, side, r, gain), t, side, r)
  BY <1>1, <1>4, <1>8, Changing
<1>10. Erased(t, side, k) = Changed(t, side, r, gain)
  BY <1>1, <1>7 DEF Erased
<1> QED BY <1>1, <1>9, <1>10

(* dropInput(): the slot stays, empty, or nothing happens. *)
LEMMA VacatedFollows ==
    ASSUME NEW t, IsTx(t), NEW k \in 1 .. Len(t.txIn)
    PROVE  \/ Vacated(t, k) = t
           \/ Swapped(Vacated(t, k), t, "txIn", [t.txIn EXCEPT ![k] = Empty])
<1>1. PICK s, r : s = t.txIn /\ r = [s EXCEPT ![k] = Empty]
  OBVIOUS
<1>2. s \in Seq(Slot) /\ k \in 1 .. Len(s) /\ Len(s) \in Nat /\ Empty \in Slot
      /\ "txIn" \in Side /\ t["txIn"] = s
  BY <1>1 DEF Slot, IsTx, Side
<1>3. s[k] \in Slot /\ <<s[k]>> \in Seq(Slot) /\ <<Empty>> \in Seq(Slot)
  BY <1>2
<1>4. CASE s[k] = Empty
  BY <1>1, <1>4 DEF Vacated
<1>5. CASE s[k] # Empty
  <2>1. /\ r \in Seq(Slot) /\ Len(r) = Len(s)
        /\ Count(r) = Count(s) - Count(<<s[k]>>) + Count(<<Empty>>)
    BY <1>1, <1>2, CountAround
  <2>2. Weight("txIn", r) - Weight("txIn", s)
          = Weight("txIn", <<Empty>>) - Weight("txIn", <<s[k]>>)
    <3>1. PICK u \in Seq(Slot), w \in Seq(Slot) : u = <<s[k]>> /\ w = <<Empty>>
      BY <1>3
    <3>2. Count(r) = Count(s) - Count(u) + Count(w)
      BY <2>1, <3>1
    <3>3. Weight("txIn", r) - Weight("txIn", s) = Weight("txIn", w) - Weight("txIn", u)
      BY <1>2, <2>1, <3>2, WeightGains
    <3> QED BY <3>1, <3>3
  <2>3. /\ Weight("txIn", <<Empty>>) = 0
        /\ Weight("txIn", <<s[k]>>) = Bytes.txIn /\ Bytes.txIn \in Nat
    <3>1. Bytes["txIn"] = Bytes.txIn /\ Bytes["txIn"] \in Nat
      BY <1>2, Weights
    <3> QED BY <1>2, <1>3, <1>5, <3>1, Sides
  <2>4. PICK gain : gain = -Bytes.txIn
    OBVIOUS
  <2>5. gain = CompactSize(Len(r)) - CompactSize(Len(s))
                 + (Weight("txIn", r) - Weight("txIn", s))
    <3>1. CompactSize(Len(s)) \in Nat
      BY <1>2, CompactSizes
    <3> QED BY <2>1, <2>2, <2>3, <2>4, <3>1
  <2>6. Swapped(Changed(t, "txIn", r, gain), t, "txIn", r)
    BY <1>2, <2>1, <2>5, Changing
  <2>7. Vacated(t, k) = Changed(t, "txIn", r, gain)
    BY <1>1, <1>5, <2>4 DEF Vacated
  <2> QED BY <1>1, <2>6, <2>7
<1> QED BY <1>4, <1>5

(* A transaction whose length and cache are those of what it holds. *)
Sound(t) ==
    /\ IsTx(t) /\ t.bytes = TrueBytes(t)
    /\ t.cache # <<>> => t = Cached([t EXCEPT !.cache = <<>>])

(* A transaction that swapped its slots soundly is sound. *)
LEMMA SwappedIsSound ==
    ASSUME NEW u, NEW t, NEW side, NEW slots, Sound(t), Swapped(u, t, side, slots)
    PROVE  Sound(u)
BY DEF Sound, Swapped

(* A new transaction is sound. *)
LEMMA NewIsSound == IsTx(NewTransaction) /\ Sound(NewTransaction)
<1>1. IsTx(NewTransaction)
  BY DEF IsTx, NewTransaction
<1>2. NewTransaction.bytes = TrueBytes(NewTransaction)
  <2>1. /\ NewTransaction.txIn = <<>> /\ NewTransaction.txOut = <<>>
        /\ NewTransaction.bytes = 10
    BY DEF NewTransaction
  <2>2. CompactSize(Len(<<>>)) = 1
    BY CompactSizes
  <2>3. Weight("txIn", <<>>) = 0 /\ Weight("txOut", <<>>) = 0
    <3>1. <<>> \in Seq(Slot) /\ "txIn" \in Side /\ "txOut" \in Side
      BY DEF Side
    <3>2. \A side \in Side : Weight(side, <<>>) = Bytes[side] * 0 /\ Bytes[side] \in Nat
      BY <3>1, CountOne, Weights
    <3> QED BY <3>1, <3>2
  <2> QED BY <2>1, <2>2, <2>3 DEF TrueBytes
<1>3. NewTransaction.cache = <<>>
  BY DEF NewTransaction
<1> QED BY <1>1, <1>2, <1>3 DEF Sound

(* So is one that fills its cache. *)
LEMMA CachedIsSound ==
    ASSUME NEW t, Sound(t)
    PROVE  Sound(Cached(t))
<1>1. CASE t.cache # <<>>
  BY <1>1 DEF Cached
<1>2. CASE t.cache = <<>>
  <2>1. PICK c, u : /\ c = [inputs |-> ValueOf(t.txIn), outputs |-> ValueOf(t.txOut),
                            fee |-> Fee(t), rate |-> <<Fee(t), t.bytes>>]
                    /\ u = Cached(t)
    OBVIOUS
  <2>2. u = [t EXCEPT !.cache = c]
    BY <1>2, <2>1 DEF Cached
  <2>3. u = [txIn |-> t.txIn, txOut |-> t.txOut, bytes |-> t.bytes, cache |-> c]
    BY <2>2 DEF Sound, IsTx
  <2>4. u.txIn = t.txIn /\ u.txOut = t.txOut /\ u.bytes = t.bytes /\ u.cache = c
    BY <2>3
  <2>5. IsTx(u) /\ u.bytes = TrueBytes(u)
    BY <2>3, <2>4 DEF Sound, IsTx, TrueBytes
  <2>6. [u EXCEPT !.cache = <<>>] = t
    <3>1. [u EXCEPT !.cache = <<>>]
            = [txIn |-> t.txIn, txOut |-> t.txOut, bytes |-> t.bytes, cache |-> <<>>]
      BY <2>3
    <3> QED BY <1>2, <3>1 DEF Sound, IsTx
  <2> QED BY <2>1, <2>5, <2>6 DEF Sound
<1> QED BY <1>1, <1>2

(* Every call keeps a transaction sound. *)
LEMMA TxStep ==
    ASSUME Sound(tx), TxNext
    PROVE  Sound(tx')
<1>1. IsTx(tx) /\ \A side \in Side : DOMAIN tx[side] = 1 .. Len(tx[side])
  <2>1. IsTx(tx)
    BY DEF Sound
  <2>2. \A side \in Side : tx[side] \in Seq(Slot)
    BY <2>1, Sides
  <2> QED BY <2>1, <2>2
<1>2. ASSUME NEW side \in Side, NEW n \in 0 .. MaxSlots, SetSize(side, n)
      PROVE  Sound(tx')
  <2>1. n \in Nat
    BY TransactionAssumption
  <2>2. Swapped(Resized(tx, side, n), tx, side, Resize(tx[side], n, Empty))
    BY <1>1, <2>1, ResizedFollows
  <2> QED BY <1>2, <2>2, SwappedIsSound DEF SetSize
<1>3. ASSUME NEW side \in Side, NEW v \in SlotValue, NEW k \in DOMAIN tx[side],
             Place(side, k, v)
      PROVE  Sound(tx')
  <2>1. v \in Amounts
    BY TransactionAssumption
  <2>2. Swapped(Placed(tx, side, k, v), tx, side, [tx[side] EXCEPT ![k] = v])
    BY <1>1, <2>1, PlacedFollows
  <2> QED BY <1>3, <2>2, SwappedIsSound DEF Place
<1>4. ASSUME NEW side \in Side, NEW v \in SlotValue, NEW k \in 1 .. Len(tx[side]) + 1,
             Insert(side, k, v)
      PROVE  Sound(tx')
  <2>1. v \in Amounts
    BY TransactionAssumption
  <2>2. Swapped(Inserted(tx, side, k, v), tx, side, InsertAt(tx[side], k, v))
    BY <1>1, <2>1, InsertedFollows
  <2> QED BY <1>4, <2>2, SwappedIsSound DEF Insert
<1>5. ASSUME NEW side \in Side, NEW k \in DOMAIN tx[side], tx' = Erased(tx, side, k)
      PROVE  Sound(tx')
  <2>1. Swapped(Erased(tx, side, k), tx, side, RemoveAt(tx[side], k))
    BY <1>1, ErasedFollows
  <2> QED BY <1>5, <2>1, SwappedIsSound
<1>6. ASSUME NEW k \in DOMAIN tx.txIn, tx' = Vacated(tx, k)
      PROVE  Sound(tx')
  <2>1. k \in 1 .. Len(tx.txIn)
    BY <1>1 DEF IsTx
  <2>2. \/ Vacated(tx, k) = tx
        \/ Swapped(Vacated(tx, k), tx, "txIn", [tx.txIn EXCEPT ![k] = Empty])
    BY <1>1, <2>1, VacatedFollows
  <2> QED BY <1>6, <2>2, SwappedIsSound
<1>7. ASSUME BuildCache PROVE Sound(tx')
  BY <1>7, CachedIsSound DEF BuildCache
<1> QED BY <1>2, <1>3, <1>4, <1>5, <1>6, <1>7 DEF TxNext

-----------------------------------------------------------------------------
(* Blocks.                                                                 *)

TxnSlot == Txn \cup {NoTxn}
Blocks == [header : BOOLEAN, prev : SUBSET Int, txn : Seq(TxnSlot), bytes : Int,
           utxos : SUBSET Int, followed : BOOLEAN]

(* When the index was followed, it is the one of a block that holds H, and *)
(* what H spends was there before.                                         *)
Indexes(b, H) ==
    b.followed =>
        /\ b.utxos = (b.prev \cup PaidBy(H)) \ SpentBy(H)
        /\ SpentBy(H) \subseteq b.prev \cup H
        /\ H \cap b.prev = {}

(* Only the coinbase spends nothing, and no two transactions the same. *)
LEMMA Spending ==
    /\ \A T : PaidBy(T) = T
    /\ \A t : Paid(t) = {t}
    /\ \A t \in Txn : Spent(t) \subseteq Int /\ t \notin Spent(t)
    /\ \A t, u \in Txn : \A x : x \in Spent(t) /\ x \in Spent(u) => t = u
<1>1. \A t \in Txn : t \in Nat
  BY BlockAssumption
<1> QED BY <1>1 DEF PaidBy, Paid, Spent

(* A transaction that comes after those it spends from. *)
LEMMA AddedIndexes ==
    ASSUME NEW b \in Blocks, NEW H \in SUBSET Txn, NEW t \in Txn, t \notin H, Indexes(b, H)
    PROVE  Indexes(Added(b, t), H \cup {t})
<1>1. PICK c : c = Added(b, t)
  OBVIOUS
<1>2. /\ c.utxos = (b.utxos \ Spent(t)) \cup Paid(t) /\ c.prev = b.prev
      /\ c.followed <=> /\ b.followed /\ Spent(t) \subseteq b.utxos
                        /\ Paid(t) \cap (b.utxos \cup b.prev) = {}
  BY <1>1 DEF Blocks, Added
<1>3. SUFFICES ASSUME b.followed, Spent(t) \subseteq b.utxos,
                      Paid(t) \cap (b.utxos \cup b.prev) = {}
               PROVE  Indexes(c, H \cup {t})
  BY <1>1, <1>2 DEF Indexes
<1>4. /\ b.utxos = (b.prev \cup H) \ SpentBy(H)
      /\ SpentBy(H) \subseteq b.prev \cup H
      /\ H \cap b.prev = {}
  BY <1>3, Spending DEF Indexes
<1>5. SpentBy(H \cup {t}) = SpentBy(H) \cup Spent(t)
  BY DEF SpentBy
<1>6. Paid(t) = {t} /\ PaidBy(H \cup {t}) = H \cup {t} /\ t \notin Spent(t)
  BY Spending
<1>7. t \notin b.prev /\ t \notin b.utxos
  BY <1>3, <1>6
<1>8. t \notin SpentBy(H)
  BY <1>4, <1>7
<1>9. c.utxos = (c.prev \cup (H \cup {t})) \ (SpentBy(H) \cup Spent(t))
  BY <1>2, <1>4, <1>6, <1>8
<1>10. SpentBy(H) \cup Spent(t) \subseteq c.prev \cup (H \cup {t})
  BY <1>2, <1>3, <1>4
<1>11. (H \cup {t}) \cap c.prev = {}
  BY <1>2, <1>4, <1>7
<1> QED BY <1>5, <1>6, <1>9, <1>10, <1>11 DEF Indexes

(* One that leaves before those it spends from. *)
LEMMA RemovedIndexes ==
    ASSUME NEW b \in Blocks, NEW H \in SUBSET Txn, NEW t \in H, Indexes(b, H)
    PROVE  Indexes(Removed(b, t), H \ {t})
<1>1. PICK c : c = Removed(b, t)
  OBVIOUS
<1>2. /\ c.utxos = (b.utxos \ Paid(t)) \cup Spent(t) /\ c.prev = b.prev
      /\ c.followed <=> b.followed /\ Paid(t) \subseteq b.utxos
  BY <1>1 DEF Blocks, Removed
<1>3. SUFFICES ASSUME b.followed, Paid(t) \subseteq b.utxos
               PROVE  Indexes(c, H \ {t})
  BY <1>1, <1>2 DEF Indexes
<1>4. /\ b.utxos = (b.prev \cup H) \ SpentBy(H)
      /\ SpentBy(H) \subseteq b.prev \cup H
      /\ H \cap b.prev = {}
  BY <1>3, Spending DEF Indexes
<1>5. SpentBy(H \ {t}) = SpentBy(H) \ Spent(t)
  <2>1. \A u \in H : u # t => \A x \in Spent(u) : x \notin Spent(t)
    BY Spending
  <2> QED BY <2>1 DEF SpentBy
<1>6. Paid(t) = {t} /\ PaidBy(H \ {t}) = H \ {t} /\ t \notin Spent(t)
  BY Spending
<1>7. t \in b.utxos /\ t \notin SpentBy(H) /\ t \notin b.prev
  BY <1>3, <1>4, <1>6
<1>8. Spent(t) \subseteq SpentBy(H)
  BY DEF SpentBy
<1>9. c.utxos = (c.prev \cup (H \ {t})) \ (SpentBy(H) \ Spent(t))
  BY <1>2, <1>4, <1>6, <1>7, <1>8
<1>10. SpentBy(H) \ Spent(t) \subseteq c.prev \cup (H \ {t})
  BY <1>2, <1>4, <1>7
<1>11. (H \ {t}) \cap c.prev = {}
  BY <1>2, <1>4
<1> QED BY <1>5, <1>6, <1>9, <1>10, <1>11 DEF Indexes

Total(T) == MapThenSumSet(TxnBytes, T)

(* The length of a transaction is a number. *)
LEMMA TxnBytesIsNat == \A t \in Txn : TxnBytes(t) \in Nat
<1>1. ASSUME NEW t \in Nat PROVE TxnBytes(t) \in Nat
  <2>1. t % 2 \in 0 .. 1
    OBVIOUS
  <2>2. Bytes.txIn = 149 /\ Bytes.txOut = 34
    BY DEF Bytes
  <2>3. CoinbaseBytes \in Nat
    BY <2>2 DEF CoinbaseBytes
  <2> QED BY <2>1, <2>2, <2>3 DEF TxnBytes
<1> QED BY <1>1, BlockAssumption

(* The bytes of transactions add up, whatever the order. *)
LEMMA Totals ==
    /\ Total({}) = 0
    /\ \A T \in SUBSET Txn : Total(T) \in Int
    /\ \A T \in SUBSET Txn : \A t \in T : Total(T) = TxnBytes(t) + Total(T \ {t})
<1> DEFINE F == [t \in Txn |-> TxnBytes(t)]
<1>1. IsFiniteSet(Txn)
  BY BlockAssumption
<1>2. F \in [Txn -> Int]
  BY TxnBytesIsNat
<1>3. PICK it \in [SUBSET Txn -> Int] : Sums(it, Txn, F)
  <2> HIDE DEF F
  <2> QED BY <1>1, <1>2, SumExists
<1>4. ASSUME NEW T \in SUBSET Txn PROVE Total(T) = it[T]
  <2> DEFINE Val(c, s) == IF s = {} THEN 0 ELSE TxnBytes(Pick(s)) + c[s \ {Pick(s)}]
             D == SUBSET T
             c == CHOOSE c : c = [s \in D |-> Val(c, s)]
             jt == [s \in D |-> it[s]]
  <2>1. ASSUME NEW s \in D PROVE jt[s] = Val(jt, s)
    <3>1. CASE s = {}
      <4>1. it[s] = 0
        BY <1>3, <3>1 DEF Sums
      <4> QED BY <3>1, <4>1
    <3>2. CASE s # {}
      <4>1. Pick(s) \in s /\ s \ {Pick(s)} \in D /\ s \in SUBSET Txn
        BY <3>2 DEF Pick
      <4>2. it[s] = F[Pick(s)] + it[s \ {Pick(s)}]
        BY <1>3, <3>2, <4>1 DEF Sums
      <4>3. F[Pick(s)] = TxnBytes(Pick(s))
        BY <4>1
      <4> QED BY <3>2, <4>1, <4>2, <4>3
    <3> QED BY <3>1, <3>2
  <2>2. jt = [s \in D |-> Val(jt, s)]
    <3> HIDE DEF Val
    <3> QED BY <2>1
  <2>3. c = [s \in D |-> Val(c, s)]
    <3> HIDE DEF Val, D, jt
    <3> QED BY <2>2
  <2>4. Total(T) = c[T]
    BY DEF Total, MapThenSumSet, MapThenFoldSet, Pick
  <2> HIDE DEF c
  <2>5. Sums(c, T, F)
    <3>1. ASSUME NEW s \in D
          PROVE  c[s] = IF s = {} THEN 0 ELSE F[Pick(s)] + c[s \ {Pick(s)}]
      <4>1. c[s] = Val(c, s)
        <5> HIDE DEF Val, D
        <5> QED BY <2>3
      <4>2. CASE s = {}
        BY <4>1, <4>2
      <4>3. CASE s # {}
        <5>1. Pick(s) \in Txn
          BY <4>3 DEF Pick
        <5>2. F[Pick(s)] = TxnBytes(Pick(s))
          BY <5>1
        <5> QED BY <4>1, <4>3, <5>2
      <4> QED BY <4>2, <4>3
    <3> HIDE DEF F
    <3> QED BY <3>1 DEF Sums
  <2>6. it[T] = c[T]
    <3> HIDE DEF F
    <3> QED BY <1>1, <1>3, <2>5, SumSame
  <2> QED BY <2>4, <2>6
<1>5. it[{}] = 0
  BY <1>3 DEF Sums
<1>6. \A T \in SUBSET Txn : \A t \in T : it[T] = F[t] + it[T \ {t}]
  <2> HIDE DEF F
  <2>1. Additive(it, Txn, F)
    BY <1>1, <1>2, <1>3, SumAdds
  <2> QED BY <2>1 DEF Additive
<1>7. \A t \in Txn : F[t] = TxnBytes(t)
  OBVIOUS
<1> HIDE DEF F
<1> QED BY <1>4, <1>5, <1>6, <1>7

-----------------------------------------------------------------------------
(* The transactions in the slots of an array, each of them once.           *)
InSlots(s) == Range(s) \ {NoTxn}
OnceEach(s) == \A i, j \in 1 .. Len(s) : s[i] = s[j] /\ s[i] # NoTxn => i = j

(* An empty slot holds no transaction. *)
LEMMA NotATxn ==
    /\ NoTxn \notin Txn /\ NoTxn \in TxnSlot
    /\ \A s \in Seq(TxnSlot) : InSlots(s) \in SUBSET Txn
<1>1. NoTxn \notin Txn
  BY BlockAssumption DEF NoTxn
<1>2. \A s \in Seq(TxnSlot) : \A i \in DOMAIN s : s[i] \in TxnSlot
  OBVIOUS
<1> QED BY <1>1, <1>2 DEF TxnSlot, InSlots, Range

(* What two arrays hold together. *)
LEMMA ConcatSlots ==
    ASSUME NEW s \in Seq(TxnSlot), NEW t \in Seq(TxnSlot)
    PROVE  /\ s \o t \in Seq(TxnSlot) /\ Len(s \o t) = Len(s) + Len(t)
           /\ InSlots(s \o t) = InSlots(s) \cup InSlots(t)
           /\ OnceEach(s \o t) <=> /\ OnceEach(s) /\ OnceEach(t)
                                   /\ InSlots(s) \cap InSlots(t) = {}
<1> DEFINE a == Len(s)
           b == Len(t)
<1>1. PICK r : r = s \o t
  OBVIOUS
<1>2. /\ a \in Nat /\ b \in Nat /\ DOMAIN s = 1 .. a /\ DOMAIN t = 1 .. b
      /\ DOMAIN r = 1 .. a + b /\ Len(r) = a + b /\ r \in Seq(TxnSlot)
      /\ \A i \in 1 .. a + b : r[i] = IF i <= a THEN s[i] ELSE t[i - a]
  BY <1>1, ConcatProperties, LenProperties
<1> HIDE DEF a, b
<1>3. \A i \in 1 .. a : i \in 1 .. a + b /\ r[i] = s[i]
  BY <1>2
<1>4. \A i \in 1 .. b : i + a \in 1 .. a + b /\ r[i + a] = t[i]
  <2>1. ASSUME NEW i \in 1 .. b PROVE i + a \in 1 .. a + b /\ r[i + a] = t[i]
    <3>1. i + a \in 1 .. a + b /\ ~(i + a <= a) /\ (i + a) - a = i
      BY <1>2
    <3> QED BY <1>2, <3>1
  <2> QED BY <2>1
<1>5. ASSUME NEW i \in 1 .. a + b
      PROVE  \/ i \in 1 .. a /\ r[i] = s[i]
             \/ i - a \in 1 .. b /\ r[i] = t[i - a] /\ i \notin 1 .. a
  <2>1. CASE i <= a
    BY <1>2, <2>1
  <2>2. CASE ~(i <= a)
    BY <1>2, <2>2
  <2> QED BY <2>1, <2>2
<1>6. Range(r) = Range(s) \cup Range(t)
  <2>1. \A x : x \in Range(r) => x \in Range(s) \cup Range(t)
    BY <1>2, <1>5 DEF Range
  <2>2. \A x : x \in Range(s) => x \in Range(r)
    BY <1>2, <1>3 DEF Range
  <2>3. \A x : x \in Range(t) => x \in Range(r)
    BY <1>2, <1>4 DEF Range
  <2> QED BY <2>1, <2>2, <2>3
<1>7. ASSUME OnceEach(r)
      PROVE  OnceEach(s) /\ OnceEach(t) /\ InSlots(s) \cap InSlots(t) = {}
  <2>1. \A i, j \in 1 .. a + b : r[i] = r[j] /\ r[i] # NoTxn => i = j
    BY <1>2, <1>7 DEF OnceEach
  <2>2. \A i, j \in 1 .. a : s[i] = s[j] /\ s[i] # NoTxn => i = j
    BY <1>3, <2>1
  <2>3. ASSUME NEW i \in 1 .. b, NEW j \in 1 .. b, t[i] = t[j], t[i] # NoTxn
        PROVE  i = j
    <3>1. i + a = j + a
      BY <1>4, <2>1, <2>3
    <3> QED BY <1>2, <3>1
  <2>4. ASSUME NEW i \in 1 .. a, NEW j \in 1 .. b, s[i] = t[j], s[i] # NoTxn
        PROVE  FALSE
    <3>1. i = j + a
      BY <1>3, <1>4, <2>1, <2>4
    <3> QED BY <1>2, <3>1
  <2>5. InSlots(s) \cap InSlots(t) = {}
    BY <1>2, <2>4 DEF InSlots, Range
  <2> QED BY <2>2, <2>3, <2>5 DEF OnceEach, a, b
<1>8. ASSUME OnceEach(s), OnceEach(t), InSlots(s) \cap InSlots(t) = {}
      PROVE  OnceEach(r)
  <2>1. \A i, j \in 1 .. a : s[i] = s[j] /\ s[i] # NoTxn => i = j
    BY <1>8 DEF OnceEach, a
  <2>2. \A i, j \in 1 .. b : t[i] = t[j] /\ t[i] # NoTxn => i = j
    BY <1>8 DEF OnceEach, b
  <2>3. \A i \in 1 .. a, j \in 1 .. b : s[i] = t[j] => s[i] = NoTxn
    BY <1>2, <1>8 DEF InSlots, Range
  <2>4. ASSUME NEW i \in 1 .. a + b, NEW j \in 1 .. a + b, r[i] = r[j], r[i] # NoTxn
        PROVE  i = j
    <3>1. CASE i \in 1 .. a /\ r[i] = s[i] /\ j \in 1 .. a /\ r[j] = s[j]
      BY <2>1, <2>4, <3>1
    <3>2. CASE /\ i - a \in 1 .. b /\ r[i] = t[i - a]
               /\ j - a \in 1 .. b /\ r[j] = t[j - a]
      <4>1. i - a = j - a
        BY <2>2, <2>4, <3>2
      <4> QED BY <1>2, <4>1
    <3>3. CASE i \in 1 .. a /\ r[i] = s[i] /\ j - a \in 1 .. b /\ r[j] = t[j - a]
      BY <2>3, <2>4, <3>3
    <3>4. CASE j \in 1 .. a /\ r[j] = s[j] /\ i - a \in 1 .. b /\ r[i] = t[i - a]
      BY <2>3, <2>4, <3>4
    <3> QED BY <1>5, <3>1, <3>2, <3>3, <3>4
  <2> QED BY <1>2, <2>4 DEF OnceEach
<1>9. InSlots(r) = InSlots(s) \cup InSlots(t)
  BY <1>6 DEF InSlots
<1> QED BY <1>1, <1>2, <1>7, <1>8, <1>9 DEF a, b

(* What an array of one slot holds. *)
LEMMA OneSlot ==
    ASSUME NEW t \in TxnSlot
    PROVE  /\ <<t>> \in Seq(TxnSlot) /\ Len(<<t>>) = 1
           /\ InSlots(<<t>>) = {t} \ {NoTxn} /\ OnceEach(<<t>>)
<1>1. DOMAIN <<t>> = {1} /\ <<t>>[1] = t /\ Len(<<t>>) = 1
  OBVIOUS
<1>2. OnceEach(<<t>>)
  BY <1>1 DEF OnceEach
<1>3. InSlots(<<t>>) = {t} \ {NoTxn}
  BY <1>1 DEF InSlots, Range
<1> QED BY <1>1, <1>2, <1>3

(* Three parts. *)
LEMMA ThreeParts ==
    ASSUME NEW a \in Seq(TxnSlot), NEW t \in TxnSlot, NEW b \in Seq(TxnSlot)
    PROVE  /\ (a \o <<t>>) \o b \in Seq(TxnSlot)
           /\ InSlots((a \o <<t>>) \o b) = InSlots(a \o b) \cup ({t} \ {NoTxn})
           /\ OnceEach((a \o <<t>>) \o b) <=>
                 OnceEach(a \o b) /\ InSlots(a \o b) \cap ({t} \ {NoTxn}) = {}
<1>1. PICK c : c = <<t>>
  OBVIOUS
<1>2. c \in Seq(TxnSlot) /\ InSlots(c) = {t} \ {NoTxn} /\ OnceEach(c)
  BY <1>1, OneSlot
<1>3. /\ a \o c \in Seq(TxnSlot) /\ InSlots(a \o c) = InSlots(a) \cup InSlots(c)
      /\ OnceEach(a \o c) <=> OnceEach(a) /\ OnceEach(c) /\ InSlots(a) \cap InSlots(c) = {}
  BY <1>2, ConcatSlots
<1>4. /\ (a \o c) \o b \in Seq(TxnSlot)
      /\ InSlots((a \o c) \o b) = InSlots(a \o c) \cup InSlots(b)
      /\ OnceEach((a \o c) \o b) <=>
            OnceEach(a \o c) /\ OnceEach(b) /\ InSlots(a \o c) \cap InSlots(b) = {}
  BY <1>3, ConcatSlots
<1>5. /\ InSlots(a \o b) = InSlots(a) \cup InSlots(b)
      /\ OnceEach(a \o b) <=> OnceEach(a) /\ OnceEach(b) /\ InSlots(a) \cap InSlots(b) = {}
  BY ConcatSlots
<1>6. InSlots((a \o c) \o b) = InSlots(a \o b) \cup InSlots(c)
  BY <1>3, <1>4, <1>5
<1>7. OnceEach((a \o c) \o b) <=> OnceEach(a \o b) /\ InSlots(a \o b) \cap InSlots(c) = {}
  BY <1>2, <1>3, <1>4, <1>5
<1> QED BY <1>1, <1>2, <1>4, <1>6, <1>7

-----------------------------------------------------------------------------
(* A block that accounts for the transactions H: in its index, unless the  *)
(* calls did not follow the chain, and in its length.                      *)
Holds(b, H) ==
    /\ b \in Blocks /\ Indexes(b, H)
    /\ b.bytes = 80 + CompactSize(Len(b.txn)) + Total(H)

SameSlots(c, b) == c.txn = b.txn /\ c.prev = b.prev /\ c.header = b.header

(* Filling a slot accounts for one transaction more. *)
LEMMA FilledHolds ==
    ASSUME NEW b, NEW H \in SUBSET Txn, NEW t \in TxnSlot, t \notin H, Holds(b, H)
    PROVE  Holds(Filled(b, t), H \cup ({t} \ {NoTxn})) /\ SameSlots(Filled(b, t), b)
<1>1. CASE t = NoTxn
  <2>1. H \cup ({t} \ {NoTxn}) = H /\ Filled(b, t) = b
    BY <1>1 DEF Filled
  <2> QED BY <2>1 DEF SameSlots
<1>2. CASE t # NoTxn
  <2>1. t \in Txn /\ b \in Blocks /\ H \cup ({t} \ {NoTxn}) = H \cup {t}
    BY <1>2 DEF TxnSlot, Holds
  <2>2. PICK c, d : c = Added(b, t) /\ d = Filled(b, t)
    OBVIOUS
  <2>3. Indexes(c, H \cup {t})
    BY <2>1, <2>2, AddedIndexes DEF Holds
  <2>4. /\ c \in Blocks /\ c.prev = b.prev /\ c.txn = b.txn /\ c.bytes = b.bytes
        /\ c.header = b.header
    <3>1. Spent(t) \subseteq Int /\ Paid(t) \subseteq Int
      BY <2>1, Spending, BlockAssumption
    <3> QED BY <2>1, <2>2, <3>1 DEF Blocks, Added
  <2>5. TxnBytes(t) \in Int
    BY <2>1, TxnBytesIsNat
  <2>6. d = [c EXCEPT !.bytes = @ + TxnBytes(t)]
    BY <1>2, <2>2 DEF Filled
  <2>7. /\ d \in Blocks /\ d.prev = c.prev /\ d.txn = c.txn /\ d.header = c.header
        /\ d.utxos = c.utxos /\ d.followed = c.followed
        /\ d.bytes = c.bytes + TxnBytes(t)
    BY <2>4, <2>5, <2>6 DEF Blocks
  <2>8. Indexes(d, H \cup {t})
    BY <2>3, <2>7 DEF Indexes
  <2>9. Total(H \cup {t}) = TxnBytes(t) + Total(H) /\ Total(H) \in Int
    <3>1. H \cup {t} \in SUBSET Txn /\ t \in H \cup {t} /\ (H \cup {t}) \ {t} = H
      BY <2>1
    <3> QED BY <3>1, Totals
  <2>10. d.bytes = 80 + CompactSize(Len(d.txn)) + Total(H \cup {t})
    <3>1. Len(b.txn) \in Nat
      BY <2>1 DEF Blocks
    <3>2. CompactSize(Len(b.txn)) \in Nat
      BY <3>1, CompactSizes
    <3> QED BY <2>4, <2>5, <2>7, <2>9, <3>2 DEF Holds
  <2> QED BY <2>1, <2>2, <2>4, <2>7, <2>8, <2>10 DEF Holds, SameSlots
<1> QED BY <1>1, <1>2

(* Emptying one that holds a transaction, for one less. *)
LEMMA EmptiedHolds ==
    ASSUME NEW b, NEW H \in SUBSET Txn, NEW t \in TxnSlot, t = NoTxn \/ t \in H,
           Holds(b, H)
    PROVE  Holds(Emptied(b, t), H \ {t}) /\ SameSlots(Emptied(b, t), b)
<1>1. CASE t = NoTxn
  <2>1. H \ {t} = H /\ Emptied(b, t) = b
    BY <1>1, NotATxn DEF Emptied
  <2> QED BY <2>1 DEF SameSlots
<1>2. CASE t # NoTxn
  <2>1. t \in Txn /\ t \in H /\ b \in Blocks
    BY <1>2 DEF TxnSlot, Holds
  <2>2. PICK c, d : c = Removed(b, t) /\ d = Emptied(b, t)
    OBVIOUS
  <2>3. Indexes(c, H \ {t})
    BY <2>1, <2>2, RemovedIndexes DEF Holds
  <2>4. /\ c \in Blocks /\ c.prev = b.prev /\ c.txn = b.txn /\ c.bytes = b.bytes
        /\ c.header = b.header
    <3>1. Spent(t) \subseteq Int /\ Paid(t) \subseteq Int
      BY <2>1, Spending, BlockAssumption
    <3> QED BY <2>1, <2>2, <3>1 DEF Blocks, Removed
  <2>5. TxnBytes(t) \in Int
    BY <2>1, TxnBytesIsNat
  <2>6. d = [c EXCEPT !.bytes = @ - TxnBytes(t)]
    BY <1>2, <2>2 DEF Emptied
  <2>7. /\ d \in Blocks /\ d.prev = c.prev /\ d.txn = c.txn /\ d.header = c.header
        /\ d.utxos = c.utxos /\ d.followed = c.followed
        /\ d.bytes = c.bytes - TxnBytes(t)
    BY <2>4, <2>5, <2>6 DEF Blocks
  <2>8. Indexes(d, H \ {t})
    BY <2>3, <2>7 DEF Indexes
  <2>9. Total(H) = TxnBytes(t) + Total(H \ {t}) /\ Total(H \ {t}) \in Int
    BY <2>1, Totals
  <2>10. d.bytes = 80 + CompactSize(Len(d.txn)) + Total(H \ {t})
    <3>1. Len(b.txn) \in Nat
      BY <2>1 DEF Blocks
    <3>2. CompactSize(Len(b.txn)) \in Nat
      BY <3>1, CompactSizes
    <3> QED BY <2>4, <2>5, <2>7, <2>9, <3>2 DEF Holds
  <2> QED BY <2>2, <2>4, <2>7, <2>8, <2>10 DEF Holds, SameSlots
<1> QED BY <1>1, <1>2

(* Rearranging the slots changes the length with their number. *)
Rearranged(b, s) ==
    [b EXCEPT !.txn = s,
              !.bytes = @ + CompactSize(Len(s)) - CompactSize(Len(b.txn))]

(* Another array of slots changes what a block accounts for only in its    *)
(* size.                                                                   *)
LEMMA RearrangedHolds ==
    ASSUME NEW b, NEW H \in SUBSET Txn, Holds(b, H), NEW s \in Seq(TxnSlot)
    PROVE  /\ Holds(Rearranged(b, s), H) /\ Rearranged(b, s).txn = s
           /\ Rearranged(b, s).prev = b.prev /\ Rearranged(b, s).header = b.header
<1> DEFINE c == Rearranged(b, s)
<1>1. b \in Blocks
  BY DEF Holds
<1>2. CompactSize(Len(s)) \in Nat /\ CompactSize(Len(b.txn)) \in Nat
  <2>1. Len(s) \in Nat /\ Len(b.txn) \in Nat
    BY <1>1 DEF Blocks
  <2> QED BY <2>1, CompactSizes
<1>3. /\ c \in Blocks /\ c.prev = b.prev /\ c.txn = s /\ c.header = b.header
      /\ c.utxos = b.utxos /\ c.followed = b.followed
      /\ c.bytes = b.bytes + CompactSize(Len(s)) - CompactSize(Len(b.txn))
  <2>1. PICK n \in Int : n = b.bytes + CompactSize(Len(s)) - CompactSize(Len(b.txn))
    BY <1>1, <1>2 DEF Blocks
  <2>2. c = [b EXCEPT !.txn = s, !.bytes = n]
    BY <1>1, <2>1 DEF Rearranged, Blocks
  <2> HIDE DEF c
  <2>3. /\ c \in Blocks /\ c.prev = b.prev /\ c.txn = s /\ c.header = b.header
        /\ c.utxos = b.utxos /\ c.followed = b.followed /\ c.bytes = n
    BY <1>1, <2>2 DEF Blocks
  <2> QED BY <2>1, <2>3
<1> HIDE DEF c
<1>4. Total(H) \in Int
  BY Totals
<1>5. Indexes(c, H)
  BY <1>3 DEF Holds, Indexes
<1> QED BY <1>2, <1>3, <1>4, <1>5 DEF Holds, c

(* A block whose index and length are those of what it holds. *)
BlockSound(b) == Holds(b, InSlots(b.txn)) /\ OnceEach(b.txn)

(* setTxn() *)
LEMMA WithTxnIsSound ==
    ASSUME NEW b, BlockSound(b), NEW k \in 1 .. Len(b.txn), NEW t \in TxnSlot,
           t \notin InSlots(b.txn)
    PROVE  BlockSound(WithTxn(b, k, t)) /\ WithTxn(b, k, t).txn = [b.txn EXCEPT ![k] = t]
<1>1. b.txn \in Seq(TxnSlot) /\ Holds(b, InSlots(b.txn)) /\ OnceEach(b.txn)
  BY DEF BlockSound, Holds, Blocks
<1>2. PICK s, u, v : s = b.txn /\ u = s[k] /\ v = [s EXCEPT ![k] = t]
  OBVIOUS
<1>3. PICK x, y : Around(x, y, s, k, t, TxnSlot)
  BY <1>1, <1>2, SplitAround
<1>4. /\ x \in Seq(TxnSlot) /\ y \in Seq(TxnSlot) /\ u \in TxnSlot
      /\ s = (x \o <<u>>) \o y /\ v = (x \o <<t>>) \o y
  BY <1>2, <1>3 DEF Around
<1>5. PICK w \in Seq(TxnSlot) : w = x \o y
  BY <1>4, ConcatSlots
<1>6. /\ InSlots(s) = InSlots(w) \cup ({u} \ {NoTxn})
      /\ OnceEach(w) /\ InSlots(w) \cap ({u} \ {NoTxn}) = {}
  <2>1. /\ InSlots((x \o <<u>>) \o y) = InSlots(x \o y) \cup ({u} \ {NoTxn})
        /\ OnceEach((x \o <<u>>) \o y) <=>
              OnceEach(x \o y) /\ InSlots(x \o y) \cap ({u} \ {NoTxn}) = {}
    BY <1>4, ThreeParts
  <2> QED BY <1>1, <1>2, <1>4, <1>5, <2>1
<1>7. InSlots(w) \in SUBSET Txn /\ InSlots(s) \in SUBSET Txn
  BY <1>1, <1>2, <1>5, NotATxn
<1>8. InSlots(s) \ {u} = InSlots(w) /\ (u = NoTxn \/ u \in InSlots(s)) /\ t \notin InSlots(w)
  BY <1>2, <1>6, <1>7, NotATxn
<1>9. PICK c, d, e : /\ c = Emptied(b, u) /\ d = [c EXCEPT !.txn[k] = t]
                     /\ e = Filled(d, t)
  OBVIOUS
<1>10. Holds(c, InSlots(w)) /\ SameSlots(c, b)
  <2>1. PICK H \in SUBSET Txn : H = InSlots(s)
    BY <1>7
  <2>2. Holds(b, H) /\ (u = NoTxn \/ u \in H)
    BY <1>1, <1>2, <1>8, <2>1
  <2>3. Holds(c, H \ {u}) /\ SameSlots(c, b)
    BY <1>4, <1>9, <2>2, EmptiedHolds
  <2> QED BY <1>8, <2>1, <2>3
<1>11. v \in Seq(TxnSlot) /\ Len(v) = Len(s)
  BY <1>1, <1>2
<1>12. d = Rearranged(c, v)
  <2>1. c.txn = s /\ c \in Blocks
    BY <1>2, <1>10 DEF SameSlots, Holds
  <2>2. CompactSize(Len(s)) \in Nat /\ c.bytes \in Int
    <3>1. Len(s) \in Nat
      BY <1>1, <1>2
    <3> QED BY <2>1, <3>1, CompactSizes DEF Blocks
  <2>3. c.bytes + CompactSize(Len(v)) - CompactSize(Len(c.txn)) = c.bytes
    BY <1>11, <2>1, <2>2
  <2>4. d = [c EXCEPT !.txn = v]
    BY <1>2, <1>9, <2>1
  <2> QED BY <2>1, <2>3, <2>4 DEF Blocks, Rearranged
<1>13. Holds(d, InSlots(w)) /\ d.txn = v
  BY <1>7, <1>10, <1>11, <1>12, RearrangedHolds
<1>14. Holds(e, InSlots(w) \cup ({t} \ {NoTxn})) /\ e.txn = v
  BY <1>7, <1>8, <1>9, <1>13, FilledHolds DEF SameSlots
<1>15. /\ InSlots(v) = InSlots(w) \cup ({t} \ {NoTxn}) /\ OnceEach(v)
  <2>1. InSlots(w) \cap ({t} \ {NoTxn}) = {}
    BY <1>8
  <2> QED BY <1>4, <1>5, <1>6, <2>1, ThreeParts
<1>16. WithTxn(b, k, t) = e
  BY <1>2, <1>9 DEF WithTxn
<1> QED BY <1>2, <1>14, <1>15, <1>16 DEF BlockSound

-----------------------------------------------------------------------------
(* insertTxn() *)
LEMMA WithInsertedIsSound ==
    ASSUME NEW b, BlockSound(b), NEW k \in 1 .. Len(b.txn) + 1, NEW t \in TxnSlot,
           t \notin InSlots(b.txn)
    PROVE  BlockSound(WithInserted(b, k, t))
<1>1. b.txn \in Seq(TxnSlot) /\ Holds(b, InSlots(b.txn)) /\ OnceEach(b.txn)
  BY DEF BlockSound, Holds, Blocks
<1>2. PICK s, x, y : s = b.txn /\ x = SubSeq(s, 1, k - 1) /\ y = SubSeq(s, k, Len(s))
  OBVIOUS
<1>3. /\ x \in Seq(TxnSlot) /\ Len(x) = k - 1
      /\ y \in Seq(TxnSlot) /\ Len(y) = Len(s) - (k - 1) /\ s = x \o y
  <2>1. k - 1 \in 0 .. Len(s) /\ (k - 1) + 1 = k
    BY <1>1, <1>2
  <2> QED BY <1>1, <1>2, <2>1, SplitAt
<1>4. PICK v : v = (x \o <<t>>) \o y
  OBVIOUS
<1>5. InsertAt(s, k, t) = v
  BY <1>2, <1>4 DEF InsertAt
<1>6. /\ v \in Seq(TxnSlot) /\ InSlots(v) = InSlots(s) \cup ({t} \ {NoTxn})
      /\ OnceEach(v)
  <2>1. InSlots(x \o y) \cap ({t} \ {NoTxn}) = {} /\ OnceEach(x \o y)
    BY <1>1, <1>2, <1>3
  <2>2. /\ (x \o <<t>>) \o y \in Seq(TxnSlot)
        /\ InSlots((x \o <<t>>) \o y) = InSlots(x \o y) \cup ({t} \ {NoTxn})
        /\ OnceEach((x \o <<t>>) \o y) <=>
              OnceEach(x \o y) /\ InSlots(x \o y) \cap ({t} \ {NoTxn}) = {}
    BY <1>3, ThreeParts
  <2> QED BY <1>3, <1>4, <2>1, <2>2
<1>7. Len(v) = Len(s) + 1
  BY <1>3, <1>4
<1>8. PICK H \in SUBSET Txn : H = InSlots(s)
  BY <1>1, <1>2, NotATxn
<1>9. PICK c, d : c = Rearranged(b, v) /\ d = Filled(c, t)
  OBVIOUS
<1>10. Holds(c, H) /\ c.txn = v
  BY <1>1, <1>2, <1>6, <1>8, <1>9, RearrangedHolds
<1>11. Holds(d, H \cup ({t} \ {NoTxn})) /\ d.txn = v
  BY <1>2, <1>8, <1>9, <1>10, FilledHolds DEF SameSlots
<1>12. WithInserted(b, k, t) = d
  BY <1>2, <1>5, <1>7, <1>9 DEF WithInserted, Rearranged
<1> QED BY <1>6, <1>8, <1>11, <1>12 DEF BlockSound

(* eraseTxn() *)
LEMMA WithErasedIsSound ==
    ASSUME NEW b, BlockSound(b), NEW k \in 1 .. Len(b.txn)
    PROVE  BlockSound(WithErased(b, k))
<1>1. b.txn \in Seq(TxnSlot) /\ Holds(b, InSlots(b.txn)) /\ OnceEach(b.txn)
  BY DEF BlockSound, Holds, Blocks
<1>2. PICK s, u : s = b.txn /\ u = s[k]
  OBVIOUS
<1>3. PICK x, y : Around(x, y, s, k, NoTxn, TxnSlot)
  BY <1>1, <1>2, NotATxn, SplitAround
<1>4. /\ x \in Seq(TxnSlot) /\ Len(x) = k - 1 /\ y \in Seq(TxnSlot)
      /\ Len(y) = Len(s) - k /\ u \in TxnSlot
      /\ s = (x \o <<u>>) \o y /\ RemoveAt(s, k) = x \o y
  BY <1>2, <1>3 DEF Around, RemoveAt
<1>5. PICK w \in Seq(TxnSlot) : w = x \o y
  BY <1>4, ConcatSlots
<1>6. /\ InSlots(s) = InSlots(w) \cup ({u} \ {NoTxn})
      /\ OnceEach(w) /\ InSlots(w) \cap ({u} \ {NoTxn}) = {}
  <2>1. /\ InSlots((x \o <<u>>) \o y) = InSlots(x \o y) \cup ({u} \ {NoTxn})
        /\ OnceEach((x \o <<u>>) \o y) <=>
              OnceEach(x \o y) /\ InSlots(x \o y) \cap ({u} \ {NoTxn}) = {}
    BY <1>4, ThreeParts
  <2> QED BY <1>1, <1>2, <1>4, <1>5, <2>1
<1>7. PICK H \in SUBSET Txn : H = InSlots(s)
  BY <1>1, <1>2, NotATxn
<1>8. InSlots(w) \in SUBSET Txn /\ H \ {u} = InSlots(w) /\ (u = NoTxn \/ u \in H)
  BY <1>5, <1>6, <1>7, NotATxn
<1>9. PICK c, d : c = Emptied(b, u) /\ d = Rearranged(c, w)
  OBVIOUS
<1>10. Holds(c, H \ {u}) /\ c.txn = s
  BY <1>1, <1>2, <1>4, <1>7, <1>8, <1>9, EmptiedHolds DEF SameSlots
<1>11. Holds(d, InSlots(w)) /\ d.txn = w
  BY <1>5, <1>8, <1>9, <1>10, RearrangedHolds
<1>12. Len(w) = Len(s) - 1
  <2>1. Len(x \o y) = Len(x) + Len(y) /\ Len(s) \in Nat
    BY <1>1, <1>2, <1>4, ConcatSlots
  <2>2. k \in Nat
    BY <1>1
  <2> QED BY <1>4, <1>5, <2>1, <2>2
<1>13. WithErased(b, k) = d
  BY <1>2, <1>4, <1>5, <1>9, <1>10, <1>12 DEF WithErased, Rearranged
<1> QED BY <1>6, <1>11, <1>13 DEF BlockSound

(* What the calls on a slot make of a block is one. *)
LEMMA StillABlock ==
    ASSUME NEW b \in Blocks, NEW t \in TxnSlot
    PROVE  /\ Emptied(b, t) \in Blocks
           /\ (IF t = NoTxn THEN b ELSE Added(b, t)) \in Blocks
<1>1. CASE t = NoTxn
  BY <1>1 DEF Emptied
<1>2. CASE t # NoTxn
  <2>1. t \in Txn
    BY <1>2 DEF TxnSlot
  <2>2. Spent(t) \subseteq Int /\ Paid(t) \subseteq Int /\ TxnBytes(t) \in Int
    BY <2>1, Spending, BlockAssumption, TxnBytesIsNat
  <2>3. Added(b, t) \in Blocks
    BY <2>2 DEF Blocks, Added
  <2>4. PICK c : c = Removed(b, t)
    OBVIOUS
  <2>5. c \in Blocks
    BY <2>2, <2>4 DEF Blocks, Removed
  <2>6. Emptied(b, t) = [c EXCEPT !.bytes = @ - TxnBytes(t)]
    BY <1>2, <2>4 DEF Emptied
  <2>7. Emptied(b, t) \in Blocks
    BY <2>2, <2>5, <2>6 DEF Blocks
  <2> QED BY <1>2, <2>3, <2>7
<1> QED BY <1>1, <1>2

(* setTxnArraySize() empties slots one after the other. *)
LEMMA FoldEmptied ==
    ASSUME NEW w \in Blocks, NEW s \in Seq(TxnSlot)
    PROVE  \E f \in [0 .. Len(s) -> Blocks] :
              /\ f[0] = w
              /\ \A i \in 1 .. Len(s) : f[i] = Emptied(f[i - 1], s[i])
              /\ f[Len(s)] = FoldLeft(Emptied, w, s)
<1> DEFINE N == Len(s)
           G == [i \in 1 .. N |-> [v \in Blocks |-> Emptied(v, s[i])]]
           Val(c, S) == IF S = {} THEN w
                        ELSE Emptied(c[S \ {Max(S)}], s[Max(S)])
           D == SUBSET (1 .. N)
           c == CHOOSE c : c = [S \in D |-> Val(c, S)]
<1>1. N \in Nat /\ DOMAIN s = 1 .. N
  OBVIOUS
<1>2. w \in Blocks
  OBVIOUS
<1>3. \A i \in 1 .. N : \A v \in Blocks : Emptied(v, s[i]) \in Blocks
  BY StillABlock
<1>4. G \in [1 .. N -> [Blocks -> Blocks]]
  BY <1>3
<1>5. PICK it \in [D -> Blocks] : Unfolds(it, N, w, G)
  <2> HIDE DEF G, N
  <2> QED BY <1>1, <1>2, <1>4, Unfolding
<1>6. ASSUME NEW S \in D PROVE it[S] = Val(it, S)
  <2>1. CASE S = {}
    BY <1>5, <2>1 DEF Unfolds
  <2>2. CASE S # {}
    <3>1. Max(S) \in 1 .. N /\ S \ {Max(S)} \in D
      BY <1>5, <2>2 DEF Unfolds
    <3>2. it[S \ {Max(S)}] \in Blocks /\ it[S] = G[Max(S)][it[S \ {Max(S)}]]
      BY <1>5, <2>2, <3>1 DEF Unfolds
    <3> QED BY <3>1, <3>2, <2>2
  <2> QED BY <2>1, <2>2
<1>7. it = [S \in D |-> Val(it, S)]
  <2> HIDE DEF Val, D
  <2> QED BY <1>5, <1>6
<1>8. c = [S \in D |-> Val(c, S)]
  <2> HIDE DEF Val, D
  <2> QED BY <1>7
<1>9. FoldLeft(Emptied, w, s) = c[1 .. N]
  BY <1>1 DEF FoldLeft, MapThenFoldSet
<1> HIDE DEF c
<1> DEFINE f == [i \in 0 .. N |-> c[1 .. i]]
<1>10. f[0] = w
  <2>1. 1 .. 0 \in D /\ 1 .. 0 = {} /\ 0 \in 0 .. N
    BY <1>1
  <2> QED BY <2>1, <1>8
<1>11. ASSUME NEW i \in 1 .. N PROVE f[i] = Emptied(f[i - 1], s[i])
  <2>1. /\ 1 .. i \in D /\ i - 1 \in 0 .. N /\ i \in Nat \ {0}
        /\ i \in 0 .. N
    BY <1>1
  <2>2. c[1 .. i] = Val(c, 1 .. i)
    <3> HIDE DEF Val, D
    <3> QED BY <2>1, <1>8
  <2>3. c[1 .. i] = Emptied(c[1 .. (i - 1)], s[i])
    BY <2>1, <2>2, IterationStep
  <2> QED BY <2>1, <2>3
<1>12. \A i \in 1 .. N : f[i - 1] \in Blocks => f[i] \in Blocks
  <2> HIDE DEF f, N
  <2> QED BY <1>3, <1>11
<1>13. f \in [0 .. N -> Blocks]
  <2> HIDE DEF N
  <2>1. \A i \in 0 .. N : f[i] \in Blocks
    <3> HIDE DEF f
    <3> QED BY <1>1, <1>2, <1>10, <1>12, StaysIn
  <2> QED BY <2>1
<1>14. f[N] = c[1 .. N]
  BY <1>1
<1> HIDE DEF f, N
<1>15. f[N] = FoldLeft(Emptied, w, s)
  BY <1>9, <1>14, Zenon
<1> QED BY <1>10, <1>11, <1>13, <1>15 DEF N

(* A block stops accounting for the transactions that leave it, one by     *)
(* one.                                                                    *)
LEMMA EmptyingHolds ==
    ASSUME NEW w, NEW H \in SUBSET Txn, Holds(w, H), NEW s \in Seq(TxnSlot),
           OnceEach(s), InSlots(s) \subseteq H
    PROVE  /\ Holds(FoldLeft(Emptied, w, s), H \ InSlots(s))
           /\ SameSlots(FoldLeft(Emptied, w, s), w)
<1>1. w \in Blocks /\ Len(s) \in Nat
  BY DEF Holds
<1>2. PICK f \in [0 .. Len(s) -> Blocks] :
              /\ f[0] = w
              /\ \A i \in 1 .. Len(s) : f[i] = Emptied(f[i - 1], s[i])
              /\ f[Len(s)] = FoldLeft(Emptied, w, s)
  BY <1>1, FoldEmptied
<1> DEFINE gone(i) == {s[j] : j \in 1 .. i} \ {NoTxn}
           T == {i \in Nat : Holds(f[i], H \ gone(i)) /\ SameSlots(f[i], w)}
<1>3. 0 \in T
  <2>1. gone(0) = {}
    OBVIOUS
  <2>2. H \ gone(0) = H
    BY <2>1
  <2> QED BY <1>2, <2>2 DEF SameSlots
<1>4. ASSUME NEW i \in Nat, i < Len(s), i \in T PROVE i + 1 \in T
  <2>1. PICK t : t = s[i + 1]
    OBVIOUS
  <2>2. i + 1 \in 1 .. Len(s) /\ (i + 1) - 1 = i /\ t \in TxnSlot
    BY <1>1, <1>4, <2>1
  <2>3. f[i + 1] = Emptied(f[i], t)
    BY <1>2, <2>1, <2>2
  <2>4. gone(i + 1) = gone(i) \cup ({t} \ {NoTxn})
    BY <2>1
  <2>5. t = NoTxn \/ t \in InSlots(s)
    BY <2>1, <2>2 DEF InSlots, Range
  <2>6. t = NoTxn \/ t \notin gone(i)
    <3>1. \A j \in 1 .. i : j \in 1 .. Len(s) /\ j # i + 1
      BY <1>1, <1>4
    <3> QED BY <2>1, <2>2, <3>1 DEF OnceEach
  <2>7. PICK G \in SUBSET Txn : G = H \ gone(i)
    OBVIOUS
  <2>8. Holds(f[i], G) /\ SameSlots(f[i], w) /\ (t = NoTxn \/ t \in G)
    BY <1>4, <2>5, <2>6, <2>7
  <2>9. Holds(f[i + 1], G \ {t}) /\ SameSlots(f[i + 1], f[i])
    BY <2>2, <2>3, <2>8, EmptiedHolds
  <2>10. G \ {t} = H \ gone(i + 1)
    BY <2>4, <2>7, NotATxn
  <2> QED BY <2>8, <2>9, <2>10 DEF SameSlots
<1>5. Len(s) \in T
  <2> HIDE DEF T
  <2>1. PICK n \in Nat : n = Len(s)
    BY <1>1
  <2>2. \A i \in Nat : i < n /\ i \in T => i + 1 \in T
    BY <1>4, <2>1
  <2>3. \A i \in 0 .. n : i \in T
    BY <1>3, <2>2, InductionUpTo
  <2> QED BY <2>1, <2>3
<1>6. gone(Len(s)) = InSlots(s)
  BY <1>1 DEF InSlots, Range
<1> QED BY <1>2, <1>5, <1>6

(* Taken from the last one up, the slots are the same. *)
LEMMA ReversedSlots ==
    ASSUME NEW s \in Seq(TxnSlot)
    PROVE  /\ Reverse(s) \in Seq(TxnSlot) /\ InSlots(Reverse(s)) = InSlots(s)
           /\ OnceEach(s) => OnceEach(Reverse(s))
<1>1. PICK n, r : n = Len(s) /\ r = Reverse(s)
  OBVIOUS
<1>2. n \in Nat /\ DOMAIN s = 1 .. n /\ \A i \in 1 .. n : s[i] \in TxnSlot
  BY <1>1
<1>3. \A i \in 1 .. n : (n - i) + 1 \in 1 .. n /\ (n - ((n - i) + 1)) + 1 = i
  BY <1>2
<1>4. r = [i \in 1 .. n |-> s[(n - i) + 1]]
  BY <1>1 DEF Reverse
<1>5. r \in Seq(TxnSlot) /\ Len(r) = n /\ DOMAIN r = 1 .. n
  BY <1>2, <1>3, <1>4
<1>6. Range(r) = Range(s)
  <2>1. \A i \in 1 .. n : r[i] \in Range(s)
    BY <1>2, <1>3, <1>4 DEF Range
  <2>2. \A i \in 1 .. n : s[i] \in Range(r)
    <3>1. ASSUME NEW i \in 1 .. n PROVE s[i] \in Range(r)
      <4>1. PICK j \in 1 .. n : j = (n - i) + 1 /\ (n - j) + 1 = i
        BY <1>3
      <4>2. r[j] = s[i]
        BY <1>4, <4>1
      <4> QED BY <1>5, <4>2 DEF Range
    <3> QED BY <3>1
  <2>3. \A q : q \in Range(r) => \E i \in 1 .. n : q = r[i]
    BY <1>5 DEF Range
  <2>4. \A q : q \in Range(s) => \E i \in 1 .. n : q = s[i]
    BY <1>2 DEF Range
  <2>5. ASSUME NEW q \in Range(r) PROVE q \in Range(s)
    BY <2>1, <2>3
  <2>6. ASSUME NEW q \in Range(s) PROVE q \in Range(r)
    BY <2>2, <2>4
  <2> QED BY <2>5, <2>6
<1>7. ASSUME OnceEach(s) PROVE OnceEach(r)
  <2>1. ASSUME NEW i \in 1 .. n, NEW j \in 1 .. n, r[i] = r[j], r[i] # NoTxn
        PROVE  i = j
    <3>1. r[i] = s[(n - i) + 1] /\ r[j] = s[(n - j) + 1]
      BY <1>4
    <3>2. (n - i) + 1 = (n - j) + 1
      <4>1. PICK k \in 1 .. n, l \in 1 .. n : k = (n - i) + 1 /\ l = (n - j) + 1
        BY <1>3
      <4>2. s[k] = s[l] /\ s[k] # NoTxn
        BY <2>1, <3>1, <4>1
      <4>3. k = l
        BY <1>1, <1>7, <4>2 DEF OnceEach
      <4> QED BY <4>1, <4>3
    <3> QED BY <1>2, <3>2
  <2> QED BY <1>5, <2>1 DEF OnceEach
<1> QED BY <1>1, <1>5, <1>6, <1>7 DEF InSlots

(* setTxnArraySize() *)
LEMMA WithSizeIsSound ==
    ASSUME NEW b, BlockSound(b), NEW n \in Nat
    PROVE  /\ BlockSound(WithSize(b, n))
           /\ WithSize(b, n).txn = Resize(b.txn, n, NoTxn)
<1>1. b.txn \in Seq(TxnSlot) /\ Holds(b, InSlots(b.txn)) /\ OnceEach(b.txn)
  BY DEF BlockSound, Holds, Blocks
<1>2. PICK s, v, y, r : /\ s = b.txn /\ v = Resize(s, n, NoTxn)
                        /\ y = SubSeq(s, n + 1, Len(s)) /\ r = Reverse(y)
  OBVIOUS
<1>3. s \in Seq(TxnSlot) /\ v \in Seq(TxnSlot) /\ Len(v) = n /\ Len(s) \in Nat
  BY <1>1, <1>2, NotATxn, Resizing
<1>4. /\ y \in Seq(TxnSlot) /\ OnceEach(y) /\ InSlots(y) \subseteq InSlots(s)
      /\ OnceEach(v) /\ InSlots(v) = InSlots(s) \ InSlots(y)
  <2>1. CASE n <= Len(s)
    <3>1. v = SubSeq(s, 1, n)
      BY <1>2, <1>3, <2>1, Shrinking
    <3>2. y \in Seq(TxnSlot) /\ s = v \o y
      <4>1. n \in 0 .. Len(s)
        BY <1>3, <2>1
      <4> QED BY <1>2, <1>3, <3>1, <4>1, SplitAt
    <3>3. /\ InSlots(v \o y) = InSlots(v) \cup InSlots(y)
          /\ OnceEach(v \o y) <=> /\ OnceEach(v) /\ OnceEach(y)
                                  /\ InSlots(v) \cap InSlots(y) = {}
      BY <1>3, <3>2, ConcatSlots
    <3> QED BY <1>1, <1>2, <3>2, <3>3
  <2>2. CASE n > Len(s)
    <3>1. PICK u : u = [i \in 1 .. n - Len(s) |-> NoTxn]
      OBVIOUS
    <3>2. y = <<>> /\ u \in Seq(TxnSlot) /\ v = s \o u
      <4>1. NoTxn \in TxnSlot
        BY NotATxn
      <4>2. PICK e \in TxnSlot : e = NoTxn
        BY <4>1
      <4>3. s \in Seq(TxnSlot) /\ n > Len(s)
        BY <1>3, <2>2
      <4>4. /\ SubSeq(s, n + 1, Len(s)) = <<>>
            /\ [i \in 1 .. n - Len(s) |-> e] \in Seq(TxnSlot)
            /\ Resize(s, n, e) = s \o [i \in 1 .. n - Len(s) |-> e]
        BY <4>3, Growing
      <4>5. [i \in 1 .. n - Len(s) |-> e] = u
        BY <3>1, <4>2
      <4> QED BY <1>2, <4>2, <4>4, <4>5
    <3>3. \A i \in DOMAIN u : u[i] = NoTxn
      BY <3>1
    <3>4. InSlots(u) = {} /\ OnceEach(u)
      BY <3>2, <3>3 DEF InSlots, Range, OnceEach
    <3>5. InSlots(y) = {} /\ OnceEach(y) /\ y \in Seq(TxnSlot)
      BY <3>2 DEF InSlots, Range, OnceEach
    <3>6. /\ InSlots(s \o u) = InSlots(s) \cup InSlots(u)
          /\ OnceEach(s \o u) <=> /\ OnceEach(s) /\ OnceEach(u)
                                  /\ InSlots(s) \cap InSlots(u) = {}
      BY <1>3, <3>2, ConcatSlots
    <3> QED BY <1>1, <1>2, <3>2, <3>4, <3>5, <3>6
  <2> QED BY <1>3, <2>1, <2>2
<1>5. r \in Seq(TxnSlot) /\ InSlots(r) = InSlots(y) /\ OnceEach(r)
  BY <1>2, <1>4, ReversedSlots
<1>6. PICK H \in SUBSET Txn : H = InSlots(s)
  BY <1>3, NotATxn
<1>7. PICK c, d : c = Rearranged(b, v) /\ d = FoldLeft(Emptied, c, r)
  OBVIOUS
<1>8. Holds(c, H) /\ c.txn = v
  BY <1>1, <1>2, <1>3, <1>6, <1>7, RearrangedHolds
<1>9. Holds(d, H \ InSlots(r)) /\ d.txn = v
  BY <1>4, <1>5, <1>6, <1>7, <1>8, EmptyingHolds DEF SameSlots
<1>10. Reslotted(b, n) = c
  BY <1>2, <1>3, <1>7 DEF Reslotted, Rearranged
<1>11. WithSize(b, n) = d
  BY <1>2, <1>7, <1>10 DEF WithSize
<1> QED BY <1>2, <1>4, <1>5, <1>6, <1>9, <1>11 DEF BlockSound

-----------------------------------------------------------------------------
(* rebuildUtxos() goes from one slot to the next. *)
LEMMA FoldAdded ==
    ASSUME NEW w \in Blocks, NEW s \in Seq(TxnSlot)
    PROVE  \E f \in [0 .. Len(s) -> Blocks] :
              /\ f[0] = w
              /\ \A i \in 1 .. Len(s) : f[i] = (IF s[i] = NoTxn THEN f[i - 1] ELSE Added(f[i - 1], s[i]))
              /\ f[Len(s)] = FoldLeft(LAMBDA c, t : IF t = NoTxn THEN c ELSE Added(c, t), w, s)
<1> DEFINE N == Len(s)
           G == [i \in 1 .. N |-> [v \in Blocks |-> IF s[i] = NoTxn THEN v ELSE Added(v, s[i])]]
           Val(c, S) == IF S = {} THEN w
                        ELSE IF s[Max(S)] = NoTxn THEN c[S \ {Max(S)}] ELSE Added(c[S \ {Max(S)}], s[Max(S)])
           D == SUBSET (1 .. N)
           c == CHOOSE c : c = [S \in D |-> Val(c, S)]
<1>1. N \in Nat /\ DOMAIN s = 1 .. N
  OBVIOUS
<1>2. w \in Blocks
  OBVIOUS
<1>3. \A i \in 1 .. N : \A v \in Blocks : (IF s[i] = NoTxn THEN v ELSE Added(v, s[i])) \in Blocks
  BY StillABlock
<1>4. G \in [1 .. N -> [Blocks -> Blocks]]
  BY <1>3
<1>5. PICK it \in [D -> Blocks] : Unfolds(it, N, w, G)
  <2> HIDE DEF G, N
  <2> QED BY <1>1, <1>2, <1>4, Unfolding
<1>6. ASSUME NEW S \in D PROVE it[S] = Val(it, S)
  <2>1. CASE S = {}
    BY <1>5, <2>1 DEF Unfolds
  <2>2. CASE S # {}
    <3>1. Max(S) \in 1 .. N /\ S \ {Max(S)} \in D
      BY <1>5, <2>2 DEF Unfolds
    <3>2. it[S \ {Max(S)}] \in Blocks /\ it[S] = G[Max(S)][it[S \ {Max(S)}]]
      BY <1>5, <2>2, <3>1 DEF Unfolds
    <3> QED BY <3>1, <3>2, <2>2
  <2> QED BY <2>1, <2>2
<1>7. it = [S \in D |-> Val(it, S)]
  <2> HIDE DEF Val, D
  <2> QED BY <1>5, <1>6
<1>8. c = [S \in D |-> Val(c, S)]
  <2> HIDE DEF Val, D
  <2> QED BY <1>7
<1>9. FoldLeft(LAMBDA v, t : IF t = NoTxn THEN v ELSE Added(v, t), w, s) = c[1 .. N]
  BY <1>1 DEF FoldLeft, MapThenFoldSet
<1> HIDE DEF c
<1> DEFINE f == [i \in 0 .. N |-> c[1 .. i]]
<1>10. f[0] = w
  <2>1. 1 .. 0 \in D /\ 1 .. 0 = {} /\ 0 \in 0 .. N
    BY <1>1
  <2> QED BY <2>1, <1>8
<1>11. ASSUME NEW i \in 1 .. N PROVE f[i] = (IF s[i] = NoTxn THEN f[i - 1] ELSE Added(f[i - 1], s[i]))
  <2>1. /\ 1 .. i \in D /\ i - 1 \in 0 .. N /\ i \in Nat \ {0}
        /\ i \in 0 .. N
    BY <1>1
  <2>2. c[1 .. i] = Val(c, 1 .. i)
    <3> HIDE DEF Val, D
    <3> QED BY <2>1, <1>8
  <2>3. c[1 .. i] = IF s[i] = NoTxn THEN c[1 .. (i - 1)] ELSE Added(c[1 .. (i - 1)], s[i])
    BY <2>1, <2>2, IterationStep
  <2> QED BY <2>1, <2>3
<1>12. \A i \in 1 .. N : f[i - 1] \in Blocks => f[i] \in Blocks
  <2> HIDE DEF f, N
  <2> QED BY <1>3, <1>11
<1>13. f \in [0 .. N -> Blocks]
  <2> HIDE DEF N
  <2>1. \A i \in 0 .. N : f[i] \in Blocks
    <3> HIDE DEF f
    <3> QED BY <1>1, <1>2, <1>10, <1>12, StaysIn
  <2> QED BY <2>1
<1>14. f[N] = c[1 .. N]
  BY <1>1
<1> HIDE DEF f, N
<1>15. f[N] = FoldLeft(LAMBDA v, t : IF t = NoTxn THEN v ELSE Added(v, t), w, s)
  BY <1>9, <1>14, Zenon
<1> QED BY <1>10, <1>11, <1>13, <1>15 DEF N

(* rebuildUtxos(): whatever the index was, it is right again.              *)
LEMMA RebuiltIsSound ==
    ASSUME NEW b \in Blocks, OnceEach(b.txn),
           b.bytes = 80 + CompactSize(Len(b.txn)) + Total(InSlots(b.txn))
    PROVE  /\ BlockSound(Rebuilt(b)) /\ Rebuilt(b).txn = b.txn
           /\ Rebuilt(b).bytes = b.bytes
<1>1. PICK w, s, d : /\ w = [b EXCEPT !.utxos = b.prev, !.followed = TRUE]
                     /\ s = b.txn /\ d = Rebuilt(b)
  OBVIOUS
<1>2. /\ w \in Blocks /\ w.txn = b.txn /\ w.prev = b.prev /\ w.bytes = b.bytes
      /\ w.utxos = w.prev /\ w.followed
      /\ s \in Seq(TxnSlot) /\ Len(s) \in Nat
  <2>1. s \in Seq(TxnSlot) /\ Len(s) \in Nat
    BY <1>1 DEF Blocks
  <2>2. w.utxos = b.prev /\ w.followed = TRUE /\ w.prev = b.prev
    BY <1>1 DEF Blocks
  <2>3. w \in Blocks /\ w.txn = b.txn /\ w.bytes = b.bytes
    BY <1>1 DEF Blocks
  <2> QED BY <2>1, <2>2, <2>3
<1>3. PICK f \in [0 .. Len(s) -> Blocks] :
              /\ f[0] = w
              /\ \A i \in 1 .. Len(s) :
                    f[i] = (IF s[i] = NoTxn THEN f[i - 1] ELSE Added(f[i - 1], s[i]))
              /\ f[Len(s)] =
                   FoldLeft(LAMBDA c, t : IF t = NoTxn THEN c ELSE Added(c, t), w, s)
  BY <1>2, FoldAdded
<1>4. f[Len(s)] = d
  BY <1>1, <1>3 DEF Rebuilt
<1> DEFINE held(i) == {s[j] : j \in 1 .. i} \ {NoTxn}
           T == {i \in Nat : /\ Indexes(f[i], held(i))
                             /\ f[i].txn = b.txn /\ f[i].bytes = b.bytes}
<1>5. 0 \in T
  <2>1. held(0) = {} /\ PaidBy({}) = {} /\ SpentBy({}) = {}
    BY DEF PaidBy, SpentBy
  <2>2. Indexes(w, {})
    BY <1>2, <2>1 DEF Indexes
  <2> QED BY <1>2, <1>3, <2>1, <2>2
<1>6. ASSUME NEW i \in Nat, i < Len(s), i \in T PROVE i + 1 \in T
  <2>1. PICK t : t = s[i + 1]
    OBVIOUS
  <2>2. i + 1 \in 1 .. Len(s) /\ (i + 1) - 1 = i /\ t \in TxnSlot /\ f[i] \in Blocks
    <3>1. i + 1 \in 1 .. Len(s) /\ (i + 1) - 1 = i /\ i \in 0 .. Len(s)
      BY <1>2, <1>6
    <3>2. t \in TxnSlot
      BY <1>2, <2>1, <3>1
    <3>3. f[i] \in Blocks
      BY <3>1
    <3> QED BY <3>1, <3>2, <3>3
  <2>3. f[i + 1] = (IF t = NoTxn THEN f[i] ELSE Added(f[i], t))
    BY <1>3, <2>1, <2>2
  <2>4. held(i + 1) = held(i) \cup ({t} \ {NoTxn})
    BY <2>1
  <2>5. CASE t = NoTxn
    <3>1. f[i + 1] = f[i] /\ held(i + 1) = held(i)
      BY <2>3, <2>4, <2>5
    <3>2. Indexes(f[i], held(i)) /\ f[i].txn = b.txn /\ f[i].bytes = b.bytes
      BY <1>6
    <3> HIDE DEF held
    <3>3. Indexes(f[i + 1], held(i + 1)) /\ f[i + 1].txn = b.txn
          /\ f[i + 1].bytes = b.bytes /\ i + 1 \in Nat
      BY <3>1, <3>2
    <3> QED BY <3>3
  <2>6. CASE t # NoTxn
    <3>1. t \in Txn /\ f[i + 1] = Added(f[i], t) /\ held(i + 1) = held(i) \cup {t}
      BY <2>2, <2>3, <2>4, <2>6 DEF TxnSlot
    <3>2. t \notin held(i)
      <4>1. \A j \in 1 .. i : j \in 1 .. Len(s) /\ j # i + 1
        BY <1>2, <1>6
      <4> QED BY <1>1, <2>1, <2>2, <2>6, <4>1 DEF OnceEach
    <3>3. held(i) \in SUBSET Txn
      <4>1. \A j \in 1 .. i : s[j] \in TxnSlot
        BY <1>2, <1>6
      <4> QED BY <4>1 DEF TxnSlot
    <3>4. Indexes(f[i + 1], held(i + 1))
      <4>1. PICK H \in SUBSET Txn : H = held(i)
        BY <3>3
      <4>2. Indexes(f[i], H) /\ t \notin H
        BY <1>6, <3>2, <4>1
      <4>3. Indexes(Added(f[i], t), H \cup {t})
        BY <2>2, <3>1, <4>2, AddedIndexes
      <4> QED BY <3>1, <4>1, <4>3
    <3>5. Added(f[i], t).txn = f[i].txn /\ Added(f[i], t).bytes = f[i].bytes
      BY <2>2 DEF Blocks, Added
    <3> QED BY <1>6, <3>1, <3>4, <3>5
  <2> QED BY <2>5, <2>6
<1>7. Len(s) \in T
  <2> HIDE DEF T
  <2>1. PICK n \in Nat : n = Len(s)
    BY <1>2
  <2>2. \A i \in Nat : i < n /\ i \in T => i + 1 \in T
    BY <1>6, <2>1
  <2>3. \A i \in 0 .. n : i \in T
    BY <1>5, <2>2, InductionUpTo
  <2> QED BY <2>1, <2>3
<1>8. held(Len(s)) = InSlots(s)
  <2>1. DOMAIN s = 1 .. Len(s)
    BY <1>2
  <2> QED BY <2>1 DEF InSlots, Range
<1>9. d \in Blocks /\ Indexes(d, InSlots(s)) /\ d.txn = b.txn /\ d.bytes = b.bytes
  <2>1. f[Len(s)] \in Blocks
    BY <1>2
  <2>2. /\ Indexes(f[Len(s)], held(Len(s)))
        /\ f[Len(s)].txn = b.txn /\ f[Len(s)].bytes = b.bytes
    BY <1>7
  <2> HIDE DEF held
  <2> QED BY <1>4, <1>8, <2>1, <2>2
<1>10. Holds(d, InSlots(d.txn)) /\ OnceEach(d.txn)
  BY <1>1, <1>9 DEF Holds
<1> QED BY <1>1, <1>9, <1>10 DEF BlockSound

(* setHeader(), replaceHeader(), removeHeader() *)
LEMMA HeaderIsSound ==
    ASSUME NEW b, BlockSound(b), NEW prev \in SUBSET Txn
    PROVE  /\ BlockSound(WithHeader(b, prev)) /\ WithHeader(b, prev).txn = b.txn
           /\ BlockSound(WithoutHeader(b))
<1>1. ASSUME NEW h \in BOOLEAN, NEW p \in SUBSET Txn
      PROVE  /\ BlockSound(Rebuilt([b EXCEPT !.header = h, !.prev = p]))
             /\ Rebuilt([b EXCEPT !.header = h, !.prev = p]).txn = b.txn
  <2>1. PICK c : c = [b EXCEPT !.header = h, !.prev = p]
    OBVIOUS
  <2>2. b \in Blocks /\ p \subseteq Int
    BY BlockAssumption DEF BlockSound, Holds
  <2>3. c \in Blocks /\ c.txn = b.txn /\ c.bytes = b.bytes
    BY <2>1, <2>2 DEF Blocks
  <2>4. OnceEach(c.txn) /\ c.bytes = 80 + CompactSize(Len(c.txn)) + Total(InSlots(c.txn))
    BY <2>3 DEF BlockSound, Holds
  <2> QED BY <2>1, <2>3, <2>4, RebuiltIsSound
<1> QED BY <1>1 DEF WithHeader, WithoutHeader

-----------------------------------------------------------------------------
(* mineBlock()                                                             *)

(* What the miner has chosen: payments, and the length of the block.       *)
Selections == [txns : Seq(TxnSlot), bytes : Int]
NoChoice == [txns |-> <<>>, bytes |-> NewBlock.bytes + TxnBytes(0)]

(* Payments of P, each once, whose length is known and in bounds. *)
Fits(c, P) ==
    /\ c \in Selections /\ InSlots(c.txns) \subseteq P /\ OnceEach(c.txns)
    /\ \A i \in 1 .. Len(c.txns) : c.txns[i] # NoTxn
    /\ c.bytes = 80 + CompactSize(Len(c.txns) + 1) + TxnBytes(0)
                   + Total(InSlots(c.txns))
    /\ c.bytes <= MaxBlockSize

(* What an empty array holds. *)
LEMMA NoSlots ==
    /\ <<>> \in Seq(TxnSlot) /\ Len(<<>>) = 0 /\ InSlots(<<>>) = {}
    /\ OnceEach(<<>>)
<1>1. <<>> \in Seq(TxnSlot) /\ Len(<<>>) = 0 /\ DOMAIN <<>> = {}
  OBVIOUS
<1>2. InSlots(<<>>) = {}
  BY <1>1 DEF InSlots, Range
<1>3. OnceEach(<<>>)
  BY <1>1 DEF OnceEach
<1> QED BY <1>1, <1>2, <1>3

(* An offer leaves a choice of payments. *)
LEMMA StillAChoice ==
    ASSUME NEW c \in Selections, NEW t \in Txn
    PROVE  Offered(c, t) \in Selections
<1>1. PICK n, more : /\ n = Len(c.txns)
                     /\ more = c.bytes + TxnBytes(t) + CompactSize(n + 2) - CompactSize(n + 1)
  OBVIOUS
<1>2. c.txns \in Seq(TxnSlot) /\ c.bytes \in Int /\ n \in Nat /\ t \in TxnSlot
  BY <1>1 DEF Selections, TxnSlot
<1>3. more \in Int
  <2>1. n + 2 \in Nat /\ n + 1 \in Nat
    BY <1>2
  <2>2. CompactSize(n + 2) \in Nat /\ CompactSize(n + 1) \in Nat /\ TxnBytes(t) \in Nat
    BY <2>1, CompactSizes, TxnBytesIsNat
  <2> QED BY <1>1, <1>2, <2>2
<1>4. Append(c.txns, t) \in Seq(TxnSlot)
  BY <1>2
<1>5. Offered(c, t) = IF more > MaxBlockSize THEN c
                      ELSE [txns |-> Append(c.txns, t), bytes |-> more]
  BY <1>1 DEF Offered
<1> QED BY <1>3, <1>4, <1>5 DEF Selections

(* The empty choice fits, as the miner has room for the coinbase. *)
LEMMA NoChoiceFits == Fits(NoChoice, {}) /\ NoChoice \in Selections
<1>1. NewBlock.bytes = 81 /\ TxnBytes(0) \in Nat
  <2>1. NewBlock.bytes = 81
    BY DEF NewBlock
  <2>2. 0 \in Txn
    BY BlockAssumption
  <2>3. TxnBytes(0) \in Nat
    BY <2>2, TxnBytesIsNat
  <2> QED BY <2>1, <2>3
<1>2. PICK s \in Seq(TxnSlot) : s = <<>>
  BY NoSlots
<1>3. /\ Len(s) = 0 /\ InSlots(s) = {} /\ OnceEach(s)
      /\ \A i \in 1 .. Len(s) : s[i] # NoTxn
  BY <1>2, NoSlots
<1>4. CompactSize(1) = 1 /\ Total({}) = 0
  BY CompactSizes, Totals
<1>5. /\ NoChoice.txns = s /\ NoChoice.bytes = NewBlock.bytes + TxnBytes(0)
      /\ NoChoice.bytes \in Int /\ NoChoice \in Selections
  BY <1>1, <1>2 DEF NoChoice, Selections
<1>6. NoChoice.bytes <= MaxBlockSize
  BY <1>5, MinerAssumption
<1>7. CompactSize(Len(s) + 1) = 1
  BY <1>3, <1>4
<1>8. NoChoice.bytes = 80 + CompactSize(Len(s) + 1) + TxnBytes(0) + Total(InSlots(s))
  BY <1>1, <1>3, <1>4, <1>5, <1>7
<1> QED BY <1>3, <1>5, <1>6, <1>8 DEF Fits

(* A payment that fits is chosen, and no other. *)
LEMMA OfferedFits ==
    ASSUME NEW P \in SUBSET Txn, NEW c, Fits(c, P), NEW t \in Txn, t \notin P
    PROVE  Fits(Offered(c, t), P \cup {t})
<1>1. PICK s, n, more : /\ s = c.txns /\ n = Len(s)
                        /\ more = c.bytes + TxnBytes(t)
                                    + CompactSize(n + 2) - CompactSize(n + 1)
  OBVIOUS
<1>2. /\ c \in Selections /\ s \in Seq(TxnSlot) /\ n \in Nat /\ t \in TxnSlot /\ t # NoTxn
      /\ InSlots(s) \subseteq P /\ t \notin InSlots(s) /\ OnceEach(s)
  BY <1>1, NotATxn DEF Fits, Selections, TxnSlot
<1>3. Offered(c, t) = IF more > MaxBlockSize THEN c
                      ELSE [txns |-> Append(s, t), bytes |-> more]
  BY <1>1 DEF Offered
<1>4. CASE more > MaxBlockSize
  BY <1>3, <1>4 DEF Fits
<1>5. CASE ~(more > MaxBlockSize)
  <2>1. PICK u, d : u = s \o <<t>> /\ d = Offered(c, t)
    OBVIOUS
  <2>2. Append(s, t) = u
    BY <1>2, <2>1
  <2>3. PICK w : w = <<t>>
    OBVIOUS
  <2>4. /\ w \in Seq(TxnSlot) /\ Len(w) = 1 /\ InSlots(w) = {t} /\ OnceEach(w)
    BY <1>2, <2>3, OneSlot
  <2>5. /\ u \in Seq(TxnSlot) /\ Len(u) = n + 1 /\ InSlots(u) = InSlots(s) \cup {t}
        /\ OnceEach(u)
    <3>1. InSlots(s) \cap InSlots(w) = {}
      BY <1>2, <2>4
    <3> QED BY <1>1, <1>2, <2>1, <2>3, <2>4, <3>1, ConcatSlots
  <2>6. \A i \in 1 .. Len(u) : u[i] # NoTxn
    <3>1. ASSUME NEW i \in 1 .. Len(u) PROVE u[i] # NoTxn
      <4>1. CASE i \in 1 .. n
        <5>1. u[i] = s[i]
          BY <1>1, <1>2, <2>1, <4>1
        <5> QED BY <1>1, <4>1, <5>1 DEF Fits
      <4>2. CASE i \notin 1 .. n
        <5>1. i = n + 1
          BY <1>2, <2>5, <4>2
        <5>2. u[n + 1] = t
          BY <1>1, <1>2, <2>1
        <5> QED BY <1>2, <5>1, <5>2
      <4> QED BY <4>1, <4>2
    <3> QED BY <3>1
  <2>7. Total(InSlots(u)) = TxnBytes(t) + Total(InSlots(s))
        /\ Total(InSlots(s)) \in Int /\ TxnBytes(t) \in Int
    <3>1. /\ InSlots(u) \in SUBSET Txn /\ t \in InSlots(u)
          /\ InSlots(u) \ {t} = InSlots(s) /\ InSlots(s) \in SUBSET Txn
      BY <1>2, <2>5
    <3> QED BY <3>1, Totals, TxnBytesIsNat
  <2>8. /\ CompactSize(n + 1) \in Nat /\ CompactSize(n + 2) \in Nat
        /\ (n + 1) + 1 = n + 2 /\ TxnBytes(0) \in Int
    <3>1. n + 2 \in Nat /\ n + 1 \in Nat /\ (n + 1) + 1 = n + 2 /\ 0 \in Txn
      BY <1>2, BlockAssumption
    <3> QED BY <3>1, CompactSizes, TxnBytesIsNat
  <2>9. d = [txns |-> u, bytes |-> more]
    BY <1>3, <1>5, <2>1, <2>2
  <2>10. more = 80 + CompactSize(Len(u) + 1) + TxnBytes(0) + Total(InSlots(u))
    <3>1. c.bytes = 80 + CompactSize(n + 1) + TxnBytes(0) + Total(InSlots(s))
      BY <1>1 DEF Fits
    <3>2. Len(u) + 1 = n + 2
      BY <2>5, <2>8
    <3> QED BY <1>1, <2>7, <2>8, <3>1, <3>2
  <2>11. more \in Int /\ more <= MaxBlockSize
    <3>1. more \in Int
      BY <1>1, <1>2, <2>7, <2>8 DEF Selections
    <3> QED BY <1>5, <3>1, BlockAssumption
  <2>12. d.txns = u /\ d.bytes = more /\ d \in Selections
    BY <2>5, <2>9, <2>11 DEF Selections
  <2>13. InSlots(u) \subseteq P \cup {t}
    BY <1>2, <2>5
  <2> QED BY <2>1, <2>5, <2>6, <2>10, <2>11, <2>12, <2>13 DEF Fits
<1> QED BY <1>4, <1>5

(* The miner goes through the mempool from one payment to the next. *)
LEMMA FoldChosen ==
    ASSUME NEW pool \in Seq(Txn)
    PROVE  \E f \in [0 .. Len(pool) -> Selections] :
              /\ f[0] = NoChoice
              /\ \A i \in 1 .. Len(pool) : f[i] = Offered(f[i - 1], pool[i])
              /\ f[Len(pool)] = Chosen(pool)
<1> DEFINE N == Len(pool)
           G == [i \in 1 .. N |-> [v \in Selections |-> Offered(v, pool[i])]]
           Val(c, S) == IF S = {} THEN NoChoice
                        ELSE Offered(c[S \ {Max(S)}], pool[Max(S)])
           D == SUBSET (1 .. N)
           c == CHOOSE c : c = [S \in D |-> Val(c, S)]
<1>1. N \in Nat /\ DOMAIN pool = 1 .. N
  OBVIOUS
<1>2. NoChoice \in Selections
  BY NoChoiceFits
<1>3. \A i \in 1 .. N : \A v \in Selections : Offered(v, pool[i]) \in Selections
  BY StillAChoice
<1>4. G \in [1 .. N -> [Selections -> Selections]]
  BY <1>3
<1>5. PICK it \in [D -> Selections] : Unfolds(it, N, NoChoice, G)
  <2> HIDE DEF G, N
  <2> QED BY <1>1, <1>2, <1>4, Unfolding
<1>6. ASSUME NEW S \in D PROVE it[S] = Val(it, S)
  <2>1. CASE S = {}
    BY <1>5, <2>1 DEF Unfolds
  <2>2. CASE S # {}
    <3>1. Max(S) \in 1 .. N /\ S \ {Max(S)} \in D
      BY <1>5, <2>2 DEF Unfolds
    <3>2. it[S \ {Max(S)}] \in Selections /\ it[S] = G[Max(S)][it[S \ {Max(S)}]]
      BY <1>5, <2>2, <3>1 DEF Unfolds
    <3> QED BY <3>1, <3>2, <2>2
  <2> QED BY <2>1, <2>2
<1>7. it = [S \in D |-> Val(it, S)]
  <2> HIDE DEF Val, D
  <2> QED BY <1>5, <1>6
<1>8. c = [S \in D |-> Val(c, S)]
  <2> HIDE DEF Val, D
  <2> QED BY <1>7
<1>9. Chosen(pool) = c[1 .. N]
  BY <1>1 DEF Chosen, NoChoice, FoldLeft, MapThenFoldSet
<1> HIDE DEF c
<1> DEFINE f == [i \in 0 .. N |-> c[1 .. i]]
<1>10. f[0] = NoChoice
  <2>1. 1 .. 0 \in D /\ 1 .. 0 = {} /\ 0 \in 0 .. N
    BY <1>1
  <2> QED BY <2>1, <1>8
<1>11. ASSUME NEW i \in 1 .. N PROVE f[i] = Offered(f[i - 1], pool[i])
  <2>1. /\ 1 .. i \in D /\ i - 1 \in 0 .. N /\ i \in Nat \ {0}
        /\ i \in 0 .. N
    BY <1>1
  <2>2. c[1 .. i] = Val(c, 1 .. i)
    <3> HIDE DEF Val, D
    <3> QED BY <2>1, <1>8
  <2>3. c[1 .. i] = Offered(c[1 .. (i - 1)], pool[i])
    BY <2>1, <2>2, IterationStep
  <2> QED BY <2>1, <2>3
<1>12. \A i \in 1 .. N : f[i - 1] \in Selections => f[i] \in Selections
  <2> HIDE DEF f, N
  <2> QED BY <1>3, <1>11
<1>13. f \in [0 .. N -> Selections]
  <2> HIDE DEF N
  <2>1. \A i \in 0 .. N : f[i] \in Selections
    <3> HIDE DEF f
    <3> QED BY <1>1, <1>2, <1>10, <1>12, StaysIn
  <2> QED BY <2>1
<1>14. f[N] = c[1 .. N]
  BY <1>1
<1> HIDE DEF f, N
<1>15. f[N] = Chosen(pool)
  BY <1>9, <1>14, Zenon
<1> QED BY <1>10, <1>11, <1>13, <1>15 DEF N

(* What the miner chooses fits, and no payment is chosen twice. *)
LEMMA ChosenFits ==
    ASSUME NEW pool \in SetToAllKPermutations(Txn \ {0})
    PROVE  Fits(Chosen(pool), Txn \ {0})
<1>1. /\ pool \in Seq(Txn) /\ Len(pool) \in Nat
      /\ \A i \in 1 .. Len(pool) : pool[i] \in Txn \ {0}
      /\ \A i, j \in 1 .. Len(pool) : i # j => pool[i] # pool[j]
  <2>1. PICK S \in SUBSET (Txn \ {0}) : pool \in SetToSeqs(S)
    BY DEF SetToAllKPermutations
  <2>2. PICK n : n = Cardinality(S)
    OBVIOUS
  <2>3. n \in Nat
    <3>1. S \subseteq Txn
      BY <2>1
    <3> QED BY <2>2, <3>1, BlockAssumption, FS_Subset, FS_CardinalityType
  <2>4. pool \in [1 .. n -> S] /\ \A i, j \in 1 .. n : i # j => pool[i] # pool[j]
    BY <2>1, <2>2 DEF SetToSeqs
  <2>5. pool \in Seq(S) /\ Len(pool) = n
    BY <2>3, <2>4, FunctionIsSeq
  <2>6. S \in SUBSET Txn
    BY <2>1
  <2>7. pool \in Seq(Txn)
    BY <2>5, <2>6, SeqOfMore
  <2>8. \A i \in 1 .. n : pool[i] \in Txn \ {0}
    BY <2>1, <2>4
  <2> QED BY <2>3, <2>4, <2>5, <2>7, <2>8
<1>2. PICK f \in [0 .. Len(pool) -> Selections] :
              /\ f[0] = NoChoice
              /\ \A i \in 1 .. Len(pool) : f[i] = Offered(f[i - 1], pool[i])
              /\ f[Len(pool)] = Chosen(pool)
  BY <1>1, FoldChosen
<1> DEFINE P(i) == {pool[j] : j \in 1 .. i}
           T == {i \in Nat : Fits(f[i], P(i))}
<1>3. 0 \in T
  <2>1. P(0) = {}
    OBVIOUS
  <2> QED BY <1>2, <2>1, NoChoiceFits
<1>4. ASSUME NEW i \in Nat, i < Len(pool), i \in T PROVE i + 1 \in T
  <2>1. i + 1 \in 1 .. Len(pool) /\ (i + 1) - 1 = i
    BY <1>1, <1>4
  <2>2. PICK t \in Txn : t = pool[i + 1]
    BY <1>1, <2>1
  <2>3. f[i + 1] = Offered(f[i], t)
    BY <1>2, <2>1, <2>2
  <2>4. \A j \in 1 .. i : j \in 1 .. Len(pool) /\ j # i + 1
    BY <1>1, <1>4
  <2>5. PICK Q \in SUBSET Txn : Q = P(i)
    BY <1>1, <2>4
  <2>6. t \notin Q
    BY <1>1, <2>1, <2>2, <2>4, <2>5
  <2>7. P(i + 1) = Q \cup {t}
    BY <2>2, <2>5
  <2>8. Fits(f[i], Q)
    BY <1>4, <2>5
  <2>9. Fits(f[i + 1], Q \cup {t})
    BY <2>3, <2>6, <2>8, OfferedFits
  <2> QED BY <2>7, <2>9
<1>5. Len(pool) \in T
  <2> HIDE DEF T
  <2>1. PICK n \in Nat : n = Len(pool)
    BY <1>1
  <2>2. \A i \in Nat : i < n /\ i \in T => i + 1 \in T
    BY <1>4, <2>1
  <2>3. \A i \in 0 .. n : i \in T
    BY <1>3, <2>2, InductionUpTo
  <2> QED BY <2>1, <2>3
<1>6. Fits(Chosen(pool), P(Len(pool)))
  BY <1>2, <1>5
<1>7. P(Len(pool)) \subseteq Txn \ {0}
  BY <1>1
<1> HIDE DEF P
<1> QED BY <1>6, <1>7 DEF Fits

-----------------------------------------------------------------------------
(* A new block holds nothing. *)
LEMMA NewBlockIsSound == BlockSound(NewBlock) /\ NewBlock.txn = <<>>
<1>0. PICK b : b = NewBlock
  OBVIOUS
<1>1. PICK s, e : s = <<>> /\ e = {} /\ s \in Seq(TxnSlot)
  BY NoSlots
<1>2. Len(s) = 0 /\ InSlots(s) = e /\ OnceEach(s)
  BY <1>1, NoSlots
<1>3. /\ b.txn = s /\ b.bytes = 81 /\ b.prev = e /\ b.utxos = e /\ b \in Blocks
  BY <1>0, <1>1 DEF NewBlock, Blocks
<1>4. CompactSize(0) = 1 /\ Total(e) = 0 /\ PaidBy(e) = e /\ SpentBy(e) = e
  BY <1>1, CompactSizes, Totals DEF PaidBy, SpentBy
<1>5. Indexes(b, e)
  BY <1>1, <1>3, <1>4 DEF Indexes
<1>6. b.bytes = 80 + CompactSize(Len(b.txn)) + Total(InSlots(b.txn))
  BY <1>2, <1>3, <1>4
<1> QED BY <1>0, <1>1, <1>2, <1>3, <1>5, <1>6 DEF BlockSound, Holds

(* A block with n slots. *)
Sized(n) == {b \in Blocks : Len(b.txn) = n}

(* Filling a slot keeps the number of slots. *)
LEMMA StillSized ==
    ASSUME NEW n \in Nat, NEW b \in Sized(n), NEW k \in 1 .. n, NEW t \in TxnSlot
    PROVE  WithTxn(b, k, t) \in Sized(n)
<1>1. b \in Blocks /\ b.txn \in Seq(TxnSlot) /\ Len(b.txn) = n /\ b.txn[k] \in TxnSlot
  BY DEF Sized, Blocks
<1>2. PICK u \in TxnSlot : u = b.txn[k]
  BY <1>1
<1>3. PICK c, d, e : /\ c = Emptied(b, u) /\ d = [c EXCEPT !.txn[k] = t]
                     /\ e = Filled(d, t)
  OBVIOUS
<1>4. c \in Blocks
  BY <1>1, <1>2, <1>3, StillABlock
<1>5. c.txn = b.txn
  BY <1>1, <1>3 DEF Emptied, Removed, Blocks
<1>6. [c.txn EXCEPT ![k] = t] \in Seq(TxnSlot) /\ Len([c.txn EXCEPT ![k] = t]) = n
  BY <1>1, <1>5
<1>7. PICK v \in Seq(TxnSlot) : v = [c.txn EXCEPT ![k] = t] /\ Len(v) = n
  BY <1>6
<1>8. d = [c EXCEPT !.txn = v]
  BY <1>3, <1>7
<1>9. d \in Blocks /\ d.txn = v
  BY <1>4, <1>8 DEF Blocks
<1>10. e \in Blocks /\ e.txn = v
  <2>1. CASE t = NoTxn
    BY <1>3, <1>9, <2>1 DEF Filled
  <2>2. CASE t # NoTxn
    <3>1. PICK a : a = Added(d, t)
      OBVIOUS
    <3>2. a \in Blocks
      BY <1>9, <2>2, <3>1, StillABlock
    <3>3. a.txn = v
      BY <1>9, <3>1 DEF Added, Blocks
    <3>4. e = [a EXCEPT !.bytes = @ + TxnBytes(t)] /\ TxnBytes(t) \in Int
      BY <1>3, <2>2, <3>1, TxnBytesIsNat DEF Filled, TxnSlot
    <3> QED BY <3>2, <3>3, <3>4 DEF Blocks
  <2> QED BY <2>1, <2>2
<1>11. WithTxn(b, k, t) = e
  BY <1>2, <1>3 DEF WithTxn
<1> QED BY <1>7, <1>10, <1>11 DEF Sized

(* The slots of the block are filled from one to the next. *)
LEMMA FoldAssembled ==
    ASSUME NEW s \in Seq(TxnSlot), NEW w \in Sized(Len(s))
    PROVE  \E f \in [0 .. Len(s) -> Sized(Len(s))] :
              /\ f[0] = w
              /\ \A i \in 1 .. Len(s) : f[i] = WithTxn(f[i - 1], i, s[i])
              /\ f[Len(s)] = WithTxns(w, s)
<1> DEFINE k == [i \in DOMAIN s |-> i]
           N == Len(s)
           G == [i \in 1 .. N |-> [v \in Sized(Len(s)) |-> WithTxn(v, k[i], s[k[i]])]]
           Val(c, S) == IF S = {} THEN w
                        ELSE WithTxn(c[S \ {Max(S)}], k[Max(S)], s[k[Max(S)]])
           D == SUBSET (1 .. N)
           c == CHOOSE c : c = [S \in D |-> Val(c, S)]
<1>1. N \in Nat /\ DOMAIN k = 1 .. N /\ \A i \in 1 .. N : k[i] = i
  OBVIOUS
<1>2. w \in Sized(Len(s))
  OBVIOUS
<1>3. \A i \in 1 .. N : \A v \in Sized(Len(s)) : WithTxn(v, k[i], s[k[i]]) \in Sized(Len(s))
  BY StillSized
<1>4. G \in [1 .. N -> [Sized(Len(s)) -> Sized(Len(s))]]
  BY <1>3
<1>5. PICK it \in [D -> Sized(Len(s))] : Unfolds(it, N, w, G)
  <2> HIDE DEF G, N
  <2> QED BY <1>1, <1>2, <1>4, Unfolding
<1>6. ASSUME NEW S \in D PROVE it[S] = Val(it, S)
  <2>1. CASE S = {}
    BY <1>5, <2>1 DEF Unfolds
  <2>2. CASE S # {}
    <3>1. Max(S) \in 1 .. N /\ S \ {Max(S)} \in D
      BY <1>5, <2>2 DEF Unfolds
    <3>2. it[S \ {Max(S)}] \in Sized(Len(s)) /\ it[S] = G[Max(S)][it[S \ {Max(S)}]]
      BY <1>5, <2>2, <3>1 DEF Unfolds
    <3> QED BY <3>1, <3>2, <2>2
  <2> QED BY <2>1, <2>2
<1>7. it = [S \in D |-> Val(it, S)]
  <2> HIDE DEF Val, D
  <2> QED BY <1>5, <1>6
<1>8. c = [S \in D |-> Val(c, S)]
  <2> HIDE DEF Val, D
  <2> QED BY <1>7
<1>9. WithTxns(w, s) = c[1 .. N]
  BY <1>1 DEF WithTxns, FoldLeft, FoldLeftDomain, MapThenFoldSet
<1> HIDE DEF c, k
<1> DEFINE f == [i \in 0 .. N |-> c[1 .. i]]
<1>10. f[0] = w
  <2>1. 1 .. 0 \in D /\ 1 .. 0 = {} /\ 0 \in 0 .. N
    BY <1>1
  <2> QED BY <2>1, <1>8
<1>11. ASSUME NEW i \in 1 .. N PROVE f[i] = WithTxn(f[i - 1], k[i], s[k[i]])
  <2>1. /\ 1 .. i \in D /\ i - 1 \in 0 .. N /\ i \in Nat \ {0}
        /\ i \in 0 .. N
    BY <1>1
  <2>2. c[1 .. i] = Val(c, 1 .. i)
    <3> HIDE DEF Val, D
    <3> QED BY <2>1, <1>8
  <2>3. c[1 .. i] = WithTxn(c[1 .. (i - 1)], k[i], s[k[i]])
    BY <2>1, <2>2, IterationStep
  <2> QED BY <2>1, <2>3
<1>12. \A i \in 1 .. N : f[i - 1] \in Sized(Len(s)) => f[i] \in Sized(Len(s))
  <2> HIDE DEF f, N
  <2> QED BY <1>3, <1>11
<1>13. f \in [0 .. N -> Sized(Len(s))]
  <2> HIDE DEF N
  <2>1. \A i \in 0 .. N : f[i] \in Sized(Len(s))
    <3> HIDE DEF f
    <3> QED BY <1>1, <1>2, <1>10, <1>12, StaysIn
  <2> QED BY <2>1
<1>14. f[N] = c[1 .. N]
  BY <1>1
<1> HIDE DEF f, N
<1>15. f[N] = WithTxns(w, s)
  BY <1>9, <1>14, Zenon
<1>16. \A i \in 1 .. N : f[i] = WithTxn(f[i - 1], i, s[i])
  BY <1>1, <1>11
<1> QED BY <1>10, <1>13, <1>15, <1>16 DEF N

(* mineBlock() builds a block that is sound and in bounds. *)
LEMMA AssembledIsSound ==
    ASSUME NEW prev \in SUBSET Txn, NEW pool \in SetToAllKPermutations(Txn \ {0})
    PROVE  /\ BlockSound(Assembled(prev, pool))
           /\ Assembled(prev, pool).bytes <= MaxBlockSize
<1>1. PICK c : c = Chosen(pool)
  OBVIOUS
<1>2. Fits(c, Txn \ {0}) /\ c.txns \in Seq(TxnSlot)
  BY <1>1, ChosenFits DEF Fits, Selections
<1>3. PICK z : z = <<0>>
  OBVIOUS
<1>4. 0 \in TxnSlot /\ 0 \in Txn /\ 0 # NoTxn
  BY BlockAssumption, NotATxn DEF TxnSlot
<1>5. /\ z \in Seq(TxnSlot) /\ Len(z) = 1 /\ InSlots(z) = {0} /\ OnceEach(z)
  BY <1>3, <1>4, OneSlot
<1>6. PICK q, s : q = c.txns /\ s = z \o q
  OBVIOUS
<1>7. PICK n : n = Len(s)
  OBVIOUS
<1>8. /\ s \in Seq(TxnSlot) /\ n = 1 + Len(c.txns) /\ n \in Nat /\ OnceEach(s)
      /\ InSlots(s) = {0} \cup InSlots(c.txns) /\ 0 \notin InSlots(c.txns)
  <2>1. 0 \notin InSlots(c.txns)
    BY <1>2 DEF Fits
  <2>2. InSlots(z) \cap InSlots(c.txns) = {} /\ OnceEach(c.txns)
    BY <1>2, <1>5, <2>1 DEF Fits
  <2>3. /\ s \in Seq(TxnSlot) /\ Len(s) = Len(z) + Len(c.txns)
        /\ InSlots(s) = InSlots(z) \cup InSlots(c.txns) /\ OnceEach(s)
    BY <1>2, <1>5, <1>6, <2>2, ConcatSlots
  <2>4. Len(c.txns) \in Nat
    BY <1>2
  <2> QED BY <1>5, <1>7, <2>1, <2>3, <2>4
<1>9. s \in Seq(TxnSlot) /\ DOMAIN s = 1 .. n
  <2>1. s \in Seq(TxnSlot)
    BY <1>8
  <2> QED BY <1>7, <2>1
<1>10. \A i \in 1 .. n : s[i] \in TxnSlot /\ s[i] # NoTxn
  <2>1. /\ q \in Seq(TxnSlot) /\ Len(q) \in Nat /\ n = 1 + Len(q)
        /\ \A i \in 1 .. Len(q) : q[i] # NoTxn
    BY <1>2, <1>6, <1>8 DEF Fits
  <2>2. z \in Seq(TxnSlot) /\ Len(z) = 1 /\ z[1] = 0
    BY <1>3, <1>5
  <2>3. \A i \in 1 .. n : s[i] = IF i <= 1 THEN z[i] ELSE q[i - 1]
    <3>1. /\ z \in Seq(TxnSlot) /\ q \in Seq(TxnSlot)
      BY <2>1, <2>2
    <3>2. \A i \in 1 .. Len(z) + Len(q) :
             (z \o q)[i] = IF i <= Len(z) THEN z[i] ELSE q[i - Len(z)]
      BY <3>1, ConcatProperties
    <3> QED BY <1>6, <2>1, <2>2, <3>2
  <2>4. ASSUME NEW i \in 1 .. n PROVE s[i] # NoTxn
    <3>1. CASE i <= 1
      BY <1>4, <2>1, <2>2, <2>3, <3>1
    <3>2. CASE ~(i <= 1)
      <4>1. i - 1 \in 1 .. Len(q)
        BY <2>1, <3>2
      <4> QED BY <2>1, <2>3, <3>2, <4>1
    <3> QED BY <3>1, <3>2
  <2>5. \A i \in 1 .. n : s[i] \in TxnSlot
    <3>1. \A i \in DOMAIN s : s[i] \in TxnSlot
      <4>1. s \in Seq(TxnSlot)
        BY <1>9
      <4> QED BY <4>1
    <3> QED BY <1>9, <3>1
  <2> QED BY <2>4, <2>5
<1>11. PICK b, w : b = WithHeader(NewBlock, prev) /\ w = WithSize(b, n)
  OBVIOUS
<1>12. BlockSound(NewBlock) /\ NewBlock.txn = <<>>
  BY NewBlockIsSound
<1>13. BlockSound(b) /\ b.txn = <<>>
  BY <1>11, <1>12, HeaderIsSound
<1>14. BlockSound(w) /\ w.txn = Resize(<<>>, n, NoTxn)
  BY <1>8, <1>11, <1>13, WithSizeIsSound
<1>15. /\ Len(w.txn) = n /\ w \in Sized(n)
       /\ \A i \in 1 .. n : w.txn[i] = NoTxn
  <2>1. PICK e \in Seq(TxnSlot) : e = <<>> /\ Len(e) = 0
    <3>1. <<>> \in Seq(TxnSlot) /\ Len(<<>>) = 0
      OBVIOUS
    <3> QED BY <3>1
  <2>2. NoTxn \in TxnSlot /\ n \in Nat
    BY <1>8, NotATxn
  <2>3. /\ Len(Resize(e, n, NoTxn)) = n
        /\ \A i \in 1 .. n : Resize(e, n, NoTxn)[i] = IF i <= Len(e) THEN e[i] ELSE NoTxn
    <3>1. PICK o \in TxnSlot : o = NoTxn
      BY <2>2
    <3>2. n \in Nat /\ e \in Seq(TxnSlot)
      BY <2>2
    <3>3. /\ Resize(e, n, o) \in Seq(TxnSlot) /\ Len(Resize(e, n, o)) = n
          /\ \A i \in 1 .. n : Resize(e, n, o)[i] = IF i <= Len(e) THEN e[i] ELSE o
      BY <3>2, Resizing
    <3> QED BY <3>1, <3>3
  <2>4. \A i \in 1 .. n : ~(i <= Len(e))
    BY <2>1
  <2>5. w \in Blocks
    BY <1>14 DEF BlockSound, Holds
  <2> QED BY <1>14, <2>1, <2>3, <2>4, <2>5 DEF Sized
<1>16. PICK f \in [0 .. n -> Sized(n)] :
              /\ f[0] = w
              /\ \A i \in 1 .. n : f[i] = WithTxn(f[i - 1], i, s[i])
              /\ f[n] = WithTxns(w, s)
  <2>1. w \in Sized(Len(s))
    BY <1>7, <1>15
  <2> QED BY <1>7, <1>9, <2>1, FoldAssembled
<1>17. Assembled(prev, pool) = f[n]
  <2>1. s = <<0>> \o Chosen(pool).txns
    BY <1>1, <1>3, <1>6
  <2>2. w = WithSize(WithHeader(NewBlock, prev), Len(s))
    BY <1>7, <1>11
  <2> QED BY <1>16, <2>1, <2>2 DEF Assembled
<1> DEFINE So(i, j) == IF j <= i THEN s[j] ELSE NoTxn
           T == {i \in Nat : /\ BlockSound(f[i]) /\ Len(f[i].txn) = n
                             /\ \A j \in 1 .. n : f[i].txn[j] = So(i, j)}
<1>18. 0 \in T
  <2>1. \A j \in 1 .. n : So(0, j) = NoTxn
    OBVIOUS
  <2> HIDE DEF So
  <2> QED BY <1>14, <1>15, <1>16, <2>1
<1>19. ASSUME NEW i \in Nat, i < n, i \in T PROVE i + 1 \in T
  <2>1. i + 1 \in 1 .. n /\ (i + 1) - 1 = i
    BY <1>8, <1>19
  <2>2. PICK t, x : t = s[i + 1] /\ x = f[i]
    OBVIOUS
  <2>3. f[i + 1] = WithTxn(x, i + 1, t)
    BY <1>16, <2>1, <2>2
  <2>4. /\ BlockSound(x) /\ Len(x.txn) = n /\ \A j \in 1 .. n : x.txn[j] = So(i, j)
    BY <1>19, <2>2
  <2>5. t \in TxnSlot /\ t # NoTxn
    BY <1>10, <2>1, <2>2
  <2>6. x.txn \in Seq(TxnSlot)
    BY <2>4 DEF BlockSound, Holds, Blocks
  <2>7. t \notin InSlots(x.txn)
    <3>1. ASSUME NEW j \in 1 .. n PROVE x.txn[j] # t
      <4>1. CASE j <= i
        <5>1. x.txn[j] = s[j]
          BY <2>4, <4>1
        <5>2. j # i + 1
          BY <4>1
        <5> QED BY <1>7, <1>8, <2>1, <2>2, <2>5, <5>1, <5>2 DEF OnceEach
      <4>2. CASE ~(j <= i)
        BY <2>4, <2>5, <4>2
      <4> QED BY <4>1, <4>2
    <3>2. DOMAIN x.txn = 1 .. n
      BY <2>4, <2>6
    <3> QED BY <3>1, <3>2 DEF InSlots, Range
  <2>8. BlockSound(f[i + 1]) /\ f[i + 1].txn = [x.txn EXCEPT ![i + 1] = t]
    BY <2>1, <2>3, <2>4, <2>5, <2>7, WithTxnIsSound
  <2>9. Len(f[i + 1].txn) = n
    BY <2>4, <2>6, <2>8
  <2>10. ASSUME NEW j \in 1 .. n PROVE f[i + 1].txn[j] = So(i + 1, j)
    <3>1. CASE j = i + 1
      <4>1. f[i + 1].txn[j] = t
        BY <2>1, <2>4, <2>6, <2>8, <3>1
      <4>2. So(i + 1, j) = t
        BY <2>2, <3>1
      <4> QED BY <4>1, <4>2
    <3>2. CASE j # i + 1
      <4>1. f[i + 1].txn[j] = x.txn[j]
        BY <2>4, <2>6, <2>8, <3>2
      <4>2. So(i + 1, j) = So(i, j)
        BY <3>2
      <4> QED BY <2>4, <4>1, <4>2
    <3> QED BY <3>1, <3>2
  <2> HIDE DEF So
  <2> QED BY <2>8, <2>9, <2>10
<1>20. n \in T
  <2> HIDE DEF T
  <2>1. \A i \in 0 .. n : i \in T
    BY <1>8, <1>18, <1>19, InductionUpTo
  <2> QED BY <1>8, <2>1
<1>21. BlockSound(f[n]) /\ f[n].txn = s
  <2>1. /\ BlockSound(f[n]) /\ Len(f[n].txn) = n
        /\ \A j \in 1 .. n : f[n].txn[j] = So(n, j)
    BY <1>20
  <2>2. \A j \in 1 .. n : So(n, j) = s[j]
    OBVIOUS
  <2> HIDE DEF So
  <2>3. f[n].txn \in Seq(TxnSlot)
    BY <2>1 DEF BlockSound, Holds, Blocks
  <2>4. \A j \in 1 .. n : f[n].txn[j] = s[j]
    BY <2>1, <2>2
  <2> QED BY <1>7, <1>8, <2>1, <2>3, <2>4, SeqEqual
<1>22. f[n].bytes = c.bytes
  <2>1. f[n].bytes = 80 + CompactSize(n) + Total(InSlots(s))
    BY <1>7, <1>21 DEF BlockSound, Holds
  <2>2. c.bytes = 80 + CompactSize(Len(c.txns) + 1) + TxnBytes(0) + Total(InSlots(c.txns))
    BY <1>2 DEF Fits
  <2>3. /\ Total(InSlots(s)) = TxnBytes(0) + Total(InSlots(c.txns))
        /\ TxnBytes(0) \in Int /\ Total(InSlots(c.txns)) \in Int
    <3>1. /\ InSlots(s) \in SUBSET Txn /\ 0 \in InSlots(s)
          /\ InSlots(s) \ {0} = InSlots(c.txns) /\ InSlots(c.txns) \in SUBSET Txn
      BY <1>2, <1>8, NotATxn
    <3> QED BY <1>4, <3>1, Totals, TxnBytesIsNat
  <2>4. Len(c.txns) \in Nat /\ Len(c.txns) + 1 = n /\ CompactSize(n) \in Nat
    <3>1. Len(c.txns) \in Nat /\ Len(c.txns) + 1 = n
      BY <1>2, <1>8
    <3> QED BY <1>8, <3>1, CompactSizes
  <2> QED BY <2>1, <2>2, <2>3, <2>4
<1> QED BY <1>2, <1>17, <1>21, <1>22 DEF Fits

-----------------------------------------------------------------------------
(* A sound block, in bounds when it is a miner's. *)
BlockInv == BlockSound(blk) /\ (mined => blk.bytes <= MaxBlockSize)

(* Every call on a block keeps the invariant. *)
LEMMA BlockStep ==
    ASSUME BlockInv, BlockNext
    PROVE  BlockInv'
<1>1. /\ blk.txn \in Seq(TxnSlot) /\ DOMAIN blk.txn = 1 .. Len(blk.txn)
      /\ Len(blk.txn) \in Nat /\ BlockSound(blk)
  BY DEF BlockInv, BlockSound, Holds, Blocks
<1>2. \A t \in Absent : t \in TxnSlot /\ t \notin InSlots(blk.txn)
  BY DEF Absent, TxnSlot, InSlots
<1>3. \A prev \in PrevUtxos : prev \in SUBSET Txn
  BY BlockAssumption
<1>4. ASSUME NEW prev \in PrevUtxos, NEW pool \in SetToAllKPermutations(Txn \ {0}),
             MineBlock(prev, pool)
      PROVE  BlockInv'
  <2>1. blk' = Assembled(prev, pool)
    BY <1>4 DEF MineBlock
  <2>2. /\ BlockSound(Assembled(prev, pool))
        /\ Assembled(prev, pool).bytes <= MaxBlockSize
    BY <1>3, AssembledIsSound
  <2>3. BlockSound(blk') /\ blk'.bytes <= MaxBlockSize
    BY <2>1, <2>2
  <2> QED BY <2>3 DEF BlockInv, BlockSound, Holds, Indexes
<1>5. SUFFICES ASSUME mined' = FALSE,
                      \/ \E n \in 0 .. MaxTxns : blk' = WithSize(blk, n)
                      \/ \E t \in Absent : \E k \in DOMAIN blk.txn :
                            blk' = WithTxn(blk, k, t)
                      \/ \E t \in Absent : \E k \in 1 .. Len(blk.txn) + 1 :
                            blk' = WithInserted(blk, k, t)
                      \/ \E k \in DOMAIN blk.txn : blk' = WithErased(blk, k)
                      \/ \E prev \in PrevUtxos : blk' = WithHeader(blk, prev)
                      \/ blk' = WithoutHeader(blk)
               PROVE  BlockSound(blk')
  BY <1>4 DEF BlockNext, BlockInv
<1>6. ASSUME NEW n \in 0 .. MaxTxns, blk' = WithSize(blk, n) PROVE BlockSound(blk')
  <2>1. n \in Nat
    BY BlockAssumption
  <2>2. BlockSound(WithSize(blk, n))
    BY <1>1, <2>1, WithSizeIsSound
  <2> QED BY <1>6, <2>2
<1>7. ASSUME NEW t \in Absent, NEW k \in DOMAIN blk.txn, blk' = WithTxn(blk, k, t)
      PROVE  BlockSound(blk')
  <2>1. BlockSound(WithTxn(blk, k, t))
    BY <1>1, <1>2, WithTxnIsSound
  <2> QED BY <1>7, <2>1
<1>8. ASSUME NEW t \in Absent, NEW k \in 1 .. Len(blk.txn) + 1,
             blk' = WithInserted(blk, k, t)
      PROVE  BlockSound(blk')
  <2>1. BlockSound(WithInserted(blk, k, t))
    BY <1>1, <1>2, WithInsertedIsSound
  <2> QED BY <1>8, <2>1
<1>9. ASSUME NEW k \in DOMAIN blk.txn, blk' = WithErased(blk, k) PROVE BlockSound(blk')
  <2>1. BlockSound(WithErased(blk, k))
    BY <1>1, WithErasedIsSound
  <2> QED BY <1>9, <2>1
<1>10. ASSUME NEW prev \in PrevUtxos, blk' = WithHeader(blk, prev) PROVE BlockSound(blk')
  <2>1. BlockSound(WithHeader(blk, prev))
    BY <1>1, <1>3, HeaderIsSound
  <2> QED BY <1>10, <2>1
<1>11. ASSUME blk' = WithoutHeader(blk) PROVE BlockSound(blk')
  <2>1. {} \in SUBSET Txn
    OBVIOUS
  <2>2. BlockSound(WithoutHeader(blk))
    BY <1>1, <2>1, HeaderIsSound
  <2> QED BY <1>11, <2>2
<1> QED BY <1>5, <1>6, <1>7, <1>8, <1>9, <1>10, <1>11

(* The invariant says what the run checks. *)
LEMMA BlockFacts ==
    ASSUME BlockInv
    PROVE  IndexIsUnspent /\ BlockFollows
<1>1. Held(blk) = InSlots(blk.txn)
  BY DEF Held, InSlots
<1>2. Total(Held(blk)) = MapThenSumSet(TxnBytes, Held(blk))
  BY DEF Total
<1> QED BY <1>1, <1>2
        DEF BlockInv, BlockSound, Holds, Indexes, IndexIsUnspent, BlockFollows

-----------------------------------------------------------------------------
(* Amounts.                                                                *)

(* What the operators do to two amounts. *)
LEMMA Combined ==
    ASSUME NEW a, NEW b
    PROVE  /\ Combine(a, "+", b) = (a + b) % Word
           /\ Combine(a, "-", b) = (a - b) % Word
           /\ Combine(a, "*", b) = (a * b) % Word
           /\ Combine(a, "<", b) = (a < b)
           /\ Combine(a, ">", b) = (a > b)
           /\ Combine(a, "==", b) = (a = b)
BY DEF Combine

(* What is wrapped around is an amount, and an amount is not wrapped       *)
(* around.                                                                 *)
LEMMA Wrapping ==
    /\ 0 \in Amounts /\ 1 \in Amounts /\ Word \in Nat \ {0}
    /\ \A n \in Int : n % Word \in Amounts
    /\ \A n \in Amounts : n \in Nat /\ n < Word /\ n % Word = n
<1>1. Word \in Nat \ {0, 1}
  BY WordAssumption
<1>2. \A n \in Int : n % Word \in 0 .. Word - 1
  BY <1>1
<1>3. \A n \in 0 .. Word - 1 : n \in Nat /\ n < Word /\ n % Word = n
  BY <1>1
<1> QED BY <1>1, <1>2, <1>3 DEF Amounts

(* The sum of two amounts is an amount. *)
LEMMA SumOfAmounts == \A a, b \in Amounts : Combine(a, "+", b) \in Amounts
<1>1. ASSUME NEW a \in Amounts, NEW b \in Amounts PROVE Combine(a, "+", b) \in Amounts
  <2>1. a + b \in Int
    BY Wrapping
  <2> QED BY <2>1, Combined, Wrapping
<1> QED BY <1>1

(* The value of an array is added up from one slot to the next. *)
LEMMA FoldValue ==
    ASSUME NEW s \in Seq(Amounts)
    PROVE  \E f \in [0 .. Len(s) -> Amounts] :
              /\ f[0] = 0
              /\ \A i \in 1 .. Len(s) : f[i] = Combine(f[i - 1], "+", s[i])
              /\ f[Len(s)] = ValueOf(s)
<1> DEFINE N == Len(s)
           G == [i \in 1 .. N |-> [v \in Amounts |-> Combine(v, "+", s[i])]]
           Val(c, S) == IF S = {} THEN 0
                        ELSE Combine(c[S \ {Max(S)}], "+", s[Max(S)])
           D == SUBSET (1 .. N)
           c == CHOOSE c : c = [S \in D |-> Val(c, S)]
<1>1. N \in Nat /\ DOMAIN s = 1 .. N
  OBVIOUS
<1>2. 0 \in Amounts
  BY Wrapping
<1>3. \A i \in 1 .. N : \A v \in Amounts : Combine(v, "+", s[i]) \in Amounts
  BY SumOfAmounts
<1>4. G \in [1 .. N -> [Amounts -> Amounts]]
  BY <1>3
<1>5. PICK it \in [D -> Amounts] : Unfolds(it, N, 0, G)
  <2> HIDE DEF G, N
  <2> QED BY <1>1, <1>2, <1>4, Unfolding
<1>6. ASSUME NEW S \in D PROVE it[S] = Val(it, S)
  <2>1. CASE S = {}
    BY <1>5, <2>1 DEF Unfolds
  <2>2. CASE S # {}
    <3>1. Max(S) \in 1 .. N /\ S \ {Max(S)} \in D
      BY <1>5, <2>2 DEF Unfolds
    <3>2. it[S \ {Max(S)}] \in Amounts /\ it[S] = G[Max(S)][it[S \ {Max(S)}]]
      BY <1>5, <2>2, <3>1 DEF Unfolds
    <3> QED BY <3>1, <3>2, <2>2
  <2> QED BY <2>1, <2>2
<1>7. it = [S \in D |-> Val(it, S)]
  <2> HIDE DEF Val, D
  <2> QED BY <1>5, <1>6
<1>8. c = [S \in D |-> Val(c, S)]
  <2> HIDE DEF Val, D
  <2> QED BY <1>7
<1>9. ValueOf(s) = c[1 .. N]
  BY <1>1 DEF ValueOf, FoldLeft, MapThenFoldSet
<1> HIDE DEF c
<1> DEFINE f == [i \in 0 .. N |-> c[1 .. i]]
<1>10. f[0] = 0
  <2>1. 1 .. 0 \in D /\ 1 .. 0 = {} /\ 0 \in 0 .. N
    BY <1>1
  <2> QED BY <2>1, <1>8
<1>11. ASSUME NEW i \in 1 .. N PROVE f[i] = Combine(f[i - 1], "+", s[i])
  <2>1. /\ 1 .. i \in D /\ i - 1 \in 0 .. N /\ i \in Nat \ {0}
        /\ i \in 0 .. N
    BY <1>1
  <2>2. c[1 .. i] = Val(c, 1 .. i)
    <3> HIDE DEF Val, D
    <3> QED BY <2>1, <1>8
  <2>3. c[1 .. i] = Combine(c[1 .. (i - 1)], "+", s[i])
    BY <2>1, <2>2, IterationStep
  <2> QED BY <2>1, <2>3
<1>12. \A i \in 1 .. N : f[i - 1] \in Amounts => f[i] \in Amounts
  <2> HIDE DEF f, N
  <2> QED BY <1>3, <1>11
<1>13. f \in [0 .. N -> Amounts]
  <2> HIDE DEF N
  <2>1. \A i \in 0 .. N : f[i] \in Amounts
    <3> HIDE DEF f
    <3> QED BY <1>1, <1>2, <1>10, <1>12, StaysIn
  <2> QED BY <2>1
<1>14. f[N] = c[1 .. N]
  BY <1>1
<1> HIDE DEF f, N
<1>15. f[N] = ValueOf(s)
  BY <1>9, <1>14, Zenon
<1> QED BY <1>10, <1>11, <1>13, <1>15 DEF N

(* One slot more adds its value. *)
LEMMA ValueAppend ==
    /\ ValueOf(<<>>) = 0
    /\ \A s \in Seq(Amounts) : ValueOf(s) \in Amounts
    /\ \A s \in Seq(Amounts) : \A v \in Amounts :
          ValueOf(Append(s, v)) = (ValueOf(s) + v) % Word
<1>1. ASSUME NEW s \in Seq(Amounts)
      PROVE  ValueOf(s) \in Amounts /\ (Len(s) = 0 => ValueOf(s) = 0)
  <2>1. PICK f \in [0 .. Len(s) -> Amounts] : f[0] = 0 /\ f[Len(s)] = ValueOf(s)
    BY FoldValue
  <2>2. Len(s) \in 0 .. Len(s)
    OBVIOUS
  <2> QED BY <2>1, <2>2
<1>2. ASSUME NEW s \in Seq(Amounts), NEW v \in Amounts
      PROVE  ValueOf(Append(s, v)) = (ValueOf(s) + v) % Word
  <2>1. PICK n, r : n = Len(s) /\ r = Append(s, v)
    OBVIOUS
  <2>2. /\ n \in Nat /\ r \in Seq(Amounts) /\ Len(r) = n + 1 /\ r[n + 1] = v
        /\ \A i \in 1 .. n : r[i] = s[i]
    BY <2>1
  <2>3. PICK f \in [0 .. n -> Amounts] :
           /\ f[0] = 0 /\ f[n] = ValueOf(s)
           /\ \A i \in 1 .. n : f[i] = Combine(f[i - 1], "+", s[i])
    BY <2>1, FoldValue
  <2>4. PICK g \in [0 .. n + 1 -> Amounts] :
           /\ g[0] = 0 /\ g[n + 1] = ValueOf(r)
           /\ \A i \in 1 .. n + 1 : g[i] = Combine(g[i - 1], "+", r[i])
    BY <2>2, FoldValue
  <2> DEFINE T == {i \in Nat : f[i] = g[i]}
  <2>5. 0 \in T
    BY <2>3, <2>4
  <2>6. ASSUME NEW i \in Nat, i < n, i \in T PROVE i + 1 \in T
    <3>1. i + 1 \in 1 .. n /\ i + 1 \in 1 .. n + 1 /\ (i + 1) - 1 = i
      BY <2>2, <2>6
    <3>2. f[i + 1] = Combine(f[i], "+", s[i + 1])
      BY <2>3, <3>1
    <3>3. g[i + 1] = Combine(g[i], "+", s[i + 1])
      BY <2>2, <2>4, <3>1
    <3> QED BY <2>6, <3>2, <3>3
  <2>7. f[n] = g[n]
    <3> HIDE DEF T
    <3>1. \A i \in 0 .. n : i \in T
      BY <2>2, <2>5, <2>6, InductionUpTo
    <3>2. n \in T
      BY <2>2, <3>1
    <3> QED BY <3>2 DEF T
  <2>8. g[n + 1] = Combine(g[n], "+", v)
    <3>1. n + 1 \in 1 .. n + 1 /\ (n + 1) - 1 = n
      BY <2>2
    <3> QED BY <2>2, <2>4, <3>1
  <2> QED BY <2>1, <2>3, <2>4, <2>7, <2>8, Combined
<1>3. <<>> \in Seq(Amounts) /\ Len(<<>>) = 0
  OBVIOUS
<1> QED BY <1>1, <1>2, <1>3

(* Values of at most Top add up without wrapping around. *)
LEMMA ValueBounded ==
    ASSUME NEW s \in Seq(Amounts), NEW Top \in Nat, Len(s) * Top < Word,
           \A i \in 1 .. Len(s) : s[i] <= Top
    PROVE  ValueOf(s) <= Len(s) * Top
<1>1. PICK n \in Nat : n = Len(s)
  OBVIOUS
<1>2. PICK f \in [0 .. n -> Amounts] :
           /\ f[0] = 0 /\ f[n] = ValueOf(s)
           /\ \A i \in 1 .. n : f[i] = Combine(f[i - 1], "+", s[i])
  BY <1>1, FoldValue
<1> DEFINE T == {i \in Nat : f[i] <= i * Top}
<1>3. 0 \in T
  BY <1>2
<1>4. ASSUME NEW i \in Nat, i < n, i \in T PROVE i + 1 \in T
  <2>1. /\ i + 1 \in 1 .. n /\ (i + 1) - 1 = i /\ i \in 0 .. n
    BY <1>1, <1>4
  <2>2. PICK a \in Nat, b \in Nat : a = f[i] /\ b = s[i + 1] /\ b <= Top
    <3>1. s \in Seq(Amounts) /\ i + 1 \in 1 .. Len(s)
      BY <1>1, <2>1
    <3>2. s[i + 1] \in Amounts /\ s[i + 1] <= Top
      BY <3>1
    <3>3. f[i] \in Amounts
      BY <1>2, <2>1
    <3>4. s[i + 1] \in Nat /\ f[i] \in Nat
      BY <3>2, <3>3, Wrapping
    <3> QED BY <3>2, <3>4
  <2>3. f[i + 1] = (a + b) % Word
    BY <1>2, <2>1, <2>2, Combined
  <2>4. (i + 1) * Top = i * Top + Top
    OBVIOUS
  <2>5. (i + 1) * Top <= n * Top
    <3>1. PICK d \in Nat : n = (i + 1) + d
      <4>1. n - (i + 1) \in Nat /\ n = (i + 1) + (n - (i + 1))
        BY <2>1
      <4> QED BY <4>1
    <3>2. n * Top = (i + 1) * Top + d * Top /\ d * Top \in Nat
      BY <3>1
    <3>3. (i + 1) * Top \in Nat
      OBVIOUS
    <3> QED BY <3>2, <3>3
  <2>6. a + b <= (i + 1) * Top
    <3>1. i * Top \in Nat /\ a <= i * Top
      BY <1>4, <2>2
    <3> QED BY <2>2, <2>4, <3>1
  <2>7. a + b < Word
    <3>1. n * Top < Word
      BY <1>1
    <3>2. n * Top \in Nat /\ (i + 1) * Top \in Nat
      OBVIOUS
    <3>3. PICK x \in Nat, y \in Nat, w \in Nat :
             x = (i + 1) * Top /\ y = n * Top /\ w = Word
      BY <3>2, Wrapping
    <3>4. a + b <= x /\ x <= y /\ y < w
      BY <2>5, <2>6, <3>1, <3>3
    <3>5. a + b < w
      BY <2>2, <3>4
    <3> QED BY <3>3, <3>5
  <2>8. (a + b) % Word = a + b
    <3>1. a + b \in Amounts
      BY <2>7, Wrapping DEF Amounts
    <3> QED BY <3>1, Wrapping
  <2> QED BY <2>3, <2>6, <2>8
<1>5. n \in T
  <2> HIDE DEF T
  <2>1. \A i \in 0 .. n : i \in T
    BY <1>3, <1>4, InductionUpTo
  <2> QED BY <2>1
<1> QED BY <1>1, <1>2, <1>5

(* Nothing adds up to nothing. *)
LEMMA ValueOfNothing ==
    ASSUME NEW s \in Seq(Amounts), \A i \in 1 .. Len(s) : s[i] = 0
    PROVE  ValueOf(s) = 0
<1>1. Len(s) * 0 = 0 /\ 0 < Word /\ \A i \in 1 .. Len(s) : s[i] <= 0
  <2>1. Len(s) \in Nat
    OBVIOUS
  <2>2. Len(s) * 0 = 0
    BY <2>1
  <2>3. 0 < Word
    BY Wrapping
  <2>4. \A i \in 1 .. Len(s) : s[i] <= 0
    OBVIOUS
  <2> QED BY <2>2, <2>3, <2>4
<1>2. ValueOf(s) <= Len(s) * 0
  BY <1>1, ValueBounded
<1>3. ValueOf(s) \in Nat
  BY ValueAppend, Wrapping
<1> QED BY <1>1, <1>2, <1>3

-----------------------------------------------------------------------------
(* The recipients.                                                         *)

(* The shares are added up from one recipient to the next. *)
LEMMA FoldShares ==
    ASSUME NEW s \in Seq(Nat)
    PROVE  \E f \in [0 .. Len(s) -> Nat] :
              /\ f[0] = 0
              /\ \A i \in 1 .. Len(s) : f[i] = f[i - 1] + s[i]
              /\ f[Len(s)] = Split(s, 1)[2]
<1> DEFINE N == Len(s)
           G == [i \in 1 .. N |-> [v \in Nat |-> v + s[i]]]
           Val(c, S) == IF S = {} THEN 0
                        ELSE c[S \ {Max(S)}] + s[Max(S)]
           D == SUBSET (1 .. N)
           c == CHOOSE c : c = [S \in D |-> Val(c, S)]
<1>1. N \in Nat /\ DOMAIN s = 1 .. N
  OBVIOUS
<1>2. 0 \in Nat
  OBVIOUS
<1>3. \A i \in 1 .. N : \A v \in Nat : v + s[i] \in Nat
  OBVIOUS
<1>4. G \in [1 .. N -> [Nat -> Nat]]
  BY <1>3
<1>5. PICK it \in [D -> Nat] : Unfolds(it, N, 0, G)
  <2> HIDE DEF G, N
  <2> QED BY <1>1, <1>2, <1>4, Unfolding
<1>6. ASSUME NEW S \in D PROVE it[S] = Val(it, S)
  <2>1. CASE S = {}
    BY <1>5, <2>1 DEF Unfolds
  <2>2. CASE S # {}
    <3>1. Max(S) \in 1 .. N /\ S \ {Max(S)} \in D
      BY <1>5, <2>2 DEF Unfolds
    <3>2. it[S \ {Max(S)}] \in Nat /\ it[S] = G[Max(S)][it[S \ {Max(S)}]]
      BY <1>5, <2>2, <3>1 DEF Unfolds
    <3> QED BY <3>1, <3>2, <2>2
  <2> QED BY <2>1, <2>2
<1>7. it = [S \in D |-> Val(it, S)]
  <2> HIDE DEF Val, D
  <2> QED BY <1>5, <1>6
<1>8. c = [S \in D |-> Val(c, S)]
  <2> HIDE DEF Val, D
  <2> QED BY <1>7
<1>9. Split(s, 1)[2] = c[1 .. N]
  BY <1>1 DEF Split, FoldLeft, MapThenFoldSet
<1> HIDE DEF c
<1> DEFINE f == [i \in 0 .. N |-> c[1 .. i]]
<1>10. f[0] = 0
  <2>1. 1 .. 0 \in D /\ 1 .. 0 = {} /\ 0 \in 0 .. N
    BY <1>1
  <2> QED BY <2>1, <1>8
<1>11. ASSUME NEW i \in 1 .. N PROVE f[i] = f[i - 1] + s[i]
  <2>1. /\ 1 .. i \in D /\ i - 1 \in 0 .. N /\ i \in Nat \ {0}
        /\ i \in 0 .. N
    BY <1>1
  <2>2. c[1 .. i] = Val(c, 1 .. i)
    <3> HIDE DEF Val, D
    <3> QED BY <2>1, <1>8
  <2>3. c[1 .. i] = c[1 .. (i - 1)] + s[i]
    BY <2>1, <2>2, IterationStep
  <2> QED BY <2>1, <2>3
<1>12. \A i \in 1 .. N : f[i - 1] \in Nat => f[i] \in Nat
  <2> HIDE DEF f, N
  <2> QED BY <1>3, <1>11
<1>13. f \in [0 .. N -> Nat]
  <2> HIDE DEF N
  <2>1. \A i \in 0 .. N : f[i] \in Nat
    <3> HIDE DEF f
    <3> QED BY <1>1, <1>2, <1>10, <1>12, StaysIn
  <2> QED BY <2>1
<1>14. f[N] = c[1 .. N]
  BY <1>1
<1> HIDE DEF f, N
<1>15. f[N] = Split(s, 1)[2]
  BY <1>9, <1>14, Zenon
<1> QED BY <1>10, <1>11, <1>13, <1>15 DEF N

(* The least number of a set of them. *)
LEMMA LeastExists ==
    ASSUME NEW S \in SUBSET Nat, S # {}
    PROVE  First(S) \in S
<1> DEFINE R == OpToRel(<, Nat)
<1>1. IsWellFoundedOn(R, Nat)
  BY NatLessThanWellFounded
<1>2. S \subseteq Nat
  OBVIOUS
<1>3. PICK k \in S : \A j \in S : ~(<<j, k>> \in R)
  BY <1>1, <1>2, WFMin
<1>4. ASSUME NEW j \in S PROVE k <= j
  <2>1. j \in Nat /\ k \in Nat
    BY <1>2
  <2>2. ~(j < k)
    BY <1>3, <2>1 DEF OpToRel
  <2> QED BY <2>1, <2>2
<1> QED BY <1>3, <1>4 DEF First

(* Among several recipients, none has all the shares. *)
LEMMA SharesAdd ==
    ASSUME NEW s \in Seq(Nat \ {0}), NEW i \in 1 .. Len(s)
    PROVE  /\ Split(s, i) = <<s[i], Split(s, 1)[2]>>
           /\ Split(s, 1)[2] \in Nat /\ s[i] \in Nat \ {0}
           /\ Len(s) = 1 => Split(s, 1)[2] = s[i]
           /\ Len(s) # 1 => Split(s, 1)[2] > s[i]
<1>1. PICK n \in Nat : n = Len(s)
  OBVIOUS
<1>2. s \in Seq(Nat) /\ \A j \in 1 .. n : s[j] \in Nat \ {0}
  BY <1>1, SeqOfMore
<1>3. PICK f \in [0 .. n -> Nat] :
         /\ f[0] = 0 /\ \A j \in 1 .. n : f[j] = f[j - 1] + s[j]
         /\ f[n] = Split(s, 1)[2]
  BY <1>1, <1>2, FoldShares
<1> DEFINE T == {j \in Nat : f[j] >= j /\ (j >= i => f[j] >= s[i] + (j - 1))}
<1>4. 0 \in T
  BY <1>3
<1>5. ASSUME NEW j \in Nat, j < n, j \in T PROVE j + 1 \in T
  <2>1. j + 1 \in 1 .. n /\ j \in 0 .. n /\ (j + 1) - 1 = j /\ i \in 1 .. n
    BY <1>1, <1>5
  <2>2. PICK a \in Nat, b \in Nat, c \in Nat :
           a = f[j] /\ b = s[j + 1] /\ c = s[i] /\ b >= 1
    <3>1. f[j] \in Nat /\ s[j + 1] \in Nat \ {0} /\ s[i] \in Nat
      BY <1>2, <1>3, <2>1
    <3> QED BY <3>1
  <2>3. f[j + 1] = a + b
    BY <1>3, <2>1, <2>2
  <2>4. a >= j /\ (j >= i => a >= c + (j - 1))
    BY <1>5, <2>2
  <2>5. j + 1 = i => b = c
    BY <2>2
  <2>6. a + b >= j + 1 /\ (j + 1 >= i => a + b >= c + j)
    <3>1. i \in Nat
      BY <2>1
    <3>2. CASE j >= i
      <4>1. a >= c + (j - 1) /\ a >= j
        BY <2>4, <3>2
      <4>2. \A x, y, z \in Nat : x >= z + (j - 1) /\ y >= 1 => x + y >= z + j
        OBVIOUS
      <4>3. a + b >= c + j
        BY <2>2, <4>1, <4>2
      <4>4. a + b >= j + 1
        <5>1. a \in Nat /\ b \in Nat /\ b >= 1 /\ a >= j
          BY <2>2, <4>1
        <5> QED BY <5>1
      <4> QED BY <4>3, <4>4
    <3>3. CASE j + 1 = i
      BY <2>2, <2>4, <2>5, <3>3
    <3>4. CASE ~(j + 1 >= i)
      BY <2>2, <2>4, <3>4
    <3> QED BY <3>1, <3>2, <3>3, <3>4
  <2> QED BY <2>2, <2>3, <2>6
<1>6. n \in T
  <2> HIDE DEF T
  <2>1. \A j \in 0 .. n : j \in T
    BY <1>4, <1>5, InductionUpTo
  <2> QED BY <2>1
<1>7. n = 1 => f[1] = s[1] /\ i = 1
  BY <1>1, <1>2, <1>3
<1>8. f[n] \in Nat /\ s[i] \in Nat \ {0} /\ n >= 1 /\ n >= i
  <2>1. i \in 1 .. n /\ n \in 0 .. n
    BY <1>1
  <2> QED BY <1>2, <1>3, <2>1
<1>9. n # 1 => f[n] > s[i]
  BY <1>6, <1>8
<1>10. Split(s, i) = <<s[i], Split(s, 1)[2]>>
  BY DEF Split
<1> QED BY <1>1, <1>3, <1>7, <1>8, <1>9, <1>10

(* A single recipient gets the amount, several ones get nothing. *)
LEMMA PartIs ==
    ASSUME NEW amount \in Amounts, NEW s \in Seq(Nat \ {0}), NEW i \in 1 .. Len(s)
    PROVE  Part(amount, Split(s, i)) = IF Len(s) = 1 THEN amount ELSE 0
<1>1. PICK a \in Nat \ {0}, b \in Nat : a = s[i] /\ b = Split(s, 1)[2]
  BY SharesAdd
<1>2. Split(s, i) = <<a, b>> /\ (Len(s) = 1 => b = a) /\ (Len(s) # 1 => b > a)
  BY <1>1, SharesAdd
<1>3. OfFraction(Split(s, i)) = (a \div b) % Word
  BY <1>2 DEF OfFraction
<1>4. CASE Len(s) = 1
  <2>1. a \div a = 1
    BY <1>1
  <2>2. OfFraction(Split(s, i)) = 1
    BY <1>2, <1>3, <1>4, <2>1, Wrapping
  <2>3. Part(amount, Split(s, i)) = (amount * 1) % Word
    BY <2>2, Combined DEF Part, WithFraction
  <2>4. amount * 1 = amount /\ amount % Word = amount
    BY Wrapping
  <2> QED BY <1>4, <2>3, <2>4
<1>5. CASE Len(s) # 1
  <2>1. a \div b = 0
    <3>1. a \in Nat /\ b \in Nat /\ a < b
      BY <1>2, <1>5
    <3> QED BY <3>1
  <2>2. OfFraction(Split(s, i)) = 0
    BY <1>3, <2>1, Wrapping
  <2>3. Part(amount, Split(s, i)) = (amount * 0) % Word
    BY <2>2, Combined DEF Part, WithFraction
  <2>4. amount * 0 = 0 /\ 0 % Word = 0
    BY Wrapping
  <2> QED BY <1>5, <2>3, <2>4
<1> QED BY <1>4, <1>5

(* So what the recipients get is at most the amount. *)
LEMMA PartsAdd ==
    ASSUME NEW amount \in Amounts, NEW s \in Seq(Nat \ {0}), NEW parts,
           parts = [i \in DOMAIN s |-> Part(amount, Split(s, i))]
    PROVE  /\ parts \in Seq(Amounts) /\ Len(parts) = Len(s)
           /\ ValueOf(parts) \in Amounts /\ ValueOf(parts) <= amount
<1>1. PICK n \in Nat : n = Len(s) /\ DOMAIN s = 1 .. n
  OBVIOUS
<1>2. \A i \in 1 .. n : Part(amount, Split(s, i)) = IF n = 1 THEN amount ELSE 0
  BY <1>1, PartIs
<1>3. 0 \in Amounts /\ amount \in Nat /\ amount % Word = amount
  BY Wrapping
<1>4. parts = [i \in 1 .. n |-> IF n = 1 THEN amount ELSE 0]
  BY <1>1, <1>2
<1>5. /\ parts \in Seq(Amounts) /\ Len(parts) = n
      /\ \A i \in 1 .. n : parts[i] = IF n = 1 THEN amount ELSE 0
  BY <1>3, <1>4
<1>6. ValueOf(parts) \in Amounts
  BY <1>5, ValueAppend
<1>7. CASE n = 1
  <2>1. PICK e \in Seq(Amounts) : e = <<>>
    <3>1. <<>> \in Seq(Amounts)
      OBVIOUS
    <3> QED BY <3>1
  <2>2. parts = Append(e, amount)
    <3>1. Len(Append(e, amount)) = 1 /\ Append(e, amount)[1] = amount
          /\ Append(e, amount) \in Seq(Amounts)
      BY <2>1
    <3>2. Len(parts) = 1 /\ parts[1] = amount /\ parts \in Seq(Amounts)
      <4>1. 1 \in 1 .. n
        BY <1>7
      <4> QED BY <1>5, <1>7, <4>1
    <3>3. PICK a : a = Append(e, amount)
      OBVIOUS
    <3>4. Len(a) = 1 /\ a[1] = amount /\ a \in Seq(Amounts)
      BY <3>1, <3>3
    <3>5. a = parts
      BY <3>2, <3>4
    <3> QED BY <3>3, <3>5
  <2>3. ValueOf(e) = 0 /\ ValueOf(Append(e, amount)) = (ValueOf(e) + amount) % Word
    BY <2>1, ValueAppend
  <2>4. 0 + amount = amount
    BY <1>3
  <2>5. ValueOf(parts) = amount
    BY <1>3, <2>2, <2>3, <2>4
  <2> QED BY <1>1, <1>3, <1>5, <1>6, <2>5
<1>8. CASE n # 1
  <2>1. ValueOf(parts) = 0
    BY <1>5, <1>8, ValueOfNothing
  <2> QED BY <1>1, <1>3, <1>5, <1>6, <2>1
<1> QED BY <1>7, <1>8

(* The amount of a payment is an amount. *)
LEMMA ParIsAmount ==
    ASSUME NEW q \in Nat, NEW unit \in DOMAIN Unit
    PROVE  OfPar(q, unit, 0) \in Amounts
<1>1. \/ Unit[unit] = <<10, -3>>
      \/ \E b \in Nat : Unit[unit] = <<10, b>> \/ Unit[unit] = <<16, b>>
  BY DEF Unit
<1>2. /\ 10^3 \in Nat \ {0}
      /\ \A n \in Nat : 10^n \in Int /\ 16^n \in Int
  OBVIOUS
<1>3. PICK x \in Int, y \in Nat \ {0} : Converted(q, unit) = <<x, y>>
  <2>1. CASE Unit[unit] = <<10, -3>>
    <3>1. PICK u : u = Unit[unit]
      OBVIOUS
    <3>2. u[1] = 10 /\ u[2] < 0 /\ -u[2] = 3
      <4>1. u = <<10, -3>>
        BY <2>1, <3>1
      <4>2. u[1] = 10 /\ u[2] = -3
        BY <4>1
      <4>3. PICK m \in Int : m = u[2] /\ m + 3 = 0
        BY <4>2
      <4>4. m < 0 /\ -m = 3
        BY <4>3
      <4> QED BY <4>2, <4>3, <4>4
    <3>3. Converted(q, unit) = <<q, u[1]^(-u[2])>>
      BY <3>1, <3>2 DEF Converted
    <3>4. Converted(q, unit) = <<q, 10^3>>
      BY <3>2, <3>3
    <3> QED BY <1>2, <3>4
  <2>2. ASSUME NEW b \in Nat, Unit[unit] = <<10, b>> \/ Unit[unit] = <<16, b>>
        PROVE  \E x \in Int, y \in Nat \ {0} : Converted(q, unit) = <<x, y>>
    <3>1. PICK a, p \in Int : Unit[unit] = <<a, b>> /\ p = a^b
      BY <1>2, <2>2
    <3>2. Converted(q, unit) = <<q * p, 1>>
      BY <3>1 DEF Converted
    <3>3. q * p \in Int /\ 1 \in Nat \ {0}
      OBVIOUS
    <3> QED BY <3>2, <3>3
  <2> QED BY <1>1, <2>1, <2>2
<1>4. OfUnit(q, unit) = (x \div y) % Word
  BY <1>3 DEF OfUnit, OfFraction
<1>5. x \div y \in Int
  OBVIOUS
<1> QED BY <1>4, <1>5, Wrapping DEF OfPar

-----------------------------------------------------------------------------
(* Transactions with arrays of values.                                     *)

(* The transactions without a cache and with n slots on one side. *)
Txs == [txIn : Seq(Slot), txOut : Seq(Slot), bytes : Int, cache : {<<>>}]
WithSlots(side, n) == {u \in Txs : Len(u[side]) = n}
Opposite(side) == IF side = "txIn" THEN "txOut" ELSE "txIn"

(* A transaction with other slots on one side keeps the other side. *)
Turned(u, t, side, slots) ==
    /\ Sound(t) => Sound(u)
    /\ IsTx(u) /\ u.cache = <<>> /\ u[side] = slots
    /\ u[Opposite(side)] = t[Opposite(side)]
    /\ u \in WithSlots(side, Len(slots))

(* This is what a call that swaps the slots of a side does. *)
LEMMA SwappedSides ==
    ASSUME NEW u, NEW t, NEW side \in Side, NEW slots \in Seq(Slot),
           Swapped(u, t, side, slots)
    PROVE  Turned(u, t, side, slots)
<1>1. Sound(t) => Sound(u)
  BY SwappedIsSound
<1>2. IsTx(u) /\ u.cache = <<>>
  BY DEF Swapped
<1>3. u[side] = slots /\ u[Opposite(side)] = t[Opposite(side)]
  <2>1. CASE side = "txIn"
    BY <2>1 DEF Swapped, Opposite
  <2>2. CASE side = "txOut"
    BY <2>2 DEF Swapped, Opposite
  <2> QED BY <2>1, <2>2 DEF Side
<1>4. u \in Txs
  BY <1>2 DEF IsTx, Txs
<1> QED BY <1>1, <1>2, <1>3, <1>4 DEF WithSlots, Turned

(* The slots are filled one after the other. *)
LEMMA FoldWithAll ==
    ASSUME NEW t, NEW side, NEW values, values \in Seq(Amounts), NEW w,
           w = Resized(t, side, Len(values)), NEW V, w \in V,
           \A u \in V : \A i \in 1 .. Len(values) :
              Placed(u, side, i, values[i]) \in V
    PROVE  \E f \in [0 .. Len(values) -> V] :
              /\ f[0] = w
              /\ \A i \in 1 .. Len(values) : f[i] = Placed(f[i - 1], side, i, values[i])
              /\ f[Len(values)] = WithAll(t, side, values)
<1> DEFINE k == [i \in DOMAIN values |-> i]
           N == Len(values)
           G == [i \in 1 .. N |-> [v \in V |-> Placed(v, side, k[i], values[k[i]])]]
           Val(c, S) == IF S = {} THEN w
                        ELSE Placed(c[S \ {Max(S)}], side, k[Max(S)], values[k[Max(S)]])
           D == SUBSET (1 .. N)
           c == CHOOSE c : c = [S \in D |-> Val(c, S)]
<1>1. N \in Nat /\ DOMAIN k = 1 .. N /\ \A i \in 1 .. N : k[i] = i
  OBVIOUS
<1>2. w \in V
  OBVIOUS
<1>3. \A i \in 1 .. N : \A v \in V : Placed(v, side, k[i], values[k[i]]) \in V
  OBVIOUS
<1>4. G \in [1 .. N -> [V -> V]]
  BY <1>3
<1>5. PICK it \in [D -> V] : Unfolds(it, N, w, G)
  <2> HIDE DEF G, N
  <2> QED BY <1>1, <1>2, <1>4, Unfolding
<1>6. ASSUME NEW S \in D PROVE it[S] = Val(it, S)
  <2>1. CASE S = {}
    BY <1>5, <2>1 DEF Unfolds
  <2>2. CASE S # {}
    <3>1. Max(S) \in 1 .. N /\ S \ {Max(S)} \in D
      BY <1>5, <2>2 DEF Unfolds
    <3>2. it[S \ {Max(S)}] \in V /\ it[S] = G[Max(S)][it[S \ {Max(S)}]]
      BY <1>5, <2>2, <3>1 DEF Unfolds
    <3> QED BY <3>1, <3>2, <2>2
  <2> QED BY <2>1, <2>2
<1>7. it = [S \in D |-> Val(it, S)]
  <2> HIDE DEF Val, D
  <2> QED BY <1>5, <1>6
<1>8. c = [S \in D |-> Val(c, S)]
  <2> HIDE DEF Val, D
  <2> QED BY <1>7
<1>9. WithAll(t, side, values) = c[1 .. N]
  BY <1>1 DEF WithAll, FoldLeft, FoldLeftDomain, MapThenFoldSet
<1> HIDE DEF c, k
<1> DEFINE f == [i \in 0 .. N |-> c[1 .. i]]
<1>10. f[0] = w
  <2>1. 1 .. 0 \in D /\ 1 .. 0 = {} /\ 0 \in 0 .. N
    BY <1>1
  <2> QED BY <2>1, <1>8
<1>11. ASSUME NEW i \in 1 .. N PROVE f[i] = Placed(f[i - 1], side, k[i], values[k[i]])
  <2>1. /\ 1 .. i \in D /\ i - 1 \in 0 .. N /\ i \in Nat \ {0}
        /\ i \in 0 .. N
    BY <1>1
  <2>2. c[1 .. i] = Val(c, 1 .. i)
    <3> HIDE DEF Val, D
    <3> QED BY <2>1, <1>8
  <2>3. c[1 .. i] = Placed(c[1 .. (i - 1)], side, k[i], values[k[i]])
    BY <2>1, <2>2, IterationStep
  <2> QED BY <2>1, <2>3
<1>12. \A i \in 1 .. N : f[i - 1] \in V => f[i] \in V
  <2> HIDE DEF f, N
  <2> QED BY <1>3, <1>11
<1>13. f \in [0 .. N -> V]
  <2> HIDE DEF N
  <2>1. \A i \in 0 .. N : f[i] \in V
    <3> HIDE DEF f
    <3> QED BY <1>1, <1>2, <1>10, <1>12, StaysIn
  <2> QED BY <2>1
<1>14. f[N] = c[1 .. N]
  BY <1>1
<1> HIDE DEF f, N
<1>15. f[N] = WithAll(t, side, values)
  BY <1>9, <1>14, Zenon
<1>16. \A i \in 1 .. N : f[i] = Placed(f[i - 1], side, i, values[i])
  BY <1>1, <1>11
<1> QED BY <1>10, <1>13, <1>15, <1>16 DEF N

(* Filling a slot leaves the number of slots. *)
LEMMA PlacedKeepsSlots ==
    ASSUME NEW side \in Side, NEW n \in Nat, NEW u \in WithSlots(side, n),
           NEW i \in 1 .. n, NEW v \in Amounts
    PROVE  /\ IsTx(u) /\ u.cache = <<>> /\ u[side] \in Seq(Slot)
           /\ Sound(u) => Sound(Placed(u, side, i, v))
           /\ Placed(u, side, i, v) \in WithSlots(side, n)
           /\ Placed(u, side, i, v)[side] = [u[side] EXCEPT ![i] = v]
           /\ Placed(u, side, i, v)[Opposite(side)] = u[Opposite(side)]
<1>1. IsTx(u) /\ u.cache = <<>> /\ Len(u[side]) = n
  BY DEF WithSlots, Txs, IsTx
<1>2. PICK s : s = u[side]
  OBVIOUS
<1>3. s \in Seq(Slot)
  BY <1>1, <1>2, Sides
<1>4. PICK x, r : x = Placed(u, side, i, v) /\ r = [s EXCEPT ![i] = v]
  OBVIOUS
<1>5. r \in Seq(Slot) /\ Len(r) = n
  <2>1. v \in Slot /\ Len(s) = n
    BY <1>1, <1>2 DEF Slot
  <2> QED BY <1>3, <1>4, <2>1
<1>6. Swapped(x, u, side, r)
  BY <1>1, <1>2, <1>4, PlacedFollows
<1>7. /\ Sound(u) => Sound(x)
      /\ x[side] = r /\ x[Opposite(side)] = u[Opposite(side)]
      /\ x \in WithSlots(side, Len(r))
  <2>1. r \in Seq(Slot)
    BY <1>5
  <2>2. Turned(x, u, side, r)
    BY <1>6, <2>1, SwappedSides
  <2> QED BY <2>2 DEF Turned
<1> QED BY <1>1, <1>2, <1>3, <1>4, <1>5, <1>7

(* r is t with these values on one side. *)
FilledWith(r, t, side, values) ==
    /\ Sound(r) /\ IsTx(r) /\ r.cache = <<>> /\ r[side] = values
    /\ r[Opposite(side)] = t[Opposite(side)]

(* The loops that fill an array put the values there, in their order. *)
LEMMA WithAllFills ==
    ASSUME NEW t, Sound(t), NEW side \in Side, NEW values \in Seq(Amounts)
    PROVE  FilledWith(WithAll(t, side, values), t, side, values)
<1>1. PICK n \in Nat : n = Len(values)
  OBVIOUS
<1>2. PICK w : w = Resized(t, side, n)
  OBVIOUS
<1>3. IsTx(t)
  BY DEF Sound
<1>4. PICK z : z = Resize(t[side], n, Empty)
  OBVIOUS
<1>5. z \in Seq(Slot) /\ Len(z) = n
  <2>1. PICK s, e : s = t[side] /\ e = Empty
    OBVIOUS
  <2>2. s \in Seq(Slot) /\ e \in Slot
    BY <1>3, <2>1, Sides DEF Slot
  <2>3. Resize(s, n, e) \in Seq(Slot) /\ Len(Resize(s, n, e)) = n
    BY <2>2, Resizing
  <2> QED BY <1>4, <2>1, <2>3
<1>6. /\ Sound(w) /\ w[Opposite(side)] = t[Opposite(side)]
      /\ w \in WithSlots(side, n)
  <2>1. Swapped(w, t, side, z)
    BY <1>2, <1>3, <1>4, ResizedFollows
  <2>2. z \in Seq(Slot)
    BY <1>5
  <2>3. /\ Sound(t) => Sound(w)
        /\ w[Opposite(side)] = t[Opposite(side)]
        /\ w \in WithSlots(side, Len(z))
    <3>1. Turned(w, t, side, z)
      BY <2>1, <2>2, SwappedSides
    <3> QED BY <3>1 DEF Turned
  <2> QED BY <1>5, <2>3
<1>7. \A i \in 1 .. n : values[i] \in Amounts
  BY <1>1
<1>8. \A u \in WithSlots(side, n) : \A i \in 1 .. n :
         Placed(u, side, i, values[i]) \in WithSlots(side, n)
  BY <1>7, PlacedKeepsSlots
<1>9. PICK f \in [0 .. n -> WithSlots(side, n)] :
         /\ f[0] = w
         /\ \A i \in 1 .. n : f[i] = Placed(f[i - 1], side, i, values[i])
         /\ f[n] = WithAll(t, side, values)
  <2>1. PICK V : V = WithSlots(side, n)
    OBVIOUS
  <2>2. w = Resized(t, side, Len(values)) /\ w \in V
    BY <1>1, <1>2, <1>6, <2>1
  <2>3. \A u \in V : \A i \in 1 .. Len(values) :
           Placed(u, side, i, values[i]) \in V
    BY <1>1, <1>8, <2>1
  <2>4. \E f \in [0 .. Len(values) -> V] :
           /\ f[0] = w
           /\ \A i \in 1 .. Len(values) :
                 f[i] = Placed(f[i - 1], side, i, values[i])
           /\ f[Len(values)] = WithAll(t, side, values)
    BY <2>2, <2>3, FoldWithAll
  <2> QED BY <1>1, <2>1, <2>4
<1> DEFINE T == {i \in Nat : /\ Sound(f[i])
                             /\ f[i][Opposite(side)] = t[Opposite(side)]
                             /\ \A j \in 1 .. i : f[i][side][j] = values[j]}
<1>10. 0 \in T
  BY <1>6, <1>9
<1>11. ASSUME NEW i \in Nat, i < n, i \in T PROVE i + 1 \in T
  <2>1. i + 1 \in 1 .. n /\ (i + 1) - 1 = i /\ i \in 0 .. n
    BY <1>11
  <2>2. PICK u, x, v, s : /\ u = f[i] /\ x = f[i + 1] /\ v = values[i + 1]
                          /\ s = u[side]
    OBVIOUS
  <2>3. u \in WithSlots(side, n) /\ v \in Amounts
    BY <1>7, <1>9, <2>1, <2>2
  <2>4. x = Placed(u, side, i + 1, v)
    BY <1>9, <2>1, <2>2
  <2>5. /\ s \in Seq(Slot)
        /\ Sound(u) => Sound(x)
        /\ x[side] = [s EXCEPT ![i + 1] = v]
        /\ x[Opposite(side)] = u[Opposite(side)]
    BY <2>1, <2>2, <2>3, <2>4, PlacedKeepsSlots
  <2>6. Len(s) = n
    BY <2>2, <2>3 DEF WithSlots
  <2>7. ASSUME NEW j \in 1 .. i + 1 PROVE x[side][j] = values[j]
    <3>1. j \in 1 .. Len(s) /\ i + 1 \in 1 .. Len(s)
      BY <2>1, <2>6
    <3>2. CASE j = i + 1
      BY <2>2, <2>5, <3>1, <3>2
    <3>3. CASE j # i + 1
      <4>1. j \in 1 .. i
        BY <3>3
      <4>2. s[j] = values[j]
        BY <1>11, <2>2, <4>1
      <4> QED BY <2>5, <3>1, <3>3, <4>2
    <3> QED BY <3>2, <3>3
  <2>8. Sound(u) /\ u[Opposite(side)] = t[Opposite(side)]
    BY <1>11, <2>2
  <2>9. Sound(x) /\ x[Opposite(side)] = t[Opposite(side)]
    BY <2>5, <2>8
  <2> QED BY <2>2, <2>7, <2>9
<1>12. n \in T
  <2> HIDE DEF T
  <2>1. \A i \in 0 .. n : i \in T
    BY <1>10, <1>11, InductionUpTo
  <2> QED BY <2>1
<1>13. PICK r, s : r = f[n] /\ s = r[side]
  OBVIOUS
<1>14. r \in WithSlots(side, n)
  BY <1>9, <1>13
<1>15. IsTx(r) /\ r.cache = <<>> /\ s \in Seq(Slot) /\ Len(s) = n
  BY <1>13, <1>14, Sides DEF WithSlots, Txs, IsTx
<1>16. s = values
  <2>1. \A j \in 1 .. n : s[j] = values[j]
    BY <1>12, <1>13
  <2> QED BY <1>1, <1>15, <2>1
<1> QED BY <1>9, <1>12, <1>13, <1>15, <1>16 DEF FilledWith

-----------------------------------------------------------------------------
(* What keeps a payment from wrapping around.                              *)

(* An array counts at most its slots. *)
LEMMA CountBounded ==
    ASSUME NEW s \in Seq(Slot)
    PROVE  Count(s) \in Nat /\ Count(s) <= Len(s)
<1>1. PICK n \in Nat : n = Len(s) /\ DOMAIN s = 1 .. n
  OBVIOUS
<1>2. Filling(s, Empty) \subseteq 1 .. n
  BY <1>1 DEF Filling
<1>3. IsFiniteSet(1 .. n) /\ Cardinality(1 .. n) = n
  BY FS_Interval
<1>4. Cardinality(Filling(s, Empty)) <= n
  BY <1>2, <1>3, FS_Subset
<1>5. Count(s) \in Nat
  BY Weights DEF Side
<1> QED BY <1>1, <1>4, <1>5 DEF Count

(* A payment has at most MostBytes bytes. *)
LEMMA BytesBounded ==
    ASSUME NEW t, IsTx(t), Len(t.txIn) <= MaxCoins, Len(t.txOut) <= MaxDest + 1
    PROVE  TrueBytes(t) \in Nat /\ TrueBytes(t) <= MostBytes
<1>1. t.txIn \in Seq(Slot) /\ t.txOut \in Seq(Slot)
  BY DEF IsTx
<1>2. PICK a \in Nat, b \in Nat, i \in Nat, o \in Nat, m \in Nat, d \in Nat :
         /\ a = CompactSize(Len(t.txIn)) /\ a <= 9
         /\ b = CompactSize(Len(t.txOut)) /\ b <= 9
         /\ i = Count(t.txIn) /\ i <= m /\ m = MaxCoins
         /\ o = Count(t.txOut) /\ o <= d + 1 /\ d = MaxDest
  <2>1. Len(t.txIn) \in Nat /\ Len(t.txOut) \in Nat
    BY <1>1
  <2>2. /\ CompactSize(Len(t.txIn)) \in Nat /\ CompactSize(Len(t.txIn)) <= 9
        /\ CompactSize(Len(t.txOut)) \in Nat /\ CompactSize(Len(t.txOut)) <= 9
    BY <2>1, CompactSizes
  <2>3. /\ Count(t.txIn) \in Nat /\ Count(t.txIn) <= Len(t.txIn)
        /\ Count(t.txOut) \in Nat /\ Count(t.txOut) <= Len(t.txOut)
    BY <1>1, CountBounded
  <2>4. MaxCoins \in Nat /\ MaxDest \in Nat
    BY PaymentAssumption
  <2>5. Count(t.txIn) <= MaxCoins /\ Count(t.txOut) <= MaxDest + 1
    BY <2>1, <2>3, <2>4
  <2> QED BY <2>2, <2>3, <2>4, <2>5
<1>3. Bytes.txIn = 149 /\ Bytes.txOut = 34 /\ Bytes["txIn"] = 149 /\ Bytes["txOut"] = 34
  BY DEF Bytes
<1>4. Weight("txIn", t.txIn) = 149 * i /\ Weight("txOut", t.txOut) = 34 * o
  <2>1. "txIn" \in Side /\ "txOut" \in Side
    BY DEF Side
  <2>2. /\ Weight("txIn", t.txIn) = Bytes["txIn"] * Count(t.txIn)
        /\ Weight("txOut", t.txOut) = Bytes["txOut"] * Count(t.txOut)
    BY <1>1, <2>1, Weights
  <2> QED BY <1>2, <1>3, <2>2
<1>5. TrueBytes(t) = 4 + a + 149 * i + b + 34 * o + 4
  BY <1>2, <1>4 DEF TrueBytes
<1>6. MostBytes = 8 + 18 + 149 * m + 34 * (d + 1)
  <2>1. MostBytes = 8 + 2 * 9 + 149 * MaxCoins + 34 * (MaxDest + 1)
    BY <1>3 DEF MostBytes
  <2>2. MaxCoins = m /\ MaxDest = d /\ 2 * 9 = 18
    BY <1>2
  <2> QED BY <2>1, <2>2
<1>7. a <= 9 /\ b <= 9 /\ i <= m /\ o <= d + 1
  BY <1>2
<1>8. /\ 4 + a + 149 * i + b + 34 * o + 4 \in Nat
      /\ 4 + a + 149 * i + b + 34 * o + 4 <= 8 + 18 + 149 * m + 34 * (d + 1)
  BY <1>7
<1> QED BY <1>5, <1>6, <1>8

(* So its fee is its bytes times the rate. *)
LEMMA FeeFits ==
    ASSUME NEW rates \in FeeRates, NEW rate \in rates, NEW b \in Nat, b <= MostBytes
    PROVE  /\ rate * b \in Amounts /\ rate * b \in Nat
           /\ OfFraction(<<rate * b, 1>>) = rate * b
<1>1. rate \in Nat /\ rate * MostBytes < Word
  BY PaymentAssumption, NoOverflowAssumption
<1>2. PICK m \in Nat : m = MostBytes /\ b <= m
  <2>1. Bytes.txIn = 149 /\ Bytes.txOut = 34
    BY DEF Bytes
  <2>2. MaxCoins \in Nat /\ MaxDest \in Nat
    BY PaymentAssumption
  <2>3. MostBytes \in Nat
    BY <2>1, <2>2 DEF MostBytes
  <2> QED BY <2>3
<1>3. PICK d \in Nat : m = b + d
  <2>1. m - b \in Nat /\ m = b + (m - b)
    BY <1>2
  <2> QED BY <2>1
<1>4. rate * m = rate * b + rate * d /\ rate * d \in Nat /\ rate * b \in Nat
  BY <1>1, <1>3
<1>5. PICK f \in Nat : f = rate * b
  BY <1>4
<1>6. f < Word
  <2>1. PICK x \in Nat, w \in Nat : x = rate * d /\ w = Word
    BY <1>4, Wrapping
  <2>2. f + x < w
    BY <1>1, <1>2, <1>4, <1>5, <2>1
  <2>3. f < w
    BY <2>2
  <2> QED BY <2>1, <2>3
<1>7. f \in Amounts
  BY <1>6, Wrapping DEF Amounts
<1>8. OfFraction(<<f, 1>>) = f
  <2>1. f \div 1 = f
    OBVIOUS
  <2>2. f % Word = f
    BY <1>7, Wrapping
  <2> QED BY <2>1, <2>2 DEF OfFraction
<1> QED BY <1>5, <1>7, <1>8

(* One more of the wallet's outputs does not make their value wrap around. *)
LEMMA NoWrap ==
    ASSUME NEW s \in Seq(Coins), NEW c \in Coins, Len(s) < MaxCoins
    PROVE  /\ s \in Seq(Amounts) /\ c \in Amounts
           /\ ValueOf(Append(s, c)) = ValueOf(s) + c
<1>1. Coins \subseteq Amounts /\ MaxCoins \in Nat
  BY PaymentAssumption
<1>2. s \in Seq(Amounts) /\ c \in Amounts
  BY <1>1, SeqOfMore
<1>3. PICK K \in Nat \ {0}, n \in Nat : K = MaxCoins /\ n = Len(s) /\ n + 1 <= K
  <2>1. Len(s) \in Nat
    OBVIOUS
  <2> QED BY <1>1, <2>1
<1>4. PICK W \in Nat : W + 1 = Word
  <2>1. Word - 1 \in Nat /\ (Word - 1) + 1 = Word
    BY Wrapping
  <2> QED BY <2>1
<1>5. PICK Top \in Nat : Top * K <= W /\ W < (Top + 1) * K
  <2>1. W \div K \in Nat /\ (W \div K) * K <= W /\ W < ((W \div K) + 1) * K
    OBVIOUS
  <2> QED BY <2>1
<1>6. ASSUME NEW x \in Coins PROVE x \in Nat /\ x <= Top
  <2>1. x \in Nat /\ x * K < Word
    BY <1>1, <1>3, Wrapping, NoOverflowAssumption
  <2>2. x * K <= W
    BY <1>4, <2>1
  <2>3. ASSUME x >= Top + 1 PROVE FALSE
    <3>1. PICK d \in Nat : x = (Top + 1) + d
      <4>1. x - (Top + 1) \in Nat /\ x = (Top + 1) + (x - (Top + 1))
        BY <2>1, <2>3
      <4> QED BY <4>1
    <3>2. x * K = (Top + 1) * K + d * K /\ d * K \in Nat /\ (Top + 1) * K \in Nat
      BY <3>1
    <3> QED BY <1>5, <2>2, <3>2
  <2> QED BY <2>1, <2>3
<1>7. (n + 1) * Top <= Top * K
  <2>1. PICK d \in Nat : K = (n + 1) + d
    <3>1. K - (n + 1) \in Nat /\ K = (n + 1) + (K - (n + 1))
      BY <1>3
    <3> QED BY <3>1
  <2>2. Top * K = (n + 1) * Top + d * Top /\ d * Top \in Nat /\ (n + 1) * Top \in Nat
    BY <2>1
  <2> QED BY <2>2
<1>8. (n + 1) * Top = n * Top + Top /\ n * Top \in Nat
  OBVIOUS
<1>9. n * Top + Top <= W
  BY <1>5, <1>7, <1>8
<1>10. ValueOf(s) <= n * Top
  <2>1. \A i \in 1 .. Len(s) : s[i] <= Top
    <3>1. \A i \in 1 .. Len(s) : s[i] \in Coins
      OBVIOUS
    <3> QED BY <1>6, <3>1
  <2>2. Len(s) * Top < Word
    BY <1>3, <1>4, <1>8, <1>9
  <2> QED BY <1>2, <1>3, <2>1, <2>2, ValueBounded
<1>11. PICK v \in Nat : v = ValueOf(s)
  BY <1>2, ValueAppend, Wrapping
<1>12. c \in Nat /\ c <= Top
  BY <1>6
<1>13. v + c \in Nat /\ v + c <= W
  <2>1. PICK x \in Nat : x = n * Top
    BY <1>8
  <2>2. v <= x /\ x + Top <= W
    BY <1>9, <1>10, <1>11, <2>1
  <2> QED BY <1>12, <2>2
<1>14. (v + c) % Word = v + c
  <2>1. v + c \in Amounts
    BY <1>4, <1>13 DEF Amounts
  <2> QED BY <2>1, Wrapping
<1>15. ValueOf(Append(s, c)) = (ValueOf(s) + c) % Word
  BY <1>2, ValueAppend
<1> QED BY <1>2, <1>11, <1>14, <1>15

(* To insert after the last slot is to append. *)
LEMMA InsertLast ==
    ASSUME NEW V, NEW s \in Seq(V), NEW v \in V
    PROVE  InsertAt(s, Len(s) + 1, v) = Append(s, v)
<1>1. PICK n \in Nat : n = Len(s)
  OBVIOUS
<1>2. SubSeq(s, 1, (n + 1) - 1) = s /\ SubSeq(s, n + 1, n) = <<>>
  BY <1>1
<1>3. InsertAt(s, n + 1, v) = s \o <<v>> \o <<>>
  BY <1>1, <1>2 DEF InsertAt
<1>4. s \o <<v>> = Append(s, v) /\ Append(s, v) \in Seq(V)
  OBVIOUS
<1>5. Append(s, v) \o <<>> = Append(s, v)
  BY <1>4
<1> QED BY <1>1, <1>3, <1>4, <1>5

-----------------------------------------------------------------------------
(* The payment's invariant.                                                *)

(* The variables of a call. *)
IsCall(p) ==
    p = [state |-> p.state, all |-> p.all, coins |-> p.coins, amount |-> p.amount,
         splits |-> p.splits, found |-> p.found, used |-> p.used,
         change |-> p.change, tx |-> p.tx, rates |-> p.rates, rate |-> p.rate]

(* The outputs pay the recipients, and after them perhaps the change. *)
PaysOut(p, base) ==
    /\ base \in Seq(Amounts) /\ Len(base) <= MaxDest /\ p.used = ValueOf(base)
    /\ \/ p.change = 0 /\ p.tx.txOut = base
       \/ /\ p.change = Len(base) + 1
          /\ \E v \in Amounts : p.tx.txOut = Append(base, v)

(* The inputs are a beginning of the wallet's outputs, and the rest of     *)
(* them is what the call has left.                                         *)
SpendsBeginning(p) ==
    /\ p.all \in Seq(Coins) /\ Len(p.all) <= MaxCoins
    /\ Len(p.tx.txIn) <= Len(p.all)
    /\ p.tx.txIn = SubSeq(p.all, 1, Len(p.tx.txIn))
    /\ p.coins = SubSeq(p.all, Len(p.tx.txIn) + 1, Len(p.all))
    /\ p.found = ValueOf(p.tx.txIn) /\ p.used <= p.found

(* Before a turn. *)
InTurn(p) ==
    /\ p.state = "turn" /\ IsCall(p)
    /\ Sound(p.tx) /\ p.tx.cache = <<>> /\ p.rates \in FeeRates
    /\ SpendsBeginning(p)
    /\ \E base : PaysOut(p, base)

PayInv ==
    \/ pay.state \in {"idle", "given up"}
    \/ InTurn(pay)
    \/ pay.state = "pushed" /\ PaymentBalances

(* What this says about the arrays and the amounts. *)
LEMMA TurnArrays ==
    ASSUME NEW p, InTurn(p)
    PROVE  /\ IsTx(p.tx) /\ p.tx.txIn \in Seq(Coins) /\ p.tx.txIn \in Seq(Amounts)
           /\ Len(p.tx.txIn) <= MaxCoins
           /\ p.tx.txOut \in Seq(Amounts) /\ Len(p.tx.txOut) <= MaxDest + 1
           /\ p.found \in Amounts /\ p.used \in Amounts
           /\ p.found - p.used \in Amounts
           /\ p.tx.bytes \in Nat /\ p.tx.bytes <= MostBytes
<1>1. IsTx(p.tx) /\ p.tx.bytes = TrueBytes(p.tx)
  BY DEF InTurn, Sound
<1>2. PICK i, o, a, k, l : /\ i = p.tx.txIn /\ o = p.tx.txOut /\ a = p.all
                           /\ k = Len(i) /\ l = Len(a)
  OBVIOUS
<1>3. /\ a \in Seq(Coins) /\ l <= MaxCoins /\ k <= l /\ i = SubSeq(a, 1, k)
      /\ p.found = ValueOf(i) /\ p.used <= p.found
  BY <1>2 DEF InTurn, SpendsBeginning
<1>4. k \in Nat /\ l \in Nat /\ MaxCoins \in Nat /\ MaxDest \in Nat
      /\ Coins \subseteq Amounts
  <2>1. i \in Seq(Slot)
    BY <1>1, <1>2 DEF IsTx
  <2> QED BY <1>2, <1>3, <2>1, PaymentAssumption
<1>5. i \in Seq(Coins)
  <2>1. k \in 0 .. Len(a)
    BY <1>2, <1>3, <1>4
  <2> QED BY <1>3, <2>1, SplitAt
<1>6. i \in Seq(Amounts)
  BY <1>4, <1>5, SeqOfMore
<1>7. k <= MaxCoins
  BY <1>3, <1>4
<1>8. PICK base : PaysOut(p, base)
  BY DEF InTurn
<1>9. base \in Seq(Amounts) /\ Len(base) <= MaxDest /\ p.used = ValueOf(base)
  BY <1>8 DEF PaysOut
<1>10. o \in Seq(Amounts) /\ Len(o) <= MaxDest + 1
  <2>1. CASE o = base
    <3>1. Len(base) \in Nat
      BY <1>9
    <3> QED BY <1>4, <1>9, <2>1, <3>1
  <2>2. ASSUME NEW v \in Amounts, o = Append(base, v)
        PROVE  o \in Seq(Amounts) /\ Len(o) <= MaxDest + 1
    <3>1. base \in Seq(Amounts)
      BY <1>9
    <3>2. o \in Seq(Amounts) /\ Len(o) = Len(base) + 1 /\ Len(base) \in Nat
      BY <2>2, <3>1
    <3> QED BY <1>4, <1>9, <3>2
  <2> QED BY <1>2, <1>8, <2>1, <2>2 DEF PaysOut
<1>11. p.found \in Amounts /\ p.used \in Amounts
  BY <1>3, <1>6, <1>9, ValueAppend
<1>12. p.found - p.used \in Amounts
  <2>1. PICK f, u \in Amounts : f = p.found /\ u = p.used /\ u <= f
    BY <1>3, <1>11
  <2>2. f \in 0 .. Word - 1 /\ u \in 0 .. Word - 1 /\ Word \in Nat
    BY <2>1, Wrapping DEF Amounts
  <2>3. f - u \in 0 .. Word - 1
    BY <2>1, <2>2
  <2> QED BY <2>1, <2>3 DEF Amounts
<1>13. TrueBytes(p.tx) \in Nat /\ TrueBytes(p.tx) <= MostBytes
  BY <1>1, <1>2, <1>7, <1>10, BytesBounded
<1> QED BY <1>1, <1>2, <1>5, <1>6, <1>7, <1>10, <1>11, <1>12, <1>13

(* The fee and what remains are amounts, so they compare as they are. *)
LEMMA FeeFacts ==
    ASSUME InTurn(pay), NEW rate \in pay.rates
    PROVE  /\ FeeAt(rate) = rate * pay.tx.bytes
           /\ FeeAt(rate) \in Amounts /\ Remaining \in Amounts
           /\ Remaining = pay.found - pay.used
           /\ WithInteger(FeeAt(rate), "<", Remaining) = (FeeAt(rate) < Remaining)
           /\ FeeAt(rate) < Remaining =>
                 /\ OfInteger(Remaining - FeeAt(rate)) = Remaining - FeeAt(rate)
                 /\ Remaining - FeeAt(rate) \in Amounts
<1>1. PICK b : b = pay.tx.bytes
  OBVIOUS
<1>2. b \in Nat /\ b <= MostBytes /\ pay.rates \in FeeRates
  BY <1>1, TurnArrays DEF InTurn
<1>3. /\ rate * b \in Amounts /\ OfFraction(<<rate * b, 1>>) = rate * b
  BY <1>2, FeeFits
<1>4. PICK f, r \in Amounts : /\ f = FeeAt(rate) /\ f = rate * b
                              /\ r = Remaining /\ r = pay.found - pay.used
  <2>1. FeeAt(rate) = rate * b
    BY <1>1, <1>3 DEF FeeAt
  <2>2. pay.found - pay.used \in Amounts
    BY TurnArrays
  <2> QED BY <1>3, <2>1, <2>2 DEF Remaining
<1>5. WithInteger(f, "<", r) = (f < r)
  <2>1. OfInteger(r) = r
    BY Wrapping DEF OfInteger
  <2> QED BY <2>1, Combined DEF WithInteger
<1>6. ASSUME f < r PROVE OfInteger(r - f) = r - f /\ r - f \in Amounts
  <2>1. f \in 0 .. Word - 1 /\ r \in 0 .. Word - 1 /\ Word \in Nat
    BY Wrapping DEF Amounts
  <2>2. r - f \in 0 .. Word - 1
    BY <1>6, <2>1
  <2>3. r - f \in Amounts
    BY <2>2 DEF Amounts
  <2> QED BY <2>3, Wrapping DEF OfInteger
<1> QED BY <1>1, <1>4, <1>5, <1>6

(* What is left of a sequence after its first k elements. *)
LEMMA RestOf ==
    ASSUME NEW V, NEW s \in Seq(V), NEW k \in 0 .. Len(s), NEW b,
           b = SubSeq(s, k + 1, Len(s))
    PROVE  /\ b \in Seq(V) /\ Len(b) = Len(s) - k
           /\ \A j \in 1 .. Len(s) - k : b[j] = s[k + j]
<1>1. PICK c : c = SubSeq(s, k + 1, Len(s))
  OBVIOUS
<1>2. c \in Seq(V) /\ Len(c) = Len(s) - k
  BY <1>1, SplitAt
<1>3. \A j \in 1 .. Len(s) - k : SubSeq(s, k + 1, Len(s))[j] = s[k + j]
  OBVIOUS
<1> QED BY <1>1, <1>2, <1>3

(* The call starts with as many inputs as cover the amount. *)
LEMMA Starting ==
    ASSUME NEW amount \in Amounts, NEW coins \in CoinLists,
           NEW shares \in ShareLists, NEW rates \in FeeRates,
           Start(amount, coins, shares, rates)
    PROVE  InTurn(pay')
<1>1. PICK l \in Nat : coins \in Seq(Coins) /\ Len(coins) = l /\ l <= MaxCoins
  <2>1. PICK n \in 1 .. MaxCoins : coins \in [1 .. n -> Coins]
    BY DEF CoinLists
  <2>2. n \in Nat /\ n <= MaxCoins
    BY PaymentAssumption
  <2> QED BY <2>1, <2>2, FunctionIsSeq
<1>2. shares \in Seq(Nat \ {0}) /\ Len(shares) <= MaxDest
  <2>1. PICK n \in 0 .. MaxDest : shares \in [1 .. n -> Share]
    BY DEF ShareLists
  <2>2. n \in Nat /\ n <= MaxDest /\ Share \subseteq Nat \ {0}
    BY PaymentAssumption
  <2>3. shares \in Seq(Share) /\ Len(shares) = n
    BY <2>1, <2>2, FunctionIsSeq
  <2> QED BY <2>2, <2>3, SeqOfMore
<1>3. PICK k, a, splits, parts :
         /\ k = First(Reached(coins, amount)) /\ a = SubSeq(coins, 1, k)
         /\ splits = [i \in DOMAIN shares |-> Split(shares, i)]
         /\ parts = [i \in DOMAIN shares |-> Part(amount, splits[i])]
  <2>1. PICK k, a : k = First(Reached(coins, amount)) /\ a = SubSeq(coins, 1, k)
    OBVIOUS
  <2>2. PICK splits : splits = [i \in DOMAIN shares |-> Split(shares, i)]
    OBVIOUS
  <2>3. PICK parts : parts = [i \in DOMAIN shares |-> Part(amount, splits[i])]
    OBVIOUS
  <2> QED BY <2>1, <2>2, <2>3
<1>4. k \in 0 .. l /\ ValueOf(a) >= amount
  <2>1. coins = SubSeq(coins, 1, l)
    BY <1>1
  <2>2. Coins \subseteq Amounts
    BY PaymentAssumption
  <2>3. coins \in Seq(Amounts)
    BY <1>1, <2>2, SeqOfMore
  <2>4. ValueOf(coins) \in Nat /\ amount \in Nat
    BY <2>3, ValueAppend, Wrapping
  <2>5. ValueOf(coins) >= amount
    BY <2>4 DEF Start
  <2>6. l \in Reached(coins, amount) /\ Reached(coins, amount) \in SUBSET Nat
    <3>0. l \in 0 .. Len(coins)
      BY <1>1
    <3>1. l \in 0 .. Len(coins) /\ ValueOf(SubSeq(coins, 1, l)) >= amount
      BY <2>1, <2>5, <3>0, Zenon
    <3>2. 0 .. Len(coins) \subseteq Nat
      OBVIOUS
    <3> QED BY <3>1, <3>2 DEF Reached
  <2>7. k \in Reached(coins, amount)
    BY <1>3, <2>6, LeastExists
  <2> QED BY <1>1, <1>3, <2>7 DEF Reached
<1>5. a \in Seq(Coins) /\ Len(a) = k
  BY <1>1, <1>3, <1>4, SplitAt
<1>6. a \in Seq(Amounts) /\ ValueOf(a) \in Amounts
  <2>1. Coins \subseteq Amounts
    BY PaymentAssumption
  <2>2. a \in Seq(Amounts)
    BY <1>5, <2>1, SeqOfMore
  <2> QED BY <2>2, ValueAppend
<1>7. /\ parts \in Seq(Amounts) /\ Len(parts) <= MaxDest
      /\ ValueOf(parts) \in Amounts /\ ValueOf(parts) <= amount
  <2>1. parts = [i \in DOMAIN shares |-> Part(amount, Split(shares, i))]
    BY <1>3
  <2>2. /\ parts \in Seq(Amounts) /\ Len(parts) = Len(shares)
        /\ ValueOf(parts) \in Amounts /\ ValueOf(parts) <= amount
    <3>1. shares \in Seq(Nat \ {0})
      BY <1>2
    <3> QED BY <2>1, <3>1, PartsAdd
  <2> QED BY <1>2, <2>2
<1>8. PICK r, t : /\ r = WithAll(NewTransaction, "txIn", a)
                  /\ t = WithAll(r, "txOut", parts)
  OBVIOUS
<1>9. "txIn" \in Side /\ "txOut" \in Side
  BY DEF Side
<1>10. Sound(r) /\ r.txIn = a
  <2>1. FilledWith(r, NewTransaction, "txIn", a)
    BY <1>6, <1>8, <1>9, NewIsSound, WithAllFills
  <2> QED BY <2>1 DEF FilledWith
<1>11. Sound(t) /\ t.cache = <<>> /\ t.txOut = parts /\ t.txIn = a
  <2>1. FilledWith(t, r, "txOut", parts)
    BY <1>7, <1>8, <1>9, <1>10, WithAllFills
  <2>2. Opposite("txOut") = "txIn"
    BY DEF Opposite
  <2> QED BY <1>10, <2>1, <2>2 DEF FilledWith
<1>12. PICK q : q = pay'
  OBVIOUS
<1>13. q = [state |-> "turn", all |-> coins, coins |-> SubSeq(coins, k + 1, l),
            amount |-> amount, splits |-> splits, found |-> ValueOf(a),
            used |-> ValueOf(parts), change |-> 0, tx |-> t,
            rates |-> rates, rate |-> 0]
  BY <1>1, <1>3, <1>8, <1>12 DEF Start
<1>14. /\ q.state = "turn" /\ q.all = coins /\ q.coins = SubSeq(coins, k + 1, l)
       /\ q.found = ValueOf(a) /\ q.used = ValueOf(parts) /\ q.change = 0
       /\ q.tx = t /\ q.rates = rates
  BY <1>13
<1>15. IsCall(q)
  BY <1>13 DEF IsCall
<1>16. SpendsBeginning(q)
  <2>1. ValueOf(parts) <= ValueOf(a)
    BY <1>4, <1>6, <1>7, Wrapping
  <2>2. k <= l
    BY <1>4
  <2> QED BY <1>1, <1>3, <1>5, <1>11, <1>14, <2>1, <2>2 DEF SpendsBeginning
<1>17. PaysOut(q, parts)
  BY <1>7, <1>11, <1>14 DEF PaysOut
<1> QED BY <1>11, <1>12, <1>14, <1>15, <1>16, <1>17 DEF InTurn

(* Adding change keeps what the turn needs. *)
LEMMA AddingChange ==
    ASSUME InTurn(pay), NEW rate \in pay.rates, AddChange(rate)
    PROVE  InTurn(pay')
<1>1. PICK p, q, t, o, v : /\ p = pay /\ q = pay' /\ t = pay.tx /\ o = pay.tx.txOut
                           /\ v = OfInteger(Remaining - FeeAt(rate))
  OBVIOUS
<1>2. FeeAt(rate) < Remaining /\ p.change = 0
  BY <1>1, FeeFacts DEF AddChange
<1>3. v \in Amounts
  BY <1>1, <1>2, FeeFacts
<1>4. InTurn(p) /\ IsTx(t) /\ Sound(t) /\ o \in Seq(Amounts) /\ t["txOut"] = o
  BY <1>1, TurnArrays DEF InTurn
<1>5. PICK u, c : u = Inserted(t, "txOut", Len(o) + 1, v) /\ c = Len(o) + 1
  OBVIOUS
<1>6. q = [p EXCEPT !.change = c, !.tx = u, !.rate = rate]
  BY <1>1, <1>5 DEF AddChange
<1>7. Sound(u) /\ u.cache = <<>> /\ u.txIn = t.txIn /\ u.txOut = Append(o, v)
  <2>1. "txOut" \in Side /\ Len(o) + 1 \in 1 .. Len(t["txOut"]) + 1
    BY <1>4 DEF Side
  <2>2. Swapped(u, t, "txOut", InsertAt(t["txOut"], Len(o) + 1, v))
    BY <1>3, <1>4, <1>5, <2>1, InsertedFollows
  <2>3. InsertAt(o, Len(o) + 1, v) = Append(o, v)
    BY <1>3, <1>4, InsertLast
  <2>4. Swapped(u, t, "txOut", Append(o, v))
    BY <1>4, <2>2, <2>3
  <2> QED BY <1>4, <2>4, SwappedIsSound DEF Swapped
<1>8. q = [state |-> p.state, all |-> p.all, coins |-> p.coins, amount |-> p.amount,
           splits |-> p.splits, found |-> p.found, used |-> p.used,
           change |-> c, tx |-> u, rates |-> p.rates, rate |-> rate]
  BY <1>4, <1>6 DEF InTurn, IsCall
<1>9. /\ q.state = p.state /\ q.all = p.all /\ q.coins = p.coins
      /\ q.found = p.found /\ q.used = p.used /\ q.change = c
      /\ q.tx = u /\ q.rates = p.rates
  BY <1>8
<1>10. IsCall(q)
  BY <1>8 DEF IsCall
<1>11. SpendsBeginning(q)
  BY <1>1, <1>4, <1>7, <1>9 DEF InTurn, SpendsBeginning
<1>12. PaysOut(q, o)
  <2>1. PICK base : PaysOut(p, base)
    BY <1>4 DEF InTurn
  <2>2. base = o
    <3>1. base \in Seq(Amounts)
      BY <2>1 DEF PaysOut
    <3>2. 0 # Len(base) + 1
      BY <3>1
    <3> QED BY <1>1, <1>2, <2>1, <3>2 DEF PaysOut
  <2> QED BY <1>3, <1>5, <1>7, <1>9, <2>1, <2>2 DEF PaysOut
<1> QED BY <1>1, <1>4, <1>7, <1>9, <1>10, <1>11, <1>12 DEF InTurn

(* So does adding an input. *)
LEMMA AddingInput ==
    ASSUME InTurn(pay), NEW rate \in pay.rates, AddInput(rate)
    PROVE  InTurn(pay')
<1>1. PICK p, q, t, i, a, k, l :
         /\ p = pay /\ q = pay' /\ t = pay.tx /\ i = pay.tx.txIn /\ a = pay.all
         /\ k = Len(i) /\ l = Len(a)
  OBVIOUS
<1>2. /\ InTurn(p) /\ IsTx(t) /\ Sound(t) /\ t["txIn"] = i
      /\ i \in Seq(Coins) /\ i \in Seq(Amounts)
      /\ p.found \in Amounts /\ p.used \in Amounts
  BY <1>1, TurnArrays DEF InTurn
<1>3. /\ a \in Seq(Coins) /\ l <= MaxCoins /\ k <= l /\ i = SubSeq(a, 1, k)
      /\ p.coins = SubSeq(a, k + 1, l) /\ p.found = ValueOf(i) /\ p.used <= p.found
  BY <1>1 DEF InTurn, SpendsBeginning
<1>4. k \in Nat /\ l \in Nat /\ MaxCoins \in Nat
  BY <1>1, <1>2, <1>3, PaymentAssumption
<1>5. k < l
  <2>1. p.coins # <<>>
    BY <1>1 DEF AddInput
  <2>2. k = l => SubSeq(a, k + 1, l) = <<>>
    BY <1>3, <1>4
  <2> QED BY <1>3, <1>4, <2>1, <2>2
<1>6. PICK c \in Coins : c = a[k + 1]
  <2>1. k + 1 \in 1 .. Len(a)
    BY <1>1, <1>4, <1>5
  <2> QED BY <1>3, <2>1
<1>7. Head(p.coins) = c /\ Tail(p.coins) = SubSeq(a, (k + 1) + 1, l)
  <2>1. PICK b : b = p.coins
    OBVIOUS
  <2>2. b \in Seq(Coins) /\ Len(b) = l - k /\ \A j \in 1 .. l - k : b[j] = a[k + j]
    <3>1. k \in 0 .. Len(a)
      BY <1>1, <1>3, <1>4
    <3>2. b = SubSeq(a, k + 1, Len(a))
      BY <1>1, <1>3, <2>1, Zenon
    <3>3. a \in Seq(Coins)
      BY <1>3
    <3>4. /\ b \in Seq(Coins) /\ Len(b) = Len(a) - k
          /\ \A j \in 1 .. Len(a) - k : b[j] = a[k + j]
      BY <3>1, <3>2, <3>3, RestOf
    <3> QED BY <1>1, <3>4
  <2>3. Head(b) = c
    <3>1. 1 \in 1 .. l - k /\ k + 1 = k + 1
      BY <1>4, <1>5
    <3> QED BY <1>6, <2>2, <3>1
  <2>4. PICK d, e : d = Tail(b) /\ e = SubSeq(a, (k + 1) + 1, l)
    OBVIOUS
  <2>5. /\ d \in Seq(Coins) /\ Len(d) = (l - k) - 1
        /\ \A j \in 1 .. (l - k) - 1 : d[j] = b[j + 1]
    <3>1. l - k \in Nat \ {0} /\ b # <<>>
      BY <1>4, <1>5, <2>2
    <3> QED BY <2>2, <2>4, <3>1
  <2>6. /\ e \in Seq(Coins) /\ Len(e) = l - (k + 1)
        /\ \A j \in 1 .. l - (k + 1) : e[j] = a[(k + 1) + j]
    <3>1. PICK m : m = k + 1
      OBVIOUS
    <3>2. m \in 0 .. Len(a) /\ e = SubSeq(a, m + 1, Len(a)) /\ a \in Seq(Coins)
      BY <1>1, <1>3, <1>4, <1>5, <2>4, <3>1
    <3>3. /\ e \in Seq(Coins) /\ Len(e) = Len(a) - m
          /\ \A j \in 1 .. Len(a) - m : e[j] = a[m + j]
      BY <3>2, RestOf
    <3> QED BY <1>1, <3>1, <3>3
  <2>7. (l - k) - 1 = l - (k + 1)
    BY <1>4
  <2>8. ASSUME NEW j \in 1 .. l - (k + 1) PROVE d[j] = e[j]
    <3>1. j \in Nat /\ j + 1 \in 1 .. l - k /\ (k + 1) + j = k + (j + 1)
      BY <1>4, <1>5
    <3>2. d[j] = b[j + 1]
      BY <2>5, <2>7
    <3>3. b[j + 1] = a[k + (j + 1)]
      BY <2>2, <3>1
    <3>4. e[j] = a[(k + 1) + j]
      BY <2>6
    <3> QED BY <3>1, <3>2, <3>3, <3>4
  <2>9. d = e
    BY <2>5, <2>6, <2>7, <2>8
  <2> QED BY <2>1, <2>3, <2>4, <2>9
<1>8. Append(i, c) = SubSeq(a, 1, k + 1)
  <2>1. PICK x, y : x = Append(i, c) /\ y = SubSeq(a, 1, k + 1)
    OBVIOUS
  <2>2. /\ x \in Seq(Coins) /\ Len(x) = k + 1 /\ x[k + 1] = c
        /\ \A j \in 1 .. k : x[j] = i[j]
    BY <1>1, <1>2, <2>1
  <2>3. \A j \in 1 .. k : i[j] = a[j]
    BY <1>1, <1>3, <1>4, <1>5
  <2>4. /\ y \in Seq(Coins) /\ Len(y) = k + 1
        /\ \A j \in 1 .. k + 1 : y[j] = a[j]
    BY <1>1, <1>3, <1>4, <1>5, <2>1
  <2>5. ASSUME NEW j \in 1 .. k + 1 PROVE x[j] = y[j]
    <3>1. CASE j = k + 1
      BY <1>6, <2>2, <2>4, <3>1
    <3>2. CASE j # k + 1
      <4>1. j \in 1 .. k
        BY <1>4, <3>2
      <4> QED BY <2>2, <2>3, <2>4, <4>1
    <3> QED BY <3>1, <3>2
  <2>6. x = y
    BY <2>2, <2>4, <2>5
  <2> QED BY <2>1, <2>6
<1>9. /\ c \in Amounts /\ ValueOf(Append(i, c)) = p.found + c
      /\ Combine(p.found, "+", c) = p.found + c /\ p.used <= p.found + c
  <2>1. Len(i) < MaxCoins
    BY <1>1, <1>3, <1>4, <1>5
  <2>2. c \in Amounts /\ ValueOf(Append(i, c)) = ValueOf(i) + c
    BY <1>2, <2>1, NoWrap
  <2>3. ValueOf(Append(i, c)) = (ValueOf(i) + c) % Word
    BY <1>2, <2>2, ValueAppend
  <2>4. Combine(p.found, "+", c) = (p.found + c) % Word
    BY Combined
  <2>5. p.used <= p.found + c
    <3>1. PICK x \in Nat, y \in Nat, z \in Nat :
             x = p.used /\ y = p.found /\ z = c /\ x <= y
      BY <1>2, <1>3, <2>2, Wrapping
    <3>2. x <= y + z
      BY <3>1
    <3> QED BY <3>1, <3>2
  <2> QED BY <1>3, <2>2, <2>3, <2>4, <2>5
<1>10. PICK u, d, f : /\ u = Inserted(t, "txIn", k + 1, c)
                      /\ d = SubSeq(a, (k + 1) + 1, l) /\ f = p.found + c
  OBVIOUS
<1>11. q = [p EXCEPT !.coins = d, !.found = f, !.tx = u, !.rate = rate]
  BY <1>1, <1>7, <1>9, <1>10 DEF AddInput
<1>12. /\ Sound(u) /\ u.cache = <<>> /\ u.txOut = t.txOut
       /\ u.txIn = SubSeq(a, 1, k + 1)
  <2>1. "txIn" \in Side /\ k + 1 \in 1 .. Len(t["txIn"]) + 1
    BY <1>1, <1>2, <1>4 DEF Side
  <2>2. Swapped(u, t, "txIn", InsertAt(t["txIn"], k + 1, c))
    BY <1>2, <1>9, <1>10, <2>1, InsertedFollows
  <2>3. InsertAt(i, k + 1, c) = Append(i, c)
    BY <1>1, <1>2, InsertLast
  <2>4. Swapped(u, t, "txIn", SubSeq(a, 1, k + 1))
    BY <1>2, <1>8, <2>2, <2>3
  <2> QED BY <1>2, <2>4, SwappedIsSound DEF Swapped
<1>13. q = [state |-> p.state, all |-> p.all, coins |-> d, amount |-> p.amount,
            splits |-> p.splits, found |-> f, used |-> p.used,
            change |-> p.change, tx |-> u, rates |-> p.rates, rate |-> rate]
  BY <1>2, <1>11 DEF InTurn, IsCall
<1>14. /\ q.state = p.state /\ q.all = p.all /\ q.coins = d
       /\ q.found = f /\ q.used = p.used /\ q.change = p.change
       /\ q.tx = u /\ q.rates = p.rates
  BY <1>13
<1>15. IsCall(q)
  BY <1>13 DEF IsCall
<1>16. SpendsBeginning(q)
  <2>1. Len(u.txIn) = k + 1 /\ k + 1 <= l
    <3>1. k + 1 \in 0 .. Len(a)
      BY <1>1, <1>4, <1>5
    <3> QED BY <1>1, <1>3, <1>12, <3>1, SplitAt
  <2>2. f = ValueOf(u.txIn) /\ p.used <= f
    BY <1>8, <1>9, <1>10, <1>12
  <2> QED BY <1>1, <1>3, <1>10, <1>12, <1>14, <2>1, <2>2 DEF SpendsBeginning
<1>17. \E base : PaysOut(q, base)
  <2>1. PICK base : PaysOut(p, base)
    BY <1>2 DEF InTurn
  <2>2. PaysOut(q, base)
    BY <1>1, <1>12, <1>14, <2>1 DEF PaysOut
  <2> QED BY <2>2
<1> QED BY <1>1, <1>2, <1>12, <1>14, <1>15, <1>16, <1>17 DEF InTurn

(* A payment that is pushed, as PaymentBalances says it. *)
Balances(p) ==
    /\ p.tx.txIn = SubSeq(p.all, 1, Len(p.tx.txIn))
    /\ ValueOf(p.tx.txOut) + p.tx.cache.fee = ValueOf(p.tx.txIn)
    /\ p.tx.cache.fee = p.rate * TrueBytes(p.tx)
    /\ p.tx.cache = Cached([p.tx EXCEPT !.cache = <<>>]).cache

(* z is t, with these outputs. *)
Redrawn(z, t, outputs) ==
    /\ IsTx(z) /\ z.txIn = t.txIn /\ z.txOut = outputs
    /\ z.bytes = t.bytes /\ z.cache = t.cache /\ z.bytes = TrueBytes(z)

(* Another value for the change keeps the length. *)
LEMMA ChangeRedrawn ==
    ASSUME NEW t, IsTx(t), t.bytes = TrueBytes(t), NEW base \in Seq(Amounts),
           NEW w \in Amounts, NEW v \in Amounts, t.txOut = Append(base, w),
           NEW k, k = Len(base) + 1, NEW z, z = [t EXCEPT !.txOut[k] = v]
    PROVE  Redrawn(z, t, Append(base, v))
<1>1. PICK o, n : o = t.txOut /\ n = [o EXCEPT ![k] = v]
  OBVIOUS
<1>2. /\ o \in Seq(Slot) /\ o \in Seq(Amounts) /\ Len(o) = k /\ k \in 1 .. Len(o)
      /\ o[k] = w /\ \A j \in 1 .. Len(base) : o[j] = base[j]
  BY <1>1 DEF IsTx
<1>3. n = Append(base, v)
  <2>1. PICK a : a = Append(base, v)
    OBVIOUS
  <2>2. /\ a \in Seq(Amounts) /\ Len(a) = k /\ a[k] = v
        /\ \A j \in 1 .. Len(base) : a[j] = base[j]
    BY <2>1
  <2>3. n \in Seq(Amounts) /\ Len(n) = k /\ \A j \in 1 .. k : n[j] = IF j = k THEN v ELSE o[j]
    <3>1. o \in Seq(Amounts) /\ k \in 1 .. Len(o)
      BY <1>2
    <3>2. /\ [o EXCEPT ![k] = v] \in Seq(Amounts)
          /\ Len([o EXCEPT ![k] = v]) = Len(o)
          /\ \A j \in 1 .. Len(o) : [o EXCEPT ![k] = v][j] = IF j = k THEN v ELSE o[j]
      BY <3>1
    <3> QED BY <1>1, <1>2, <3>2
  <2>4. ASSUME NEW j \in 1 .. k PROVE n[j] = a[j]
    <3>1. j = k \/ j \in 1 .. Len(base)
      OBVIOUS
    <3> QED BY <1>2, <2>2, <2>3, <3>1
  <2>5. n = a
    BY <2>2, <2>3, <2>4
  <2> QED BY <2>1, <2>5
<1>4. v \in Slot /\ w \in Slot /\ v # Empty /\ w # Empty
  BY WordAssumption DEF Slot, Amounts, Empty
<1>5. n \in Seq(Slot) /\ Len(n) = Len(o) /\ Count(n) = Count(o)
  <2>1. /\ n \in Seq(Slot) /\ Len(n) = Len(o)
        /\ Count(n) = Count(o) - Count(<<o[k]>>) + Count(<<v>>)
    <3>1. o \in Seq(Slot) /\ k \in 1 .. Len(o) /\ v \in Slot
      BY <1>2, <1>4
    <3>2. /\ [o EXCEPT ![k] = v] \in Seq(Slot)
          /\ Len([o EXCEPT ![k] = v]) = Len(o)
          /\ Count([o EXCEPT ![k] = v]) = Count(o) - Count(<<o[k]>>) + Count(<<v>>)
      BY <3>1, CountAround
    <3> QED BY <1>1, <3>2
  <2>2. Count(<<w>>) = 1 /\ Count(<<v>>) = 1
    BY <1>4, CountOne
  <2>3. Count(o) \in Nat
    BY <1>2, CountBounded
  <2> QED BY <1>2, <2>1, <2>2, <2>3
<1>6. Weight("txOut", n) = Weight("txOut", o)
  <2>1. "txOut" \in Side
    BY DEF Side
  <2>2. /\ Weight("txOut", n) = Bytes["txOut"] * Count(n)
        /\ Weight("txOut", o) = Bytes["txOut"] * Count(o)
    BY <1>2, <1>5, <2>1, Weights
  <2> QED BY <1>5, <2>2
<1>7. z = [txIn |-> t.txIn, txOut |-> n, bytes |-> t.bytes, cache |-> t.cache]
  BY <1>1 DEF IsTx
<1>8. z.txIn = t.txIn /\ z.txOut = n /\ z.bytes = t.bytes /\ z.cache = t.cache
  BY <1>7
<1>9. IsTx(z)
  BY <1>5, <1>7, <1>8 DEF IsTx
<1>10. TrueBytes(z) = TrueBytes(t)
  BY <1>1, <1>5, <1>6, <1>8 DEF TrueBytes
<1> QED BY <1>3, <1>8, <1>9, <1>10 DEF Redrawn

(* What is pushed balances. *)
LEMMA PushedBalances ==
    ASSUME InTurn(pay), NEW rate \in pay.rates, Push(rate)
    PROVE  pay'.state = "pushed" /\ Balances(pay')
<1>1. PICK p, q, t, i, v, k :
         /\ p = pay /\ q = pay' /\ t = pay.tx /\ i = pay.tx.txIn
         /\ v = OfInteger(Remaining - FeeAt(rate)) /\ k = pay.change
  OBVIOUS
<1>2. PICK f, r, x, y \in Nat :
         /\ f = FeeAt(rate) /\ f = rate * t.bytes /\ x = p.found /\ y = p.used
         /\ r = x - y /\ v = r - f /\ f < r /\ v \in Amounts
         /\ x \in Amounts /\ y \in Amounts /\ f \in Amounts /\ r = Remaining
  <2>1. FeeAt(rate) < Remaining
    BY FeeFacts DEF Push
  <2>2. /\ FeeAt(rate) = rate * pay.tx.bytes /\ FeeAt(rate) \in Amounts
        /\ Remaining \in Amounts /\ Remaining = pay.found - pay.used
        /\ OfInteger(Remaining - FeeAt(rate)) = Remaining - FeeAt(rate)
        /\ Remaining - FeeAt(rate) \in Amounts
    BY <2>1, FeeFacts
  <2>3. pay.found \in Amounts /\ pay.used \in Amounts
    BY TurnArrays
  <2> QED BY <1>1, <2>1, <2>2, <2>3, Wrapping
<1>3. /\ IsTx(t) /\ t.bytes = TrueBytes(t) /\ t.cache = <<>>
      /\ k > 0 /\ InTurn(p) /\ p.tx = t /\ IsCall(p)
  BY <1>1 DEF InTurn, Sound, Push
<1>4. PICK base : PaysOut(p, base)
  BY <1>3 DEF InTurn
<1>5. base \in Seq(Amounts) /\ y = ValueOf(base) /\ k = Len(base) + 1
  BY <1>1, <1>2, <1>3, <1>4 DEF PaysOut
<1>6. PICK w \in Amounts : t.txOut = Append(base, w)
  BY <1>1, <1>3, <1>4 DEF PaysOut
<1>7. PICK z : z = [t EXCEPT !.txOut[k] = v]
  OBVIOUS
<1>8. /\ IsTx(z) /\ z.txIn = i /\ z.txOut = Append(base, v)
      /\ z.bytes = t.bytes /\ z.cache = <<>> /\ z.bytes = TrueBytes(z)
  <2>1. v \in Amounts /\ base \in Seq(Amounts) /\ k = Len(base) + 1
    BY <1>2, <1>5
  <2>2. /\ IsTx(z) /\ z.txIn = t.txIn /\ z.txOut = Append(base, v)
        /\ z.bytes = t.bytes /\ z.cache = t.cache /\ z.bytes = TrueBytes(z)
    <3>1. IsTx(t) /\ t.bytes = TrueBytes(t) /\ t.txOut = Append(base, w)
      BY <1>3, <1>6
    <3>2. Redrawn(z, t, Append(base, v))
      BY <1>7, <2>1, <3>1, ChangeRedrawn
    <3> QED BY <3>2 DEF Redrawn
  <2> QED BY <1>1, <1>3, <2>2
<1>9. PICK c, u : /\ c = [inputs |-> ValueOf(z.txIn), outputs |-> ValueOf(z.txOut),
                          fee |-> Fee(z), rate |-> <<Fee(z), z.bytes>>]
                  /\ u = [z EXCEPT !.cache = c]
  OBVIOUS
<1>10. Cached(z) = u
  BY <1>8, <1>9 DEF Cached
<1>11. u = [txIn |-> z.txIn, txOut |-> z.txOut, bytes |-> z.bytes, cache |-> c]
  BY <1>8, <1>9 DEF IsTx
<1>12. u.txIn = z.txIn /\ u.txOut = z.txOut /\ u.bytes = z.bytes /\ u.cache = c
  BY <1>11
<1>13. [u EXCEPT !.cache = <<>>] = z
  <2>1. [u EXCEPT !.cache = <<>>]
          = [txIn |-> z.txIn, txOut |-> z.txOut, bytes |-> z.bytes, cache |-> <<>>]
    BY <1>11
  <2> QED BY <1>8, <2>1 DEF IsTx
<1>14. ValueOf(i) = x
  BY <1>1, <1>2, <1>3 DEF InTurn, SpendsBeginning
<1>15. ValueOf(z.txOut) = x - f
  <2>1. ValueOf(Append(base, v)) = (y + v) % Word
    BY <1>2, <1>5, ValueAppend
  <2>2. y + v = x - f
    BY <1>2
  <2>3. (x - f) % Word = x - f
    <3>1. PICK m : m = x - f
      OBVIOUS
    <3>2. x < Word /\ Word \in Nat /\ m \in Nat /\ m <= x
      BY <1>2, <3>1, Wrapping
    <3>3. m \in Amounts
      BY <3>2 DEF Amounts
    <3> QED BY <3>1, <3>3, Wrapping
  <2> QED BY <1>8, <2>1, <2>2, <2>3
<1>16. Fee(z) = f
  <2>1. Fee(z) = (x - (x - f)) % Word
    BY <1>8, <1>14, <1>15, Combined DEF Fee
  <2>2. x - (x - f) = f
    BY <1>2
  <2> QED BY <1>2, <2>1, <2>2, Wrapping
<1>17. q = [p EXCEPT !.state = "pushed", !.tx = u, !.rate = rate]
  BY <1>1, <1>7, <1>10 DEF Push
<1>18. q = [state |-> "pushed", all |-> p.all, coins |-> p.coins,
            amount |-> p.amount, splits |-> p.splits, found |-> p.found,
            used |-> p.used, change |-> p.change, tx |-> u,
            rates |-> p.rates, rate |-> rate]
  BY <1>3, <1>17 DEF IsCall
<1>19. q.state = "pushed" /\ q.all = p.all /\ q.tx = u /\ q.rate = rate
  BY <1>18
<1>20. Balances(q)
  <2>1. u.txIn = SubSeq(p.all, 1, Len(u.txIn))
    BY <1>1, <1>3, <1>8, <1>12 DEF InTurn, SpendsBeginning
  <2>2. u.cache.fee = f
    BY <1>9, <1>12, <1>16
  <2>3. ValueOf(u.txOut) + f = ValueOf(u.txIn)
    <3>1. (x - f) + f = x
      BY <1>2
    <3>2. u.txOut = z.txOut /\ u.txIn = i
      BY <1>8, <1>12
    <3> QED BY <1>14, <1>15, <3>1, <3>2
  <2>4. f = rate * TrueBytes(u)
    <3>1. TrueBytes(u) = TrueBytes(z)
      BY <1>12 DEF TrueBytes
    <3> QED BY <1>2, <1>8, <3>1
  <2>5. u.cache = Cached([u EXCEPT !.cache = <<>>]).cache
    BY <1>10, <1>13
  <2> QED BY <1>19, <2>1, <2>2, <2>3, <2>4, <2>5 DEF Balances
<1> QED BY <1>1, <1>19, <1>20

(* Every step of a call keeps the invariant. *)
LEMMA PayStep ==
    ASSUME PayInv, PayNext
    PROVE  PayInv'
<1>1. ASSUME NEW q \in Quantities, NEW unit \in Units, NEW coins \in CoinLists,
             NEW shares \in ShareLists, NEW rates \in FeeRates,
             Start(OfPar(q, unit, 0), coins, shares, rates)
      PROVE  PayInv'
  <2>1. q \in Nat /\ unit \in DOMAIN Unit
    BY PaymentAssumption
  <2>2. PICK amount \in Amounts : amount = OfPar(q, unit, 0)
    BY <2>1, ParIsAmount
  <2>3. InTurn(pay')
    BY <1>1, <2>2, Starting
  <2> QED BY <2>3 DEF PayInv, InTurn, IsCall, SpendsBeginning, PaysOut
<1>2. ASSUME Turn PROVE PayInv'
  <2>1. pay.state = "turn"
    BY <1>2 DEF Turn
  <2>2. InTurn(pay)
    BY <2>1 DEF PayInv
  <2>3. PICK rate \in pay.rates :
           AddChange(rate) \/ Push(rate) \/ AddInput(rate) \/ GiveUp(rate)
    BY <1>2 DEF Turn
  <2>4. CASE AddChange(rate) \/ AddInput(rate)
    <3>1. InTurn(pay')
      BY <2>2, <2>4, AddingChange, AddingInput
    <3> QED BY <3>1 DEF PayInv, InTurn, IsCall, SpendsBeginning, PaysOut
  <2>5. CASE Push(rate)
    <3>1. pay'.state = "pushed" /\ Balances(pay')
      BY <2>2, <2>5, PushedBalances
    <3> QED BY <3>1 DEF PayInv, PaymentBalances, Balances
  <2>6. CASE GiveUp(rate)
    <3>1. pay' = [pay EXCEPT !.state = "given up", !.rate = rate]
      BY <2>6 DEF GiveUp
    <3>2. pay'.state = "given up"
      BY <2>2, <3>1 DEF InTurn, IsCall
    <3> QED BY <3>2 DEF PayInv
  <2> QED BY <2>3, <2>4, <2>5, <2>6
<1> QED BY <1>1, <1>2 DEF PayNext

(* The invariant holds before a call, and says what the run checks. *)
LEMMA PayFacts ==
    /\ PayInit => PayInv
    /\ PayInv => PaymentBalances
<1>1. PayInit => PayInv
  BY DEF PayInit, NoCall, PayInv
<1>2. PayInv => PaymentBalances
  BY DEF PayInv, InTurn, PaymentBalances
<1> QED BY <1>1, <1>2

-----------------------------------------------------------------------------
(* The table of peers.  The map by gates has just the listed peers, and    *)
(* every listed peer keeps a row of its own in the map of rows: a call for *)
(* one peer takes away only rows that end in that peer, and updatePeer()   *)
(* takes away none.                                                        *)
GatesAreListed == gateMap = {<<p, p>> : p \in listed}
ListedHasRow == \A p \in listed : \E row \in peers : row[3] = p

PeerInv == GatesAreListed /\ ListedHasRow

(* A row that is taken away for one peer is no row of another one. *)
LEMMA KeyEndsInPeer == \A p : Key(p)[3] = p
  BY DEF Key

(* addPeer() gives the new peer its row and its gate. *)
LEMMA AddPreserves ==
  ASSUME PeerInv, NEW p \in Peer, AddPeer(p)
  PROVE  PeerInv'
<1>1. GatesAreListed'
  BY DEF PeerInv, GatesAreListed, AddPeer
<1>2. ListedHasRow'
  <2> SUFFICES ASSUME NEW q \in listed'
               PROVE  \E row \in peers' : row[3] = q
    BY DEF ListedHasRow
  <2>1. CASE q = p
    <3>1. Key(p) \in peers'
      BY DEF AddPeer
    <3> QED
      BY <2>1, <3>1, KeyEndsInPeer
  <2>2. CASE q # p
    <3>1. q \in listed
      BY <2>2 DEF AddPeer
    <3>2. PICK row \in peers : row[3] = q
      BY <3>1 DEF PeerInv, ListedHasRow
    <3>3. row \in peers'
      BY DEF AddPeer
    <3> QED
      BY <3>2, <3>3
  <2> QED
    BY <2>1, <2>2
<1> QED
  BY <1>1, <1>2 DEF PeerInv

(* removePeer() leaves the rows and the gates of the other peers. *)
LEMMA RemovePreserves ==
  ASSUME PeerInv, NEW p \in Peer, RemovePeer(p)
  PROVE  PeerInv'
<1>1. GatesAreListed'
  BY DEF PeerInv, GatesAreListed, RemovePeer
<1>2. ListedHasRow'
  <2> SUFFICES ASSUME NEW q \in listed'
               PROVE  \E row \in peers' : row[3] = q
    BY DEF ListedHasRow
  <2>1. q \in listed /\ q # p
    BY DEF RemovePeer
  <2>2. PICK row \in peers : row[3] = q
    BY <2>1 DEF PeerInv, ListedHasRow
  <2>3. row # Key(p)
    BY <2>1, <2>2, KeyEndsInPeer
  <2>4. row \in peers'
    BY <2>3 DEF RemovePeer
  <2> QED
    BY <2>2, <2>4
<1> QED
  BY <1>1, <1>2 DEF PeerInv

(* A change of address puts back the rows that it takes away. *)
LEMMA ChangePreserves ==
  ASSUME PeerInv, NEW p \in Peer, NEW new, Change(p, new)
  PROVE  PeerInv'
<1>1. GatesAreListed'
  BY DEF PeerInv, GatesAreListed, Change
<1>2. peers \subseteq peers'
  BY DEF Change, UpdatePeer
<1>3. ListedHasRow'
  BY <1>2 DEF PeerInv, ListedHasRow, Change
<1> QED
  BY <1>1, <1>3 DEF PeerInv

(* So does every call. *)
LEMMA PeerStep ==
    ASSUME PeerInv, PeerNext
    PROVE  PeerInv'
<1>1. ASSUME NEW p \in Peer, AddPeer(p) PROVE PeerInv'
  BY <1>1, AddPreserves
<1>2. ASSUME NEW p \in Peer, RemovePeer(p) PROVE PeerInv'
  BY <1>2, RemovePreserves
<1>3. ASSUME NEW p \in Peer, NEW a \in Address, SetAddress(p, a)
      PROVE  PeerInv'
  BY <1>3, ChangePreserves DEF SetAddress
<1>4. ASSUME NEW p \in Peer, NEW n \in Port, SetPort(p, n)
      PROVE  PeerInv'
  BY <1>4, ChangePreserves DEF SetPort
<1> QED BY <1>1, <1>2, <1>3, <1>4 DEF PeerNext

(* An empty table keeps all this, and a table that does finds every peer.  *)
LEMMA PeerFacts ==
    /\ PeerInit => PeerInv
    /\ PeerInv => PeersStayReachable
<1>1. PeerInit => PeerInv
  BY DEF PeerInit, PeerInv, GatesAreListed, ListedHasRow
<1>2. PeerInv => PeersStayReachable
  <2> SUFFICES ASSUME PeerInv, NEW p \in Peer
               PROVE  IF p \in listed THEN ByGate(p) = {p} /\ p \in AllPeers
                                      ELSE ByGate(p) = {}
    BY DEF PeersStayReachable
  <2>1. \A q : q \in ByGate(p) <=> <<p, q>> \in gateMap
    <3>1. ByGate(p) \subseteq {q \in listed : <<p, q>> \in gateMap}
      BY DEF PeerInv, GatesAreListed, ByGate
    <3>2. ASSUME NEW q, <<p, q>> \in gateMap PROVE q \in ByGate(p)
      <4>1. <<p, q>>[1] = p /\ <<p, q>>[2] = q
        OBVIOUS
      <4> QED
        BY <3>2, <4>1 DEF ByGate
    <3> QED
      BY <3>1, <3>2
  <2>2. p \in listed => p \in AllPeers
    BY DEF PeerInv, ListedHasRow, AllPeers
  <2>3. \A q : <<p, q>> \in gateMap <=> (q = p /\ p \in listed)
    BY DEF PeerInv, GatesAreListed
  <2> QED
    BY <2>1, <2>2, <2>3
<1> QED BY <1>1, <1>2

(* What the table keeps, whatever calls are made. *)
THEOREM TableKeepsPeers == PeerSpec => []PeerInv
<1>1. PeerInit => PeerInv
  BY PeerFacts
<1>2. PeerInv /\ [PeerNext]_peerVars => PeerInv'
  <2> SUFFICES ASSUME PeerInv, [PeerNext]_peerVars
               PROVE  PeerInv'
    OBVIOUS
  <2>1. CASE UNCHANGED peerVars
    BY <2>1 DEF peerVars, PeerInv, GatesAreListed, ListedHasRow
  <2> QED BY <2>1, PeerStep
<1> QED
  BY <1>1, <1>2, PTL DEF PeerSpec

(* A packet at a gate is taken for one of the peer of that gate, and       *)
(* messages go to every peer in the table, whatever addresses they         *)
(* announced.                                                              *)
THEOREM StaysReachable == PeerSpec => []PeersStayReachable
<1>1. PeerInv => PeersStayReachable
  BY PeerFacts
<1> QED
  BY <1>1, TableKeepsPeers, PTL

-----------------------------------------------------------------------------
(* Hashes.  The digits of a hash say its number, as they are read from the *)
(* highest one on; the exponent and the mantissa that the operations read  *)
(* lead that number, by as much as the mantissa can hold.  So comparing    *)
(* exponents, mantissas or digits comes to the same.  The bitwise          *)
(* operators work on the digits apart, the radix being a power of two.     *)

(* The digits: an even number of them, four at least. *)
LEMMA RadixFacts ==
    /\ Root \in Nat /\ Root >= 2
    /\ Radix \in Nat /\ Radix >= 4 /\ Radix = Root * Root
    /\ Radix \div 2 \in Nat /\ 2 * (Radix \div 2) = Radix
<1>1. Root \in Nat /\ Root >= 2 /\ Root % 2 = 0
  BY HashAssumption
<1>2. PICK r \in Nat \ {0} : Root = 2 * r
  <2>1. Root \div 2 \in Nat /\ Root = 2 * (Root \div 2)
    BY <1>1
  <2>2. Root \div 2 # 0
    BY <1>1, <2>1
  <2> QED BY <2>1, <2>2
<1>3. Radix = Root * Root
  BY DEF Radix
<1>4. r * r \in Nat /\ r * r >= 1
  <2>1. PICK q \in Nat : r = q + 1
    <3>1. r - 1 \in Nat /\ r = (r - 1) + 1
      OBVIOUS
    <3> QED BY <3>1
  <2>2. r * r = q * q + 2 * q + 1 /\ q * q \in Nat
    BY <2>1
  <2> QED BY <2>2
<1>5. Root * Root = 4 * (r * r)
  BY <1>2
<1>6. PICK s \in Nat : s = r * r /\ s >= 1
  BY <1>4
<1>7. Radix = 4 * s
  BY <1>3, <1>5, <1>6
<1>8. Radix \div 2 = 2 * s
  BY <1>7
<1> QED BY <1>1, <1>3, <1>6, <1>7, <1>8

(* Their powers. *)
LEMMA RadixPowers ==
    /\ RadixTo(0) = 1 /\ RadixTo(1) = Radix
    /\ \A k \in Nat : /\ RadixTo(k) \in Nat \ {0}
                      /\ RadixTo(k + 1) = Radix * RadixTo(k)
<1>1. Root \in Nat \ {0}
  BY RadixFacts
<1>2. PICK f \in [Nat -> Nat \ {0}] :
         /\ f = [k \in Nat |-> IF k = 0 THEN 1 ELSE Root * f[k - 1]]
         /\ f[0] = 1 /\ \A k \in Nat : f[k + 1] = Root * f[k]
  BY <1>1, PowersExist
<1>3. f = [k \in Nat |-> IF k = 0 THEN 1 ELSE Root * f[k - 1]]
  BY <1>2
<1>4. RootTo = [k \in Nat |-> IF k = 0 THEN 1 ELSE Root * RootTo[k - 1]]
  BY <1>3 DEF RootTo
<1>5. RootTo[0] = 1 /\ \A k \in Nat : RootTo[k + 1] = Root * RootTo[k]
  <2>1. RootTo[0] = 1
    BY <1>4
  <2>2. ASSUME NEW k \in Nat PROVE RootTo[k + 1] = Root * RootTo[k]
    <3>1. k + 1 \in Nat /\ k + 1 # 0 /\ (k + 1) - 1 = k
      OBVIOUS
    <3> QED BY <1>4, <3>1
  <2> QED BY <2>1, <2>2
<1>6. \A k \in Nat : RootTo[k] \in Nat \ {0}
  <2> DEFINE T == {k \in Nat : RootTo[k] \in Nat \ {0}}
  <2>1. 0 \in T
    BY <1>5
  <2>2. ASSUME NEW k \in Nat, k \in T PROVE k + 1 \in T
    <3>1. Root * RootTo[k] \in Nat \ {0}
      BY <1>1, <2>2
    <3> QED BY <1>5, <3>1
  <2> HIDE DEF T
  <2>3. Nat \subseteq T
    BY <2>1, <2>2, Induction
  <2> QED BY <2>3 DEF T
<1>7. ASSUME NEW k \in Nat
      PROVE  RadixTo(k) \in Nat \ {0} /\ RadixTo(k + 1) = Radix * RadixTo(k)
  <2>1. PICK j \in Nat : j = 2 * k /\ 2 * (k + 1) = (j + 1) + 1
    OBVIOUS
  <2>2. RootTo[j] \in Nat \ {0} /\ RootTo[(j + 1) + 1] = Root * (Root * RootTo[j])
    BY <1>5, <1>6
  <2>3. PICK p \in Nat \ {0} : p = RootTo[j]
    BY <2>2
  <2>4. Root * (Root * p) = (Root * Root) * p
    BY <1>1
  <2>5. RadixTo(k + 1) = Root * (Root * p) /\ RadixTo(k) = p
    BY <2>1, <2>2, <2>3 DEF RadixTo
  <2> QED BY <2>3, <2>4, <2>5, RadixFacts
<1>8. RadixTo(0) = 1
  BY <1>5 DEF RadixTo
<1>9. RadixTo(1) = Radix
  <2>1. RadixTo(0 + 1) = Radix * RadixTo(0) /\ 0 + 1 = 1
    BY <1>7
  <2> QED BY <1>8, <2>1, RadixFacts
<1> QED BY <1>7, <1>8, <1>9

(* Exponents add up. *)
LEMMA RadixAdds ==
    ASSUME NEW j \in Nat, NEW k \in Nat
    PROVE  RadixTo(j + k) = RadixTo(j) * RadixTo(k)
<1>1. PICK p \in Nat : p = RadixTo(j)
  BY RadixPowers
<1> DEFINE T == {i \in Nat : RadixTo(j + i) = p * RadixTo(i)}
<1>2. 0 \in T
  BY <1>1, RadixPowers
<1>3. ASSUME NEW i \in Nat, i \in T PROVE i + 1 \in T
  <2>1. PICK q \in Nat, r \in Nat : q = RadixTo(i) /\ r = Radix
    BY RadixPowers, RadixFacts
  <2>2. RadixTo(j + i) = p * q
    BY <1>3, <2>1
  <2>3. j + i \in Nat /\ (j + i) + 1 = j + (i + 1)
    OBVIOUS
  <2>4. RadixTo((j + i) + 1) = r * (p * q) /\ RadixTo(i + 1) = r * q
    BY <2>1, <2>2, <2>3, RadixPowers
  <2>5. r * (p * q) = p * (r * q)
    OBVIOUS
  <2> QED BY <2>3, <2>4, <2>5
<1> HIDE DEF T
<1>4. Nat \subseteq T
  BY <1>2, <1>3, Induction
<1> QED BY <1>1, <1>4 DEF T

(* Horner's scheme adds one digit after another. *)
LEMMA HornerUnfolds ==
    ASSUME NEW base \in Nat, NEW s \in Seq(Nat)
    PROVE  \E f \in [0 .. Len(s) -> Nat] :
              /\ f[0] = 0
              /\ \A i \in 1 .. Len(s) : f[i] = f[i - 1] * base + s[i]
              /\ f[Len(s)] = Horner(s, base)
<1> DEFINE N == Len(s)
           G == [i \in 1 .. N |-> [v \in Nat |-> v * base + s[i]]]
           Val(c, S) == IF S = {} THEN 0
                        ELSE c[S \ {Max(S)}] * base + s[Max(S)]
           D == SUBSET (1 .. N)
           c == CHOOSE c : c = [S \in D |-> Val(c, S)]
<1>1. N \in Nat /\ DOMAIN s = 1 .. N
  OBVIOUS
<1>2. 0 \in Nat
  OBVIOUS
<1>3. \A i \in 1 .. N : \A v \in Nat : v * base + s[i] \in Nat
  OBVIOUS
<1>4. G \in [1 .. N -> [Nat -> Nat]]
  BY <1>3
<1>5. PICK it \in [D -> Nat] : Unfolds(it, N, 0, G)
  <2> HIDE DEF G, N
  <2> QED BY <1>1, <1>2, <1>4, Unfolding
<1>6. ASSUME NEW S \in D PROVE it[S] = Val(it, S)
  <2>1. CASE S = {}
    BY <1>5, <2>1 DEF Unfolds
  <2>2. CASE S # {}
    <3>1. Max(S) \in 1 .. N /\ S \ {Max(S)} \in D
      BY <1>5, <2>2 DEF Unfolds
    <3>2. it[S \ {Max(S)}] \in Nat /\ it[S] = G[Max(S)][it[S \ {Max(S)}]]
      BY <1>5, <2>2, <3>1 DEF Unfolds
    <3> QED BY <3>1, <3>2, <2>2
  <2> QED BY <2>1, <2>2
<1>7. it = [S \in D |-> Val(it, S)]
  <2> HIDE DEF Val, D
  <2> QED BY <1>5, <1>6
<1>8. c = [S \in D |-> Val(c, S)]
  <2> HIDE DEF Val, D
  <2> QED BY <1>7
<1>9. Horner(s, base) = c[1 .. N]
  BY <1>1 DEF Horner, FoldLeft, MapThenFoldSet
<1> HIDE DEF c
<1> DEFINE f == [i \in 0 .. N |-> c[1 .. i]]
<1>10. f[0] = 0
  <2>1. 1 .. 0 \in D /\ 1 .. 0 = {} /\ 0 \in 0 .. N
    BY <1>1
  <2> QED BY <2>1, <1>8
<1>11. ASSUME NEW i \in 1 .. N PROVE f[i] = f[i - 1] * base + s[i]
  <2>1. /\ 1 .. i \in D /\ i - 1 \in 0 .. N /\ i \in Nat \ {0}
        /\ i \in 0 .. N
    BY <1>1
  <2>2. c[1 .. i] = Val(c, 1 .. i)
    <3> HIDE DEF Val, D
    <3> QED BY <2>1, <1>8
  <2>3. c[1 .. i] = c[1 .. (i - 1)] * base + s[i]
    BY <2>1, <2>2, IterationStep
  <2> QED BY <2>1, <2>3
<1>12. \A i \in 1 .. N : f[i - 1] \in Nat => f[i] \in Nat
  <2> HIDE DEF f, N
  <2> QED BY <1>3, <1>11
<1>13. f \in [0 .. N -> Nat]
  <2> HIDE DEF N
  <2>1. \A i \in 0 .. N : f[i] \in Nat
    <3> HIDE DEF f
    <3> QED BY <1>1, <1>2, <1>10, <1>12, StaysIn
  <2> QED BY <2>1
<1>14. f[N] = c[1 .. N]
  BY <1>1
<1> HIDE DEF f, N
<1>15. f[N] = Horner(s, base)
  BY <1>9, <1>14, Zenon
<1> QED BY <1>10, <1>11, <1>13, <1>15 DEF N

(* The digits. *)
Digit == 0 .. Radix - 1

(* f[i] is the number that the first i digits of x say. *)
Reads(f, x) ==
    /\ f \in [0 .. MaxExponent -> Nat]
    /\ f[0] = 0
    /\ \A i \in Places : f[i + 1] = f[i] * Radix + x[i]

(* The places of the digits. *)
LEMMA PlaceFacts ==
    /\ MaxExponent \in Nat /\ MaxExponent > 5
    /\ Places = 0 .. MaxExponent - 1
    /\ \A i \in Places : i \in Nat /\ i < MaxExponent /\ i + 1 \in 1 .. MaxExponent
    /\ \A i \in 0 .. MaxExponent : i \in Places \/ i = MaxExponent
<1>1. MaxExponent \in Nat
  BY HashAssumption
<1>2. MaxExponent > 5
  BY StoredHashAssumption
<1> QED BY <1>1, <1>2 DEF Places

(* The number of a hash is what all its digits say. *)
LEMMA NumberReads ==
    ASSUME NEW h, BytesCopy(h) \in [Places -> Nat]
    PROVE  \E f : Reads(f, BytesCopy(h)) /\ Number(h) = f[MaxExponent]
<1> DEFINE x == BytesCopy(h)
           s == [i \in 1 .. MaxExponent |-> x[i - 1]]
<1>1. MaxExponent \in Nat /\ Radix \in Nat
  BY PlaceFacts, RadixFacts
<1>2. \A i \in 1 .. MaxExponent : i - 1 \in Places
  BY <1>1 DEF Places
<1>3. s \in [1 .. MaxExponent -> Nat]
  <2> HIDE DEF x
  <2> QED BY <1>2 DEF x
<1>4. s \in Seq(Nat) /\ Len(s) = MaxExponent
  <2> HIDE DEF s
  <2> QED BY <1>1, <1>3, FunctionIsSeq
<1>5. PICK t \in Seq(Nat) : t = s
  BY <1>4
<1>6. PICK f \in [0 .. Len(t) -> Nat] :
         /\ f[0] = 0
         /\ \A i \in 1 .. Len(t) : f[i] = f[i - 1] * Radix + t[i]
         /\ f[Len(t)] = Horner(t, Radix)
  BY <1>1, HornerUnfolds
<1>7. Len(t) = MaxExponent
  BY <1>4, <1>5
<1>8. Number(h) = f[MaxExponent]
  BY <1>5, <1>6, <1>7 DEF Number
<1>9. ASSUME NEW i \in Places PROVE f[i + 1] = f[i] * Radix + x[i]
  <2>1. i + 1 \in 1 .. MaxExponent /\ (i + 1) - 1 = i
    BY <1>1 DEF Places
  <2>2. t[i + 1] = x[i]
    BY <1>5, <2>1
  <2> HIDE DEF x, s
  <2> QED BY <1>6, <1>7, <2>1, <2>2
<1>10. Reads(f, x)
  <2> HIDE DEF x, s
  <2> QED BY <1>6, <1>7, <1>9 DEF Reads
<1> QED BY <1>8, <1>10

(* What the digits after the first i leave open. *)
LEMMA ReadsLater ==
    ASSUME NEW x \in [Places -> Digit], NEW f, Reads(f, x),
           NEW i \in 0 .. MaxExponent, NEW d \in 0 .. MaxExponent - i
    PROVE  /\ f[i] * RadixTo(d) <= f[i + d]
           /\ f[i + d] < (f[i] + 1) * RadixTo(d)
<1>1. MaxExponent \in Nat /\ MaxExponent - i \in Nat
  BY PlaceFacts
<1>2. PICK p \in Nat : p = f[i]
  BY DEF Reads
<1>3. PICK r \in Nat : r = Radix
  BY RadixFacts
<1> DEFINE T == {k \in Nat : /\ p * RadixTo(k) <= f[i + k]
                             /\ f[i + k] < (p + 1) * RadixTo(k)}
<1>4. 0 \in T
  <2>1. i + 0 = i
    OBVIOUS
  <2> QED BY <1>2, <2>1, RadixPowers
<1>5. ASSUME NEW k \in Nat, k < MaxExponent - i, k \in T PROVE k + 1 \in T
  <2>1. i + k \in Places /\ i + (k + 1) = (i + k) + 1 /\ i + k \in 0 .. MaxExponent
    BY <1>1, <1>5, PlaceFacts DEF Places
  <2>2. PICK u \in Nat : u = f[i + k]
    BY <2>1 DEF Reads
  <2>3. PICK q \in Nat : q = RadixTo(k)
    BY RadixPowers
  <2>4. PICK y \in Nat : y = x[i + k] /\ y < r
    <3>1. x[i + k] \in Digit
      BY <2>1
    <3> QED BY <1>3, <3>1 DEF Digit
  <2>5. p * q <= u /\ u < (p + 1) * q
    BY <1>5, <2>2, <2>3
  <2>6. f[i + (k + 1)] = u * r + y
    BY <1>3, <2>1, <2>2, <2>4 DEF Reads
  <2>7. RadixTo(k + 1) = r * q
    BY <1>3, <2>3, RadixPowers
  <2>8. p * (r * q) <= u * r + y
    <3>1. PICK w \in Nat : u = p * q + w
      <4>1. u - p * q \in Nat
        BY <2>5
      <4> QED BY <4>1
    <3>2. u * r = p * (r * q) + w * r /\ w * r \in Nat
      BY <3>1
    <3> QED BY <3>2
  <2>9. u * r + y < (p + 1) * (r * q)
    <3>1. PICK w \in Nat : (p + 1) * q = u + 1 + w
      <4>1. (p + 1) * q - (u + 1) \in Nat
        BY <2>5
      <4> QED BY <4>1
    <3>2. (p + 1) * (r * q) = ((p + 1) * q) * r
      OBVIOUS
    <3>3. (u + 1 + w) * r = u * r + r + w * r /\ w * r \in Nat /\ u * r \in Nat
      OBVIOUS
    <3>4. (p + 1) * (r * q) = u * r + r + w * r
      BY <3>1, <3>2, <3>3
    <3> QED BY <2>4, <3>3, <3>4
  <2> QED BY <2>6, <2>7, <2>8, <2>9
<1> HIDE DEF T
<1>6. \A k \in 0 .. MaxExponent - i : k \in T
  BY <1>1, <1>4, <1>5, InductionUpTo
<1> QED BY <1>2, <1>6 DEF T

(* Zeros at the beginning say nothing. *)
LEMMA ReadsZeros ==
    ASSUME NEW x, NEW f, Reads(f, x),
           NEW i \in 0 .. MaxExponent, \A j \in 0 .. i - 1 : x[j] = 0
    PROVE  f[i] = 0
<1> DEFINE T == {k \in Nat : f[k] = 0}
<1>1. 0 \in T
  BY DEF Reads
<1>2. ASSUME NEW k \in Nat, k < i, k \in T PROVE k + 1 \in T
  <2>1. k \in Places /\ x[k] = 0
    BY <1>2, PlaceFacts
  <2> QED BY <1>2, <2>1, RadixFacts DEF Reads
<1>3. i \in Nat
  BY PlaceFacts
<1> HIDE DEF T
<1>4. \A k \in 0 .. i : k \in T
  BY <1>1, <1>2, <1>3, InductionUpTo
<1> QED BY <1>3, <1>4 DEF T

(* The same digits say the same. *)
LEMMA ReadsSame ==
    ASSUME NEW x, NEW f, Reads(f, x), NEW y, NEW g, Reads(g, y),
           NEW i \in 0 .. MaxExponent, \A j \in 0 .. i - 1 : x[j] = y[j]
    PROVE  f[i] = g[i]
<1> DEFINE T == {k \in Nat : f[k] = g[k]}
<1>1. 0 \in T
  BY DEF Reads
<1>2. ASSUME NEW k \in Nat, k < i, k \in T PROVE k + 1 \in T
  <2>1. k \in Places /\ x[k] = y[k]
    BY <1>2, PlaceFacts
  <2> QED BY <1>2, <2>1 DEF Reads
<1>3. i \in Nat
  BY PlaceFacts
<1> HIDE DEF T
<1>4. \A k \in 0 .. i : k \in T
  BY <1>1, <1>2, <1>3, InductionUpTo
<1> QED BY <1>3, <1>4 DEF T

(* The first digit that differs decides. *)
LEMMA MoreAhead ==
    ASSUME NEW x \in [Places -> Digit], NEW f, Reads(f, x),
           NEW y \in [Places -> Digit], NEW g, Reads(g, y),
           NEW i \in Places, \A j \in 0 .. i - 1 : x[j] = y[j], x[i] > y[i]
    PROVE  f[MaxExponent] > g[MaxExponent]
<1>1. i \in 0 .. MaxExponent /\ i + 1 \in 0 .. MaxExponent
      /\ MaxExponent \in Nat /\ i \in Nat
  BY PlaceFacts
<1>2. f[i] = g[i]
  BY <1>1, ReadsSame
<1>3. PICK u \in Nat, v \in Nat : u = f[i + 1] /\ v = g[i + 1]
  BY <1>1 DEF Reads
<1>4. x[i] \in Nat /\ y[i] \in Nat
  BY RadixFacts DEF Digit
<1>5. PICK s \in Nat : s = f[i] * Radix
  <2>1. f[i] \in Nat
    BY <1>1 DEF Reads
  <2> QED BY <2>1, RadixFacts
<1>6. u = s + x[i] /\ v = s + y[i]
  BY <1>2, <1>3, <1>5 DEF Reads
<1>7. u >= v + 1
  BY <1>4, <1>6
<1>8. PICK d \in 0 .. MaxExponent - (i + 1) : (i + 1) + d = MaxExponent
  <2>1. MaxExponent - (i + 1) \in 0 .. MaxExponent - (i + 1)
    BY <1>1, PlaceFacts
  <2> QED BY <1>1, <2>1
<1>9. PICK p \in Nat : p = RadixTo(d)
  BY RadixPowers
<1>10. u * p <= f[MaxExponent]
  BY <1>1, <1>3, <1>8, <1>9, ReadsLater
<1>11. g[MaxExponent] < (v + 1) * p
  BY <1>1, <1>3, <1>8, <1>9, ReadsLater
<1>12. (v + 1) * p <= u * p
  <2>1. PICK w \in Nat : u = (v + 1) + w
    <3>1. u - (v + 1) \in Nat
      BY <1>7
    <3> QED BY <3>1
  <2>2. u * p = (v + 1) * p + w * p /\ w * p \in Nat
    BY <2>1
  <2> QED BY <2>2
<1>13. /\ f[MaxExponent] \in Nat /\ g[MaxExponent] \in Nat
       /\ u * p \in Nat /\ (v + 1) * p \in Nat
  BY <1>1 DEF Reads
<1> QED BY <1>10, <1>11, <1>12, <1>13

(* Comparing digits is comparing what they say. *)
LEMMA FirstDecides ==
    ASSUME NEW x \in [Places -> Digit], NEW f, Reads(f, x),
           NEW y \in [Places -> Digit], NEW g, Reads(g, y)
    PROVE  Sign(FirstDifference(x, y)) = Sign(f[MaxExponent] - g[MaxExponent])
<1> DEFINE D == {i \in Places : x[i] # y[i]}
<1>1. f[MaxExponent] \in Nat /\ g[MaxExponent] \in Nat /\ MaxExponent \in Nat
  BY PlaceFacts DEF Reads
<1>2. CASE D = {}
  <2>1. FirstDifference(x, y) = 0
    BY <1>2 DEF FirstDifference
  <2>2. \A j \in 0 .. MaxExponent - 1 : x[j] = y[j]
    BY <1>2 DEF Places
  <2>3. f[MaxExponent] = g[MaxExponent]
    BY <1>1, <2>2, ReadsSame
  <2> QED BY <1>1, <2>1, <2>3
<1>3. CASE D # {}
  <2>1. D \in SUBSET Places /\ Places \in SUBSET Nat
    BY PlaceFacts
  <2>2. PICK i \in D : i = Min(D) /\ \A j \in D : i <= j
    <3> HIDE DEF D
    <3> QED BY <1>3, <2>1, MinExists
  <2>3. Min(D) = i
    BY <2>2
  <2>4. FirstDifference(x, y) = x[i] - y[i]
    <3>1. FirstDifference(x, y) = x[Min(D)] - y[Min(D)]
      BY <1>3 DEF FirstDifference
    <3> QED BY <2>3, <3>1
  <2>5. i \in Places /\ i \in Nat /\ x[i] # y[i]
    BY <2>1
  <2>6. \A j \in 0 .. i - 1 : x[j] = y[j]
    <3> TAKE j \in 0 .. i - 1
    <3>1. j \in Places /\ j \in Nat /\ j < i
      BY <2>5, PlaceFacts
    <3> QED BY <2>2, <2>5, <3>1
  <2>7. x[i] \in Nat /\ y[i] \in Nat
    BY <2>5, RadixFacts DEF Digit
  <2>8. CASE x[i] > y[i]
    <3>1. f[MaxExponent] > g[MaxExponent]
      BY <2>5, <2>6, <2>8, MoreAhead
    <3> QED BY <1>1, <2>4, <2>7, <2>8, <3>1 DEF Sign
  <2>9. CASE y[i] > x[i]
    <3>1. g[MaxExponent] > f[MaxExponent]
      BY <2>5, <2>6, <2>9, MoreAhead
    <3> QED BY <1>1, <2>4, <2>7, <2>9, <3>1 DEF Sign
  <2> QED BY <2>5, <2>7, <2>8, <2>9
<1> QED BY <1>2, <1>3

(* A number of three digits. *)
LEMMA CubeFacts ==
    /\ RadixTo(2) = Radix * Radix
    /\ RadixTo(3) = Radix * (Radix * Radix)
<1>1. RadixTo(1) = Radix /\ RadixTo(1 + 1) = Radix * RadixTo(1)
      /\ RadixTo((1 + 1) + 1) = Radix * RadixTo(1 + 1)
  BY RadixPowers
<1>2. 1 + 1 = 2 /\ 2 + 1 = 3
  OBVIOUS
<1> QED BY <1>1, <1>2

(* The three digits of a mantissa. *)
Says(m, x, y, z) ==
    /\ m = (x * Radix + y) * Radix + z
    /\ DigitOf(m, 0) = x /\ DigitOf(m, 1) = y /\ DigitOf(m, 2) = z

(* Every mantissa has three digits. *)
LEMMA ThreeDigits ==
    ASSUME NEW m \in Nat, m < RadixTo(3)
    PROVE  \E x, y, z \in Digit : Says(m, x, y, z)
<1>1. PICK r \in Nat \ {0} : r = Radix
  BY RadixFacts
<1>2. PICK u \in Nat, z \in Nat :
         z < r /\ m = u * r + z /\ m \div r = u /\ m % r = z
  BY DivisionExists
<1>3. PICK x \in Nat, y \in Nat :
         y < r /\ u = x * r + y /\ u \div r = x /\ u % r = y
  BY DivisionExists
<1>4. m \div (r * r) = x
  <2>1. PICK c \in Nat \ {0} : c = r * r
    OBVIOUS
  <2>2. Divides(c, r, r, m)
    BY <2>1, DivideTwice
  <2> QED BY <1>2, <1>3, <2>1, <2>2 DEF Divides
<1>5. x < r
  <2>1. m < r * (r * r)
    BY <1>1, CubeFacts
  <2>2. SUFFICES ASSUME x >= r PROVE FALSE
    OBVIOUS
  <2>3. PICK w \in Nat : x = r + w
    <3>1. x - r \in Nat /\ x = r + (x - r)
      BY <2>2
    <3> QED BY <3>1
  <2>4. ((r + w) * r + y) * r + z = r * (r * r) + w * (r * r) + y * r + z
    OBVIOUS
  <2>5. w * (r * r) \in Nat /\ y * r \in Nat
    OBVIOUS
  <2> QED BY <1>2, <1>3, <2>1, <2>3, <2>4, <2>5
<1>6. x % r = x
  <2>1. 0 * r + x = x
    OBVIOUS
  <2> QED BY <1>5, <2>1, Euclid DEF DivMod
<1>7. x \in Digit /\ y \in Digit /\ z \in Digit
  BY <1>1, <1>2, <1>3, <1>5 DEF Digit
<1>8. m = (x * Radix + y) * Radix + z
  BY <1>1, <1>2, <1>3
<1>9. m \div 1 = m
  OBVIOUS
<1>10. DigitOf(m, 0) = x
  <2>1. 2 - 0 = 2 /\ RadixTo(2) = r * r
    BY <1>1, CubeFacts
  <2> QED BY <1>1, <1>4, <1>6, <2>1 DEF DigitOf
<1>11. DigitOf(m, 1) = y
  <2>1. 2 - 1 = 1 /\ RadixTo(1) = r
    BY <1>1, RadixPowers
  <2> QED BY <1>1, <1>2, <1>3, <2>1 DEF DigitOf
<1>12. DigitOf(m, 2) = z
  <2>1. 2 - 2 = 0 /\ RadixTo(0) = 1
    BY RadixPowers
  <2> QED BY <1>1, <1>2, <1>9, <2>1 DEF DigitOf
<1> QED BY <1>7, <1>8, <1>10, <1>11, <1>12 DEF Says

(* Zeros at the end move a number. *)
LEMMA ReadsTail ==
    ASSUME NEW x, NEW f, Reads(f, x), NEW i \in 0 .. MaxExponent,
           \A j \in Places : j >= i => x[j] = 0
    PROVE  f[MaxExponent] = f[i] * RadixTo(MaxExponent - i)
<1>1. MaxExponent \in Nat /\ MaxExponent - i \in Nat
  BY PlaceFacts
<1>2. PICK p \in Nat : p = f[i]
  BY DEF Reads
<1> DEFINE T == {k \in Nat : f[i + k] = p * RadixTo(k)}
<1>3. 0 \in T
  <2>1. i + 0 = i
    OBVIOUS
  <2> QED BY <1>2, <2>1, RadixPowers
<1>4. ASSUME NEW k \in Nat, k < MaxExponent - i, k \in T PROVE k + 1 \in T
  <2>1. i + k \in Places /\ i + (k + 1) = (i + k) + 1 /\ i + k >= i
    BY <1>1, <1>4, PlaceFacts DEF Places
  <2>3. PICK q \in Nat, r \in Nat : q = RadixTo(k) /\ r = Radix
    BY RadixPowers, RadixFacts
  <2>4. x[i + k] = 0
    BY <2>1
  <2>6. f[i + (k + 1)] = (p * q) * r + 0
    BY <1>4, <2>1, <2>3, <2>4 DEF Reads
  <2>7. RadixTo(k + 1) = r * q
    BY <2>3, RadixPowers
  <2>8. p * (r * q) = (p * q) * r + 0
    OBVIOUS
  <2> QED BY <2>6, <2>7, <2>8
<1> HIDE DEF T
<1>5. \A k \in 0 .. MaxExponent - i : k \in T
  BY <1>1, <1>3, <1>4, InductionUpTo
<1>6. MaxExponent - i \in T
  BY <1>1, <1>5
<1>7. i + (MaxExponent - i) = MaxExponent
  BY <1>1
<1> QED BY <1>2, <1>6, <1>7 DEF T

(* A mantissa and an exponent with no digit behind the point. *)
InFront(m, e) ==
    /\ m \in Nat /\ m < RadixTo(3) /\ e \in 0 .. MaxExponent
    /\ e < 3 => m % RadixTo(3 - e) = 0

(* A digit of a mantissa is a digit. *)
LEMMA DigitIsDigit ==
    ASSUME NEW m \in Nat, NEW k \in 0 .. 2
    PROVE  DigitOf(m, k) \in Digit
<1>1. PICK d \in Nat \ {0} : d = RadixTo(2 - k)
  BY RadixPowers
<1>2. PICK r \in Nat \ {0} : r = Radix
  BY RadixFacts
<1>3. m \div d \in Nat
  BY DivisionExists
<1>4. (m \div d) % r \in 0 .. r - 1
  BY <1>3
<1> QED BY <1>1, <1>2, <1>4 DEF DigitOf, Digit

(* An expanded hash is made of digits. *)
LEMMA ExpandedDigits ==
    ASSUME NEW m \in Nat, NEW e \in Nat
    PROVE  Expanded([m |-> m, e |-> e]) \in [Places -> Digit]
<1>1. 0 \in Digit
  BY RadixFacts DEF Digit
<1>2. \A k : k \in 0 .. 2 => DigitOf(m, k) \in Digit
  BY DigitIsDigit
<1> QED BY <1>1, <1>2 DEF Expanded

(* What an expanded digit is. *)
LEMMA ExpandedPlaces ==
    ASSUME NEW m \in Nat, NEW e \in 0 .. MaxExponent, NEW i \in Places
    PROVE  LET x == Expanded([m |-> m, e |-> e])
           IN  /\ i < MaxExponent - e => x[i] = 0
               /\ i > MaxExponent - e + 2 => x[i] = 0
               /\ i = MaxExponent - e => x[i] = DigitOf(m, 0)
               /\ i = MaxExponent - e + 1 => x[i] = DigitOf(m, 1)
               /\ i = MaxExponent - e + 2 => x[i] = DigitOf(m, 2)
<1>1. i \in Nat /\ MaxExponent \in Nat
  BY PlaceFacts
<1>2. PICK k \in Int : k = i - (MaxExponent - e)
  BY <1>1
<1>3. Expanded([m |-> m, e |-> e])[i] = IF k \in 0 .. 2 THEN DigitOf(m, k) ELSE 0
  BY <1>2 DEF Expanded
<1> QED BY <1>1, <1>2, <1>3

(* The number of a compact hash in front of the point. *)
LEMMA CompactNumber ==
    ASSUME NEW m, NEW e, InFront(m, e),
           NEW f, Reads(f, Expanded([m |-> m, e |-> e]))
    PROVE  f[MaxExponent] * RadixTo(3) = m * RadixTo(e)
<1>1. /\ m \in Nat /\ m < RadixTo(3) /\ e \in 0 .. MaxExponent /\ e \in Nat
      /\ MaxExponent \in Nat /\ MaxExponent > 5
  BY PlaceFacts DEF InFront
<1>2. PICK r \in Nat \ {0}, r2 \in Nat \ {0}, r3 \in Nat \ {0} :
         /\ r = Radix /\ r2 = RadixTo(2) /\ r3 = RadixTo(3)
         /\ r2 = r * r /\ r3 = r * (r * r)
         /\ r = RadixTo(1)
  BY RadixFacts, RadixPowers, CubeFacts
<1>3. PICK x, y, z \in Digit :
         /\ m = (x * Radix + y) * Radix + z
         /\ DigitOf(m, 0) = x /\ DigitOf(m, 1) = y /\ DigitOf(m, 2) = z
  BY <1>1, ThreeDigits DEF Says
<1>4. /\ x \in Nat /\ x < r /\ y \in Nat /\ y < r /\ z \in Nat /\ z < r
      /\ m = (x * r + y) * r + z
  <2>1. x \in 0 .. r - 1 /\ y \in 0 .. r - 1 /\ z \in 0 .. r - 1
    BY <1>2 DEF Digit
  <2>2. m = (x * r + y) * r + z
    BY <1>2, <1>3
  <2> QED BY <2>1, <2>2
<1>5. PICK w : w = Expanded([m |-> m, e |-> e])
  OBVIOUS
<1>6. \A i \in Places :
         /\ i < MaxExponent - e => w[i] = 0
         /\ i > MaxExponent - e + 2 => w[i] = 0
         /\ i = MaxExponent - e => w[i] = x
         /\ i = MaxExponent - e + 1 => w[i] = y
         /\ i = MaxExponent - e + 2 => w[i] = z
  BY <1>1, <1>3, <1>5, ExpandedPlaces
<1>7. Reads(f, w)
  BY <1>5
<1>8. f[MaxExponent - e] = 0
  <2>1. MaxExponent - e \in 0 .. MaxExponent
    BY <1>1
  <2>2. \A j \in 0 .. (MaxExponent - e) - 1 : w[j] = 0
    BY <1>1, <1>6 DEF Places
  <2> QED BY <1>7, <2>1, <2>2, ReadsZeros
<1>9. CASE e = 0
  <2>1. m % r3 = 0
    BY <1>1, <1>2, <1>9 DEF InFront
  <2>2. m = 0
    <3>1. 0 * r3 + m = m /\ m \in 0 .. r3 - 1
      BY <1>1, <1>2
    <3> QED BY <1>1, <2>1, <3>1, Euclid DEF DivMod
  <2>3. f[MaxExponent] = 0
    BY <1>1, <1>8, <1>9
  <2> QED BY <1>2, <1>9, <2>2, <2>3, RadixPowers
<1>10. ASSUME e >= 1 PROVE f[MaxExponent - e + 1] = x
  <2>1. MaxExponent - e \in Places
    BY <1>1, <1>10 DEF Places
  <2>2. f[MaxExponent - e + 1] = f[MaxExponent - e] * Radix + w[MaxExponent - e]
    BY <1>7, <2>1 DEF Reads
  <2>3. w[MaxExponent - e] = x
    BY <1>6, <2>1
  <2> QED BY <1>2, <1>4, <1>8, <2>2, <2>3
<1>11. ASSUME e >= 2 PROVE f[MaxExponent - e + 2] = x * r + y
  <2>1. MaxExponent - e + 1 \in Places /\ (MaxExponent - e + 1) + 1 = MaxExponent - e + 2
    BY <1>1, <1>11 DEF Places
  <2>2. f[MaxExponent - e + 2] = f[MaxExponent - e + 1] * Radix + w[MaxExponent - e + 1]
    BY <1>7, <2>1 DEF Reads
  <2>3. w[MaxExponent - e + 1] = y
    BY <1>1, <1>6, <2>1
  <2>4. f[MaxExponent - e + 1] = x
    BY <1>1, <1>10, <1>11
  <2> QED BY <1>2, <1>4, <2>2, <2>3, <2>4
<1>12. CASE e = 1
  <2>1. m % r2 = 0
    BY <1>1, <1>2, <1>12 DEF InFront
  <2>2. y * r + z = 0
    <3>1. PICK t \in Nat : t = y * r + z
      BY <1>4
    <3>2. t < r2
      <4>1. PICK v \in Nat : r = y + 1 + v
        <5>1. r - y - 1 \in Nat /\ r = y + 1 + (r - y - 1)
          BY <1>4
        <5> QED BY <5>1
      <4>2. r * r = y * r + r + v * r /\ v * r \in Nat /\ y * r \in Nat
        BY <4>1, <1>4
      <4> QED BY <1>2, <1>4, <3>1, <4>2
    <3>3. m = x * r2 + t
      <4>1. (x * r + y) * r + z = x * (r * r) + (y * r + z)
        BY <1>4
      <4> QED BY <1>2, <1>4, <3>1, <4>1
    <3>4. m % r2 = t
      <4>1. t \in 0 .. r2 - 1
        BY <3>2
      <4>2. DivMod(m, r2, x, t)
        BY <1>1, <1>4, <3>3, <4>1, Euclid
      <4> QED BY <4>2 DEF DivMod
    <3> QED BY <2>1, <3>1, <3>4
  <2>3. f[MaxExponent] = x
    BY <1>1, <1>10, <1>12
  <2>4. m = x * (r * r)
    <3>1. (x * r + y) * r + z = x * (r * r) + (y * r + z)
      BY <1>4
    <3> QED BY <1>4, <2>2, <3>1
  <2>5. x * (r * (r * r)) = (x * (r * r)) * r
    BY <1>4
  <2> QED BY <1>2, <1>12, <2>3, <2>4, <2>5
<1>13. CASE e = 2
  <2>1. m % r = 0
    BY <1>1, <1>2, <1>13 DEF InFront
  <2>2. PICK u \in Nat : u = x * r + y
    BY <1>4
  <2>3. z = 0
    <3>1. m = u * r + z
      BY <1>4, <2>2
    <3>2. m % r = z
      <4>1. z \in 0 .. r - 1
        BY <1>4
      <4>2. DivMod(m, r, u, z)
        BY <1>1, <3>1, <4>1, Euclid
      <4> QED BY <4>2 DEF DivMod
    <3> QED BY <2>1, <3>2
  <2>4. f[MaxExponent] = u
    BY <1>1, <1>11, <1>13, <2>2
  <2>5. u * (r * (r * r)) = (u * r + 0) * (r * r)
    OBVIOUS
  <2> QED BY <1>2, <1>4, <1>13, <2>2, <2>3, <2>4, <2>5
<1>14. CASE e >= 3
  <2>1. f[MaxExponent - e + 3] = m
    <3>1. MaxExponent - e + 2 \in Places /\ (MaxExponent - e + 2) + 1 = MaxExponent - e + 3
      BY <1>1, <1>14 DEF Places
    <3>2. f[MaxExponent - e + 3] = f[MaxExponent - e + 2] * Radix + w[MaxExponent - e + 2]
      BY <1>7, <3>1 DEF Reads
    <3>3. w[MaxExponent - e + 2] = z
      BY <1>1, <1>6, <3>1
    <3>4. f[MaxExponent - e + 2] = x * r + y
      BY <1>1, <1>11, <1>14
    <3> QED BY <1>2, <1>4, <3>2, <3>3, <3>4
  <2>2. PICK i \in 0 .. MaxExponent : i = MaxExponent - e + 3
    BY <1>1, <1>14
  <2>3. \A j \in Places : j >= i => w[j] = 0
    BY <1>1, <1>6, <2>2, PlaceFacts
  <2>4. f[MaxExponent] = f[i] * RadixTo(MaxExponent - i)
    BY <1>7, <2>3, ReadsTail
  <2>5. PICK d \in Nat : d = e - 3
    BY <1>1, <1>14
  <2>6. MaxExponent - i = d /\ e = d + 3
    BY <1>1, <1>14, <2>2, <2>5
  <2>7. PICK q \in Nat : q = RadixTo(d)
    BY RadixPowers
  <2>8. RadixTo(e) = q * r3
    BY <1>2, <2>6, <2>7, RadixAdds
  <2>9. (m * q) * r3 = m * (q * r3)
    BY <1>1
  <2>10. f[MaxExponent] = m * q
    BY <2>1, <2>2, <2>4, <2>6, <2>7
  <2> QED BY <1>2, <2>8, <2>9, <2>10
<1> QED BY <1>1, <1>9, <1>12, <1>13, <1>14

(* The three digits from the exponent on are the leading ones of n. *)
Leads(m, e, n) ==
    /\ InFront(m, e) /\ 2 * m < RadixTo(3) /\ (m = 0 <=> e = 0)
    /\ n \in Nat
    /\ m * RadixTo(e) <= n * RadixTo(3)
    /\ n * RadixTo(3) < (m + 1) * RadixTo(e)

(* The digits of an expanded hash start at the exponent that e() finds. *)
LEMMA LargeStarts ==
    ASSUME NEW x \in [Places -> Digit], x[0] < Radix \div 2,
           NEW i \in Places, x[i] # 0
    PROVE  \E first \in Places :
              /\ E(Large(x)) = MaxExponent - first
              /\ \A j \in 0 .. first - 1 : x[j] = 0
              /\ 2 * x[first] < Radix
              /\ x[first] # 0 \/ At(x, first + 1) # 0
<1> DEFINE D == {j \in Places : x[j] # 0}
<1>1. D # {} /\ D \subseteq Places /\ D \subseteq Nat
  BY PlaceFacts
<1>2. PICK t \in D : t = Min(D) /\ \A j \in D : t <= j
  <2> HIDE DEF D
  <2> QED BY <1>1, MinExists
<1>3. t \in Places /\ t \in Nat /\ x[t] # 0 /\ MaxExponent \in Nat
  BY <1>1, PlaceFacts
<1>4. \A j \in 0 .. t - 1 : x[j] = 0
  <2> TAKE j \in 0 .. t - 1
  <2>1. j \in Places /\ j \in Nat /\ j < t
    BY <1>3, PlaceFacts
  <2> QED BY <1>2, <2>1
<1>5. PICK half \in Nat : half = Radix \div 2 /\ 2 * half = Radix
  BY RadixFacts
<1>6. \A j \in Places : x[j] \in Nat
  BY RadixFacts DEF Digit
<1>7. Large(x).compact = FALSE /\ Large(x).bytes = x
  BY DEF Large
<1>8. E(Large(x)) = MaxExponent - (IF x[t] >= half THEN t - 1 ELSE t)
  <2>1. E(Large(x)) =
           MaxExponent - (IF D # {} /\ x[IF D = {} THEN MaxExponent ELSE Min(D)] >= Radix \div 2
                          THEN (IF D = {} THEN MaxExponent ELSE Min(D)) - 1
                          ELSE IF D = {} THEN MaxExponent ELSE Min(D))
    BY <1>7 DEF E
  <2>2. (IF D = {} THEN MaxExponent ELSE Min(D)) = t
    <3> HIDE DEF D
    <3> QED BY <1>1, <1>2
  <2> HIDE DEF D
  <2> QED BY <1>1, <1>5, <2>1, <2>2
<1>9. CASE x[t] >= half
  <2>1. t # 0
    BY <1>3, <1>5, <1>6, <1>9
  <2>2. t - 1 \in Places /\ t - 1 \in 0 .. t - 1 /\ (t - 1) + 1 = t
    BY <1>3, <2>1, PlaceFacts DEF Places
  <2>3. x[t - 1] = 0
    BY <1>4, <2>2
  <2>4. At(x, (t - 1) + 1) # 0
    BY <1>3, <2>2 DEF At
  <2>5. \A j \in 0 .. (t - 1) - 1 : x[j] = 0
    BY <1>3, <1>4
  <2>6. 2 * x[t - 1] < Radix
    BY <2>3, RadixFacts
  <2> QED BY <1>8, <1>9, <2>2, <2>4, <2>5, <2>6
<1>10. CASE x[t] < half
  <2>1. 2 * x[t] < Radix
    BY <1>3, <1>5, <1>6, <1>10
  <2>2. E(Large(x)) = MaxExponent - t
    BY <1>3, <1>5, <1>6, <1>8, <1>10
  <2> QED BY <1>3, <1>4, <2>1, <2>2
<1> QED BY <1>3, <1>5, <1>6, <1>9, <1>10

(* They are led by those that m() finds. *)
LEMMA LargeLeads ==
    ASSUME NEW x \in [Places -> Digit], x[0] < Radix \div 2,
           NEW f, Reads(f, x)
    PROVE  Leads(M(Large(x)), E(Large(x)), f[MaxExponent])
<1>1. /\ Large(x).compact = FALSE /\ Large(x).bytes = x
      /\ MaxExponent \in Nat /\ MaxExponent > 5
      /\ f[MaxExponent] \in Nat
  BY PlaceFacts DEF Large, Reads
<1>2. PICK r \in Nat \ {0}, r2 \in Nat \ {0}, r3 \in Nat \ {0} :
         /\ r = Radix /\ r2 = RadixTo(2) /\ r3 = RadixTo(3)
         /\ r2 = r * r /\ r3 = r * (r * r)
         /\ r = RadixTo(1) /\ r >= 4
  BY RadixFacts, RadixPowers, CubeFacts
<1>3. CASE \A i \in Places : x[i] = 0
  <2>1. {i \in Places : x[i] # 0} = {}
    BY <1>3
  <2>2. E(Large(x)) = 0
    BY <1>1, <2>1 DEF E
  <2>3. \A i \in Int : At(x, i) = 0
    BY <1>3 DEF At
  <2>4. M(Large(x)) = 0
    <3>1. PICK k \in Int : k = MaxExponent - E(Large(x))
      BY <1>1, <2>2
    <3>2. M(Large(x)) = (At(x, k) * Radix + At(x, k + 1)) * Radix + At(x, k + 2)
      BY <1>1, <3>1 DEF M
    <3>3. At(x, k) = 0 /\ At(x, k + 1) = 0 /\ At(x, k + 2) = 0
      BY <2>3
    <3> QED BY <1>2, <3>2, <3>3
  <2>5. f[MaxExponent] = 0
    <3>1. \A j \in 0 .. MaxExponent - 1 : x[j] = 0
      BY <1>3 DEF Places
    <3> QED BY <1>1, <3>1, ReadsZeros
  <2>6. InFront(0, 0)
    <3>1. 0 * r3 + 0 = 0 /\ 0 \in 0 .. r3 - 1
      BY <1>2
    <3>2. DivMod(0, r3, 0, 0)
      BY <1>2, <3>1, Euclid
    <3>3. 0 % RadixTo(3) = 0
      BY <1>2, <3>2 DEF DivMod
    <3> QED BY <1>1, <1>2, <3>3 DEF InFront
  <2> QED BY <1>2, <2>2, <2>4, <2>5, <2>6, RadixPowers DEF Leads
<1>4. ASSUME NEW place \in Places, x[place] # 0
      PROVE  Leads(M(Large(x)), E(Large(x)), f[MaxExponent])
  <2>1. PICK first \in Places :
              /\ E(Large(x)) = MaxExponent - first
              /\ \A j \in 0 .. first - 1 : x[j] = 0
              /\ 2 * x[first] < Radix
              /\ x[first] # 0 \/ At(x, first + 1) # 0
    BY <1>4, LargeStarts
  <2>2. PICK e \in 1 .. MaxExponent : e = MaxExponent - first /\ e \in Nat
    BY <1>1, PlaceFacts
  <2>3. first \in Nat /\ first < MaxExponent /\ first = MaxExponent - e
    BY <1>1, <2>2, PlaceFacts
  <2>4. \A k \in Int : At(x, k) \in 0 .. r - 1
    BY <1>2 DEF At, Digit
  <2>5. PICK p, q, s \in Nat :
           /\ p = x[first] /\ q = At(x, first + 1) /\ s = At(x, first + 2)
           /\ q < r /\ s < r /\ 2 * p < r
    <3>1. x[first] \in 0 .. r - 1
      BY <1>2 DEF Digit
    <3>2. At(x, first + 1) \in 0 .. r - 1 /\ At(x, first + 2) \in 0 .. r - 1
      BY <2>3, <2>4
    <3> QED BY <1>2, <2>1, <3>1, <3>2
  <2>6. PICK m \in Nat : m = (p * r + q) * r + s
    OBVIOUS
  <2>7. M(Large(x)) = m /\ E(Large(x)) = e
    <3>1. At(x, first) = p
      BY <2>5 DEF At
    <3>2. MaxExponent - E(Large(x)) = first
      BY <1>1, <2>1, <2>3
    <3>3. M(Large(x)) = (At(x, first) * Radix + At(x, first + 1)) * Radix
                           + At(x, first + 2)
      BY <1>1, <3>2 DEF M
    <3>4. M(Large(x)) = (p * Radix + q) * Radix + s
      BY <2>5, <3>1, <3>3
    <3> QED BY <1>2, <2>1, <2>2, <2>6, <3>4
  <2>8. 2 * m < r3
    <3>1. PICK w \in Nat : r = 2 * p + 1 + w
      <4>1. r - 2 * p - 1 \in Nat /\ r = 2 * p + 1 + (r - 2 * p - 1)
        BY <2>5
      <4> QED BY <4>1
    <3>2. CASE w = 0
      <4>1. r % 2 = 1
        BY <3>1, <3>2
      <4>2. r % 2 = 0
        BY <1>2, RadixFacts
      <4> QED BY <4>1, <4>2
    <3>3. CASE w >= 1
      <4>1. PICK v \in Nat : r = (2 * p + 2) + v
        <5>1. r - (2 * p + 2) \in Nat
          BY <3>1, <3>3
        <5> QED BY <5>1
      <4>2. r * r2 = (2 * p) * r2 + 2 * r2 + v * r2 /\ v * r2 \in Nat
        BY <4>1
      <4>3. 2 * m = (2 * p) * r2 + 2 * (q * r + s)
        <5>1. 2 * ((p * r + q) * r + s) = (2 * p) * (r * r) + 2 * (q * r + s)
          OBVIOUS
        <5> QED BY <1>2, <2>6, <5>1
      <4>4. q * r + s < r2
        <5>1. PICK u \in Nat : r = q + 1 + u
          <6>1. r - q - 1 \in Nat /\ r = q + 1 + (r - q - 1)
            BY <2>5
          <6> QED BY <6>1
        <5>2. r * r = q * r + r + u * r /\ u * r \in Nat /\ q * r \in Nat
          BY <5>1
        <5> QED BY <1>2, <2>5, <5>2
      <4>5. (2 * p) * r2 \in Nat /\ q * r + s \in Nat
        OBVIOUS
      <4> QED BY <1>2, <4>2, <4>3, <4>4, <4>5
    <3> QED BY <3>2, <3>3
  <2>9. m # 0
    <3>1. p # 0 \/ q # 0
      BY <2>1, <2>5
    <3>2. CASE p # 0
      <4>1. p * r \in Nat \ {0}
        BY <3>2
      <4>2. (p * r + q) * r \in Nat \ {0}
        BY <4>1
      <4> QED BY <2>6, <4>2
    <3>3. CASE q # 0
      <4>1. p * r + q \in Nat \ {0}
        BY <3>3
      <4>2. (p * r + q) * r \in Nat \ {0}
        BY <4>1
      <4> QED BY <2>6, <4>2
    <3> QED BY <3>1, <3>2, <3>3
  <2>10. f[first] = 0 /\ f[first + 1] = p
    <3>1. first \in 0 .. MaxExponent
      BY <1>1, <2>3
    <3>2. f[first] = 0
      BY <2>1, <3>1, ReadsZeros
    <3>3. f[first + 1] = f[first] * Radix + x[first]
      BY DEF Reads
    <3> QED BY <1>2, <2>5, <3>2, <3>3
  <2>11. ASSUME e >= 2 PROVE f[first + 2] = p * r + q
    <3>1. first + 1 \in Places /\ (first + 1) + 1 = first + 2
      BY <1>1, <2>2, <2>3, <2>11 DEF Places
    <3>2. f[first + 2] = f[first + 1] * Radix + x[first + 1]
      BY <3>1 DEF Reads
    <3>3. x[first + 1] = q
      BY <2>5, <3>1 DEF At
    <3> QED BY <1>2, <2>10, <3>2, <3>3
  <2>12. CASE e = 1
    <3>1. first + 1 = MaxExponent /\ first + 1 \notin Places /\ first + 2 \notin Places
      BY <1>1, <2>2, <2>3, <2>12 DEF Places
    <3>2. q = 0 /\ s = 0
      BY <2>5, <3>1 DEF At
    <3>3. f[MaxExponent] = p
      BY <2>10, <3>1
    <3>4. m = p * r2
      <4>1. (p * r + 0) * r + 0 = p * (r * r)
        OBVIOUS
      <4> QED BY <1>2, <2>6, <3>2, <4>1
    <3>5. p * (r * (r * r)) = (p * (r * r)) * r
      OBVIOUS
    <3>6. m * RadixTo(e) = p * r3
      BY <1>2, <2>12, <3>4, <3>5
    <3>7. InFront(m, e)
      <4>1. m = p * r2 + 0 /\ 0 \in 0 .. r2 - 1
        <5>1. PICK t \in Nat : t = p * r2
          OBVIOUS
        <5>2. m = t + 0
          BY <3>4, <5>1
        <5> QED BY <5>1, <5>2
      <4>2. DivMod(m, r2, p, 0)
        BY <1>2, <4>1, Euclid
      <4> QED BY <1>2, <2>2, <2>8, <2>12, <4>2 DEF DivMod, InFront
    <3> QED BY <1>2, <2>7, <2>8, <2>9, <2>12, <3>3, <3>6, <3>7 DEF Leads
  <2>13. CASE e = 2
    <3>1. first + 2 = MaxExponent /\ first + 2 \notin Places
      BY <1>1, <2>2, <2>3, <2>13 DEF Places
    <3>2. s = 0
      BY <2>5, <3>1 DEF At
    <3>3. PICK u \in Nat : u = p * r + q
      OBVIOUS
    <3>4. f[MaxExponent] = u
      BY <2>11, <2>13, <3>1, <3>3
    <3>5. m = u * r
      BY <2>6, <3>2, <3>3
    <3>6. u * (r * (r * r)) = (u * r) * (r * r)
      OBVIOUS
    <3>7. m * RadixTo(e) = u * r3
      BY <1>2, <2>13, <3>5, <3>6
    <3>8. InFront(m, e)
      <4>1. m = u * r + 0 /\ 0 \in 0 .. r - 1
        BY <1>2, <3>5
      <4>2. DivMod(m, r, u, 0)
        BY <1>2, <4>1, Euclid
      <4> QED BY <1>2, <2>2, <2>8, <2>13, <4>2 DEF DivMod, InFront
    <3>9. RadixTo(e) = r2
      BY <1>2, <2>13
    <3> QED BY <1>2, <2>7, <2>8, <2>9, <2>13, <3>4, <3>7, <3>8, <3>9 DEF Leads
  <2>14. CASE e >= 3
    <3>1. PICK i \in 0 .. MaxExponent : i = first + 3 /\ f[i] = m
      <4>1. first + 2 \in Places /\ (first + 2) + 1 = first + 3 /\ first + 3 \in 0 .. MaxExponent
        BY <1>1, <2>2, <2>3, <2>14 DEF Places
      <4>2. f[first + 3] = f[first + 2] * Radix + x[first + 2]
        BY <4>1 DEF Reads
      <4>3. x[first + 2] = s
        BY <2>5, <4>1 DEF At
      <4>4. f[first + 2] = p * r + q
        BY <2>11, <2>14
      <4> QED BY <1>2, <2>6, <4>1, <4>2, <4>3, <4>4
    <3>2. PICK d \in Nat : d = e - 3 /\ d \in 0 .. MaxExponent - i /\ i + d = MaxExponent
                           /\ e = d + 3
      BY <1>1, <2>2, <2>3, <2>14, <3>1
    <3>3. PICK k \in Nat, n \in Nat : k = RadixTo(d) /\ n = f[MaxExponent]
      BY <1>1, RadixPowers
    <3>4. m * k <= n /\ n < (m + 1) * k
      BY <3>1, <3>2, <3>3, ReadsLater
    <3>5. RadixTo(e) = k * r3
      BY <1>2, <3>2, <3>3, RadixAdds
    <3>6. m * (k * r3) <= n * r3
      <4>1. PICK w \in Nat : n = m * k + w
        <5>1. n - m * k \in Nat
          BY <3>4
        <5> QED BY <5>1
      <4>2. n * r3 = m * (k * r3) + w * r3 /\ w * r3 \in Nat
        BY <4>1
      <4> QED BY <4>2
    <3>7. n * r3 < (m + 1) * (k * r3)
      <4>1. PICK w \in Nat : (m + 1) * k = n + 1 + w
        <5>1. (m + 1) * k - n - 1 \in Nat
          BY <3>4
        <5> QED BY <5>1
      <4>2. (m + 1) * (k * r3) = ((m + 1) * k) * r3
        OBVIOUS
      <4>3. (n + 1 + w) * r3 = n * r3 + r3 + w * r3 /\ w * r3 \in Nat
        OBVIOUS
      <4> QED BY <4>1, <4>2, <4>3
    <3>8. InFront(m, e)
      BY <1>2, <2>2, <2>8, <2>14 DEF InFront
    <3>9. e # 0
      BY <2>14
    <3> QED BY <1>2, <2>7, <2>8, <2>9, <3>3, <3>5, <3>6, <3>7, <3>8, <3>9 DEF Leads
  <2> QED BY <2>2, <2>12, <2>13, <2>14
<1> QED BY <1>3, <1>4

(* A hash whose digits are all in front of the point, with the sign in the *)
(* first digit that is not zero, unless that digit is the highest one.     *)
WholeHash(h) ==
    \/ \E c \in Compact : h = Small(c) /\ InFront(c.m, c.e)
    \/ \E x \in [Places -> Digit] : h = Large(x) /\ x[0] < Radix \div 2

(* What a compact hash may be. *)
LEMMA CompactIs ==
    ASSUME NEW c \in Compact
    PROVE  /\ c.m \in Nat /\ c.m < RadixTo(3) /\ 2 * c.m < RadixTo(3)
           /\ c.e \in 0 .. MaxExponent /\ c.e \in Nat /\ (c.m = 0 <=> c.e = 0)
           /\ c = [m |-> c.m, e |-> c.e]
<1>1. PICK r3 \in Nat \ {0} : r3 = RadixTo(3)
  BY RadixPowers
<1>2. MaxExponent \in Nat
  BY PlaceFacts
<1>3. CASE c = Zero
  BY <1>1, <1>2, <1>3 DEF Zero
<1>4. CASE c # Zero
  <2>1. c \in [m : 0 .. r3 - 1, e : 1 .. MaxExponent] /\ c.m > 0 /\ ~(c.m >= r3 \div 2)
    BY <1>1, <1>4 DEF Compact, Mantissa, Negative
  <2>2. PICK half \in Nat : half = r3 \div 2 /\ 2 * half <= r3
    BY <1>1
  <2>3. c.m < half
    BY <2>1, <2>2
  <2> QED BY <1>1, <1>2, <2>1, <2>2, <2>3
<1> QED BY <1>3, <1>4

(* The digits of a hash. *)
LEMMA WholeDigits ==
    ASSUME NEW h, WholeHash(h)
    PROVE  BytesCopy(h) \in [Places -> Digit] /\ BytesCopy(h) \in [Places -> Nat]
<1>1. Digit \subseteq Nat
  BY RadixFacts DEF Digit
<1>2. BytesCopy(h) \in [Places -> Digit]
  <2>1. ASSUME NEW c \in Compact, h = Small(c) PROVE BytesCopy(h) \in [Places -> Digit]
    <3>1. BytesCopy(h) = Expanded(c)
      BY <2>1 DEF BytesCopy, Small
    <3>2. Expanded([m |-> c.m, e |-> c.e]) \in [Places -> Digit]
      BY CompactIs, ExpandedDigits
    <3>3. c = [m |-> c.m, e |-> c.e]
      BY CompactIs
    <3> QED BY <3>1, <3>2, <3>3
  <2>2. ASSUME NEW x \in [Places -> Digit], h = Large(x)
        PROVE  BytesCopy(h) \in [Places -> Digit]
    BY <2>2 DEF BytesCopy, Large
  <2> QED BY <2>1, <2>2 DEF WholeHash
<1> QED BY <1>1, <1>2

(* What the operations read of a hash, and its number. *)
Known(h, m, e, n, f) ==
    /\ m = M(h) /\ e = E(h) /\ n = Number(h)
    /\ Reads(f, BytesCopy(h)) /\ n = f[MaxExponent]
    /\ Leads(m, e, n)
    /\ h.compact => n * RadixTo(3) = m * RadixTo(e)

(* What the operations read of a hash leads its number. *)
LEMMA HashIsKnown ==
    ASSUME NEW h, WholeHash(h)
    PROVE  \E m, e, n, f : Known(h, m, e, n, f)
<1>1. PICK f : Reads(f, BytesCopy(h)) /\ Number(h) = f[MaxExponent]
  BY WholeDigits, NumberReads
<1>2. PICK n \in Nat : n = f[MaxExponent] /\ n = Number(h)
  BY <1>1, PlaceFacts DEF Reads
<1>3. PICK m, e : m = M(h) /\ e = E(h)
  OBVIOUS
<1>4. ASSUME NEW c \in Compact, h = Small(c), InFront(c.m, c.e)
      PROVE  Known(h, m, e, n, f)
  <2>1. h.compact /\ m = c.m /\ e = c.e /\ BytesCopy(h) = Expanded(c)
    BY <1>3, <1>4 DEF Small, M, E, BytesCopy
  <2>2. /\ m \in Nat /\ 2 * m < RadixTo(3) /\ e \in Nat /\ (m = 0 <=> e = 0)
        /\ c = [m |-> m, e |-> e]
    BY <2>1, CompactIs
  <2>3. InFront(m, e) /\ Reads(f, Expanded([m |-> m, e |-> e]))
    BY <1>1, <1>4, <2>1, <2>2
  <2>4. n * RadixTo(3) = m * RadixTo(e)
    <3>1. f[MaxExponent] * RadixTo(3) = m * RadixTo(e)
      BY <2>3, CompactNumber
    <3> QED BY <1>2, <3>1
  <2>5. PICK k \in Nat \ {0} : k = RadixTo(e)
    BY <2>2, RadixPowers
  <2>6. m * k \in Nat /\ m * k < (m + 1) * k
    <3>1. (m + 1) * k = m * k + k
      BY <2>2
    <3>2. m * k \in Nat
      BY <2>2
    <3> QED BY <3>1, <3>2
  <2>7. Leads(m, e, n)
    BY <2>2, <2>3, <2>4, <2>5, <2>6 DEF Leads
  <2> QED BY <1>1, <1>2, <1>3, <2>4, <2>7 DEF Known
<1>5. ASSUME NEW x \in [Places -> Digit], h = Large(x), x[0] < Radix \div 2
      PROVE  Known(h, m, e, n, f)
  <2>1. h.compact = FALSE /\ BytesCopy(h) = x
    BY <1>5 DEF Large, BytesCopy
  <2>2. Leads(M(Large(x)), E(Large(x)), f[MaxExponent])
    BY <1>1, <1>5, <2>1, LargeLeads
  <2>3. Leads(m, e, n)
    BY <1>2, <1>3, <1>5, <2>2
  <2> QED BY <1>1, <1>2, <1>3, <2>1, <2>3 DEF Known
<1> QED BY <1>4, <1>5 DEF WholeHash

(* A mantissa that is greater, at the same exponent or a far greater one. *)
LEMMA LeadsGreater ==
    ASSUME NEW m, NEW e, NEW n, Leads(m, e, n),
           NEW p, NEW d, NEW q, Leads(p, d, q),
           (e = d /\ m > p) \/ e > d + 2
    PROVE  n > q
<1>1. /\ m \in Nat /\ e \in Nat /\ n \in Nat /\ (m = 0 <=> e = 0)
      /\ p \in Nat /\ d \in Nat /\ q \in Nat
  BY PlaceFacts DEF Leads, InFront
<1>2. PICK r3 \in Nat \ {0}, k \in Nat \ {0}, l \in Nat \ {0} :
         r3 = RadixTo(3) /\ k = RadixTo(e) /\ l = RadixTo(d)
  BY <1>1, RadixPowers
<1>3. m * k <= n * r3 /\ q * r3 < (p + 1) * l /\ p + 1 <= r3
  BY <1>1, <1>2 DEF Leads, InFront
<1>4. (p + 1) * l <= m * k
  <2>1. CASE e = d /\ m > p
    <3>1. k = l
      BY <1>2, <2>1
    <3>2. PICK w \in Nat : m = (p + 1) + w
      <4>1. m - (p + 1) \in Nat /\ m = (p + 1) + (m - (p + 1))
        BY <1>1, <2>1
      <4> QED BY <4>1
    <3>3. m * l = (p + 1) * l + w * l /\ w * l \in Nat
      BY <1>1, <3>2
    <3> QED BY <1>1, <3>1, <3>3
  <2>2. CASE e > d + 2
    <3>1. PICK w \in Nat : e = (d + 3) + w
      <4>1. e - (d + 3) \in Nat /\ e = (d + 3) + (e - (d + 3))
        BY <1>1, <2>2
      <4> QED BY <4>1
    <3>2. PICK t \in Nat \ {0} : t = RadixTo(w)
      BY RadixPowers
    <3>3. RadixTo(d + 3) = l * r3
      BY <1>1, <1>2, RadixAdds
    <3>4. k = (l * r3) * t
      <4>1. d + 3 \in Nat
        BY <1>1
      <4>2. RadixTo((d + 3) + w) = RadixTo(d + 3) * RadixTo(w)
        BY <4>1, RadixAdds
      <4> QED BY <1>2, <3>1, <3>2, <3>3, <4>2
    <3>5. PICK u \in Nat \ {0} : u = l * r3
      OBVIOUS
    <3>6. (p + 1) * l <= u
      <4>1. PICK v \in Nat : r3 = (p + 1) + v
        <5>1. r3 - (p + 1) \in Nat /\ r3 = (p + 1) + (r3 - (p + 1))
          BY <1>1, <1>3
        <5> QED BY <5>1
      <4>2. l * r3 = (p + 1) * l + l * v /\ l * v \in Nat
        BY <1>1, <4>1
      <4> QED BY <1>1, <3>5, <4>2
    <3>7. u <= u * t
      <4>1. PICK v \in Nat : t = 1 + v
        <5>1. t - 1 \in Nat /\ t = 1 + (t - 1)
          OBVIOUS
        <5> QED BY <5>1
      <4>2. u * t = u + u * v /\ u * v \in Nat
        BY <4>1
      <4> QED BY <4>2
    <3>8. k <= m * k
      <4>1. PICK v \in Nat : m = 1 + v
        <5>1. m - 1 \in Nat /\ m = 1 + (m - 1)
          BY <1>1, <2>2
        <5> QED BY <5>1
      <4>2. m * k = k + v * k /\ v * k \in Nat
        BY <4>1
      <4> QED BY <4>2
    <3>9. k = u * t
      BY <3>4, <3>5
    <3>10. (p + 1) * l \in Nat /\ m * k \in Nat
      BY <1>1
    <3> QED BY <3>6, <3>7, <3>8, <3>9, <3>10
  <2> QED BY <2>1, <2>2
<1>5. q * r3 < n * r3
  <2>1. q * r3 \in Nat /\ n * r3 \in Nat /\ (p + 1) * l \in Nat /\ m * k \in Nat
    BY <1>1
  <2> QED BY <1>3, <1>4, <2>1
<1>6. q < n
  BY <1>1, <1>5, CancelFactor
<1> QED BY <1>1, <1>6

(* compare() agrees with the numbers. *)
LEMMA ComparesAsNumbers ==
    ASSUME NEW a, WholeHash(a), NEW b, WholeHash(b)
    PROVE  CompareAsNumbers(a, b)
<1>1. PICK m, e, n, f : Known(a, m, e, n, f)
  BY HashIsKnown
<1>2. PICK p, d, q, g : Known(b, p, d, q, g)
  BY HashIsKnown
<1>3. /\ m \in Nat /\ e \in Nat /\ n \in Nat /\ (m = 0 <=> e = 0)
      /\ p \in Nat /\ d \in Nat /\ q \in Nat /\ (p = 0 <=> d = 0)
      /\ Leads(m, e, n) /\ Leads(p, d, q)
      /\ m = M(a) /\ e = E(a) /\ n = Number(a)
      /\ p = M(b) /\ d = E(b) /\ q = Number(b)
  BY <1>1, <1>2, PlaceFacts DEF Known, Leads, InFront
<1>4. PICK x, y : x = BytesCopy(a) /\ y = BytesCopy(b)
  OBVIOUS
<1>5. Sign(FirstDifference(x, y)) = Sign(n - q)
  <2>1. Reads(f, x) /\ Reads(g, y) /\ n = f[MaxExponent] /\ q = g[MaxExponent]
    BY <1>1, <1>2, <1>4 DEF Known
  <2>2. x \in [Places -> Digit] /\ y \in [Places -> Digit]
    BY <1>4, WholeDigits
  <2>3. Sign(FirstDifference(x, y)) = Sign(f[MaxExponent] - g[MaxExponent])
    BY <2>1, <2>2, FirstDecides
  <2> QED BY <2>1, <2>3
<1>6. PICK v : v = Compare(a, b)
  OBVIOUS
<1>7. v = CASE e > d + 2 -> e - d - 2
            [] e < d - 2 -> e - d + 2
            [] OTHER ->
                 IF m = 0 /\ p = 0 THEN 0
                 ELSE IF e = d /\ (m # p \/ (a.compact /\ b.compact))
                 THEN m - p
                 ELSE FirstDifference(x, y)
  BY <1>3, <1>4, <1>6 DEF Compare
<1>8. SUFFICES Sign(v) = Sign(n - q)
  BY <1>3, <1>6 DEF CompareAsNumbers
<1>9. CASE e > d + 2
  <2>1. n > q
    BY <1>3, <1>9, LeadsGreater
  <2>2. v = e - d - 2
    BY <1>3, <1>7, <1>9
  <2> QED BY <1>3, <1>9, <2>1, <2>2 DEF Sign
<1>10. CASE e < d - 2
  <2>1. q > n
    BY <1>3, <1>10, LeadsGreater
  <2>2. v = e - d + 2
    BY <1>3, <1>7, <1>10
  <2> QED BY <1>3, <1>10, <2>1, <2>2 DEF Sign
<1>11. CASE ~(e > d + 2) /\ ~(e < d - 2) /\ m = 0 /\ p = 0
  <2>1. e = 0 /\ d = 0
    BY <1>3, <1>11
  <2>2. v = 0
    BY <1>7, <1>11
  <2>3. n = 0 /\ q = 0
    <3>1. PICK r3 \in Nat \ {0} : r3 = RadixTo(3)
      BY RadixPowers
    <3>2. n * r3 < 1 /\ q * r3 < 1
      BY <1>3, <1>11, <2>1, <3>1, RadixPowers DEF Leads
    <3>3. \A k \in Nat : k * r3 < 1 => k = 0
      <4> SUFFICES ASSUME NEW k \in Nat, k >= 1 PROVE k * r3 >= 1
        OBVIOUS
      <4>1. PICK w \in Nat : k = 1 + w
        <5>1. k - 1 \in Nat /\ k = 1 + (k - 1)
          OBVIOUS
        <5> QED BY <5>1
      <4>2. k * r3 = r3 + w * r3 /\ w * r3 \in Nat
        BY <4>1
      <4> QED BY <4>2
    <3> QED BY <1>3, <3>2, <3>3
  <2> QED BY <2>2, <2>3 DEF Sign
<1>12. CASE ~(e > d + 2) /\ ~(e < d - 2) /\ ~(m = 0 /\ p = 0) /\ e = d /\ m # p
  <2>1. v = m - p
    BY <1>7, <1>12
  <2>2. CASE m > p
    <3>1. n > q
      BY <1>3, <1>12, <2>2, LeadsGreater
    <3> QED BY <1>3, <2>1, <2>2, <3>1 DEF Sign
  <2>3. CASE p > m
    <3>1. q > n
      BY <1>3, <1>12, <2>3, LeadsGreater
    <3> QED BY <1>3, <2>1, <2>3, <3>1 DEF Sign
  <2> QED BY <1>3, <1>12, <2>2, <2>3
<1>13. CASE /\ ~(e > d + 2) /\ ~(e < d - 2) /\ ~(m = 0 /\ p = 0)
            /\ e = d /\ m = p /\ a.compact /\ b.compact
  <2>1. v = m - p
    BY <1>7, <1>13
  <2>2. PICK r3 \in Nat \ {0} : r3 = RadixTo(3)
    BY RadixPowers
  <2>3. n * r3 = q * r3
    BY <1>1, <1>2, <1>13, <2>2 DEF Known
  <2>4. n <= q /\ q <= n
    <3>1. n * r3 <= q * r3 /\ q * r3 <= n * r3
      BY <1>3, <2>3
    <3>2. n <= q
      BY <1>3, <3>1, CancelFactor
    <3>3. q <= n
      BY <1>3, <3>1, CancelFactor
    <3> QED BY <3>2, <3>3
  <2> QED BY <1>3, <1>13, <2>1, <2>4 DEF Sign
<1>14. CASE /\ ~(e > d + 2) /\ ~(e < d - 2) /\ ~(m = 0 /\ p = 0)
            /\ ~(e = d /\ (m # p \/ (a.compact /\ b.compact)))
  <2>1. v = FirstDifference(x, y)
    BY <1>7, <1>14
  <2> QED BY <1>5, <2>1
<1> QED BY <1>9, <1>10, <1>11, <1>12, <1>13, <1>14

(* A compact form keeps what a mantissa can hold. *)
LEMMA CompactKeeps ==
    ASSUME NEW a, WholeHash(a)
    PROVE  CompactKeepsMantissa(a)
<1>1. PICK m, e, n, f : Known(a, m, e, n, f)
  BY HashIsKnown
<1>2. /\ Leads(m, e, n) /\ InFront(m, e)
      /\ m \in Nat /\ e \in Nat /\ e \in 0 .. MaxExponent /\ n \in Nat
      /\ m = M(a) /\ e = E(a) /\ n = Number(a)
  BY <1>1, PlaceFacts DEF Known, Leads, InFront
<1>3. PICK h : h = MakeCompact(a) /\ BytesCopy(h) = Expanded([m |-> m, e |-> e])
  <2>1. BytesCopy(MakeCompact(a)) = Expanded([m |-> m, e |-> e])
    BY <1>2 DEF MakeCompact, Small, BytesCopy
  <2> QED BY <2>1
<1>4. BytesCopy(h) \in [Places -> Nat]
  <2>1. Expanded([m |-> m, e |-> e]) \in [Places -> Digit]
    BY <1>2, ExpandedDigits
  <2>2. Digit \subseteq Nat
    BY RadixFacts DEF Digit
  <2> QED BY <1>3, <2>1, <2>2
<1>5. PICK g : Reads(g, BytesCopy(h)) /\ Number(h) = g[MaxExponent]
  BY <1>4, NumberReads
<1>6. PICK q \in Nat : q = g[MaxExponent] /\ q = Number(h)
  BY <1>5, PlaceFacts DEF Reads
<1>7. PICK r3 \in Nat \ {0}, k \in Nat \ {0} : r3 = RadixTo(3) /\ k = RadixTo(e)
  BY <1>2, RadixPowers
<1>8. q * r3 = m * k
  <2>1. Reads(g, Expanded([m |-> m, e |-> e]))
    BY <1>3, <1>5
  <2>2. g[MaxExponent] * RadixTo(3) = m * RadixTo(e)
    BY <1>2, <2>1, CompactNumber
  <2> QED BY <1>6, <1>7, <2>2
<1>9. m * k <= n * r3 /\ n * r3 < (m + 1) * k
  BY <1>2, <1>7 DEF Leads
<1>10. q <= n
  <2>1. q * r3 <= n * r3
    BY <1>8, <1>9
  <2> QED BY <1>2, <2>1, CancelFactor
<1>11. PICK lost \in Nat : lost = n - q
  BY <1>2, <1>10
<1>12. lost * r3 < k
  <2>1. n * r3 = q * r3 + lost * r3
    <3>1. n = q + lost
      BY <1>2, <1>11
    <3>2. (q + lost) * r3 = q * r3 + lost * r3
      OBVIOUS
    <3> QED BY <3>1, <3>2
  <2>2. (m + 1) * k = m * k + k
    BY <1>2
  <2>3. m * k \in Nat /\ lost * r3 \in Nat /\ q * r3 \in Nat /\ n * r3 \in Nat
    BY <1>2
  <2> QED BY <1>8, <1>9, <2>1, <2>2, <2>3
<1>13. CASE e > 3
  <2>1. PICK d \in Nat : d = e - 3 /\ e = d + 3
    BY <1>2, <1>13
  <2>2. PICK w \in Nat : w = RadixTo(d)
    BY RadixPowers
  <2>3. k = w * r3
    BY <1>7, <2>1, <2>2, RadixAdds
  <2>4. lost * r3 < w * r3
    BY <1>12, <2>3
  <2>5. lost < w
    BY <2>4, CancelFactor
  <2>6. RadixTo(E(a) - 3) = w
    BY <1>2, <2>1, <2>2
  <2> QED BY <1>2, <1>3, <1>6, <1>11, <1>13, <2>5, <2>6 DEF CompactKeepsMantissa
<1>14. CASE ~(e > 3)
  <2>1. k <= r3
    <3>1. PICK d \in Nat : d = 3 - e /\ d + e = 3
      BY <1>2, <1>14
    <3>2. PICK w \in Nat \ {0} : w = RadixTo(d)
      BY RadixPowers
    <3>3. r3 = w * k
      BY <1>2, <1>7, <3>1, <3>2, RadixAdds
    <3>4. PICK v \in Nat : w = 1 + v
      <4>1. w - 1 \in Nat /\ w = 1 + (w - 1)
        OBVIOUS
      <4> QED BY <4>1
    <3>5. w * k = k + v * k /\ v * k \in Nat
      BY <3>4
    <3> QED BY <3>3, <3>5
  <2>2. lost * r3 < 1 * r3
    <3>1. 1 * r3 = r3 /\ lost * r3 \in Nat
      OBVIOUS
    <3> QED BY <1>12, <2>1, <3>1
  <2>3. lost < 1
    BY <2>2, CancelFactor
  <2> QED BY <1>2, <1>3, <1>6, <1>11, <1>14, <2>3 DEF CompactKeepsMantissa
<1> QED BY <1>13, <1>14

(* A complement is the distance to the highest hash. *)
LEMMA ComplementRests ==
    ASSUME NEW a, WholeHash(a)
    PROVE  ComplementIsRest(a)
<1>1. PICK x : x = BytesCopy(a) /\ x \in [Places -> Digit]
  BY WholeDigits
<1>2. PICK y : y = BytesCopy(Complement(a))
  OBVIOUS
<1>3. y = [i \in Places |-> Radix - 1 - x[i]]
  BY <1>1, <1>2 DEF Complement, Large, BytesCopy
<1>4. PICK r \in Nat : r = Radix
  BY RadixFacts
<1>5. \A i \in Places : x[i] \in 0 .. r - 1 /\ y[i] = r - 1 - x[i] /\ y[i] \in Nat
  <2>1. \A i \in Places : x[i] \in 0 .. r - 1
    BY <1>1, <1>4 DEF Digit
  <2> QED BY <1>3, <1>4, <2>1
<1>6. y \in [Places -> Nat]
  BY <1>3, <1>5
<1>7. PICK f : Reads(f, x) /\ Number(a) = f[MaxExponent]
  BY <1>1, WholeDigits, NumberReads
<1>8. PICK g : Reads(g, y) /\ Number(Complement(a)) = g[MaxExponent]
  BY <1>2, <1>6, NumberReads
<1> DEFINE T == {i \in Nat : g[i] = RadixTo(i) - 1 - f[i]}
<1>9. 0 \in T
  <2>1. f[0] = 0 /\ g[0] = 0
    BY <1>7, <1>8 DEF Reads
  <2> QED BY <2>1, RadixPowers
<1>10. ASSUME NEW i \in Nat, i < MaxExponent, i \in T PROVE i + 1 \in T
  <2>1. i \in Places /\ i \in 0 .. MaxExponent
    BY <1>10, PlaceFacts
  <2>2. PICK p \in Nat, q \in Nat, k \in Nat : p = f[i] /\ q = g[i] /\ k = RadixTo(i)
    BY <1>7, <1>8, <2>1, RadixPowers DEF Reads
  <2>3. PICK u \in Nat, v \in Nat : u = x[i] /\ v = y[i] /\ v = r - 1 - u
    BY <1>5, <2>1
  <2>4. f[i + 1] = p * r + u /\ g[i + 1] = q * r + v
    BY <1>4, <1>7, <1>8, <2>1, <2>2, <2>3 DEF Reads
  <2>5. RadixTo(i + 1) = r * k
    BY <1>4, <2>2, RadixPowers
  <2>6. q = k - 1 - p
    BY <1>10, <2>2
  <2>7. q * r + v = r * k - 1 - (p * r + u)
    <3>1. k = q + 1 + p
      BY <2>6
    <3>2. r * (q + 1 + p) = q * r + r + p * r
      OBVIOUS
    <3>3. PICK s \in Nat, t \in Nat : s = q * r /\ t = p * r
      OBVIOUS
    <3>4. r * k = s + r + t
      BY <3>1, <3>2, <3>3
    <3>5. s + v = (s + r + t) - 1 - (t + u)
      BY <2>3
    <3> QED BY <3>3, <3>4, <3>5
  <2> QED BY <2>4, <2>5, <2>7
<1> HIDE DEF T
<1>11. MaxExponent \in T
  <2>1. MaxExponent \in Nat /\ MaxExponent \in 0 .. MaxExponent
    BY PlaceFacts
  <2>2. \A i \in 0 .. MaxExponent : i \in T
    BY <1>9, <1>10, <2>1, InductionUpTo
  <2> QED BY <2>1, <2>2
<1>12. g[MaxExponent] = RadixTo(MaxExponent) - 1 - f[MaxExponent]
  BY <1>11 DEF T
<1> QED BY <1>7, <1>8, <1>12 DEF ComplementIsRest

(* Digits of a text, after a prefix if any, are read as the number they    *)
(* say.                                                                    *)
LEMMA NibblesRead ==
    ASSUME NEW text, NEW s \in Seq(0 .. Root - 1), s = Unprefixed(text),
           Len(s) <= 2 * MaxExponent
    PROVE  Number(FromHex(text)) = Horner(s, Root)
<1> DEFINE odd == Len(s) % 2
           size == (Len(s) + 1) \div 2
           d == [i \in 1 .. size |-> HexByte(s, i)]
<1>1. PICK r \in Nat : r = Root /\ Radix = r * r /\ Radix \in Nat
  BY RadixFacts
<1>2. PICK t \in Seq(Nat) : t = s
  <2>1. Len(s) \in Nat /\ s \in [1 .. Len(s) -> 0 .. Root - 1]
    BY LenProperties
  <2>2. s \in [1 .. Len(s) -> Nat]
    BY <1>1, <2>1
  <2>3. s \in Seq(Nat)
    BY <2>1, <2>2, FunctionIsSeq
  <2> QED BY <2>3
<1>3. PICK n \in Nat, o \in 0 .. 1, l \in Nat :
         n = Len(s) /\ o = odd /\ l = size /\ n + o = 2 * l /\ l <= MaxExponent
         /\ n = Len(t)
  <2>1. Len(s) \in Nat /\ MaxExponent \in Nat
    BY PlaceFacts
  <2>2. odd \in 0 .. 1 /\ size \in Nat /\ Len(s) + odd = 2 * size
    BY <2>1
  <2>3. \A a, b, c, m \in Int : a <= 2 * m /\ c \in 0 .. 1 /\ a + c = 2 * b => b <= m
    OBVIOUS
  <2>4. Len(s) \in Int /\ MaxExponent \in Int /\ odd \in Int /\ size \in Int
    BY <2>1, <2>2
  <2>5. size <= MaxExponent
    <3> HIDE DEF odd, size
    <3> QED BY <2>2, <2>3, <2>4
  <2> QED BY <1>2, <2>1, <2>2, <2>5
<1>4. PICK q \in [0 .. n -> Nat] :
         /\ q[0] = 0
         /\ \A i \in 1 .. n : q[i] = q[i - 1] * r + t[i]
         /\ q[n] = Horner(t, Root)
  BY <1>1, <1>3, HornerUnfolds
<1>5. ASSUME NEW i \in 1 .. l
      PROVE  /\ d[i] = IF i = 1 /\ o = 1 THEN t[1]
                       ELSE t[2*i - 1 - o] * r + t[2*i - o]
             /\ IsNibble(Higher(s, i))
  <2>1. d[i] = HexByte(s, i)
    BY <1>3
  <2>2. \A k \in 1 .. n : t[k] \in 0 .. r - 1 /\ s[k] = t[k]
    <3>1. s \in [1 .. Len(s) -> 0 .. Root - 1]
      BY LenProperties
    <3>2. s \in [1 .. n -> 0 .. r - 1]
      BY <1>1, <1>3, <3>1
    <3> QED BY <1>2, <3>2
  <2>3. 2*i - o \in 1 .. n /\ Lower(s, i) = t[2*i - o] /\ IsNibble(Lower(s, i))
    <3>1. 2*i - o \in 1 .. n
      BY <1>3
    <3>2. Lower(s, i) = s[2*i - o]
      BY <1>3 DEF Lower
    <3>3. Lower(s, i) = t[2*i - o] /\ t[2*i - o] \in 0 .. r - 1
      BY <2>2, <3>1, <3>2
    <3> QED BY <1>1, <3>1, <3>3 DEF IsNibble
  <2>4. CASE i = 1 /\ o = 1
    <3>1. 2*i - 1 - o = 0 /\ 2*i - o = 1
      BY <2>4
    <3>2. Higher(s, i) = 0
      BY <1>3, <3>1 DEF Higher
    <3>3. PICK v \in Nat : v = t[1]
      BY <2>2, <2>3, <3>1
    <3>4. d[i] = 0 * r + v
      BY <1>1, <2>1, <2>3, <3>1, <3>2, <3>3 DEF HexByte
    <3> QED BY <1>1, <2>4, <3>2, <3>3, <3>4, RadixFacts DEF IsNibble
  <2>5. CASE ~(i = 1 /\ o = 1)
    <3>1. 2*i - 1 - o \in 1 .. n /\ 2*i - 1 - o # 0
      BY <1>3, <2>5
    <3>2. Higher(s, i) = t[2*i - 1 - o]
      <4>1. Higher(s, i) = s[2*i - 1 - o]
        BY <1>3, <3>1 DEF Higher
      <4> QED BY <2>2, <3>1, <4>1
    <3>3. IsNibble(Higher(s, i))
      BY <1>1, <2>2, <3>1, <3>2 DEF IsNibble
    <3> QED BY <1>1, <2>1, <2>3, <2>5, <3>2, <3>3 DEF HexByte
  <2> QED BY <2>4, <2>5
<1>6. d = [i \in 1 .. l |-> d[i]] /\ FromHex(text) = FromBytes(d)
  <2>1. d = [i \in 1 .. l |-> HexByte(s, i)] /\ l = (Len(s) + 1) \div 2
    BY <1>3
  <2>2. ~(l > MaxExponent)
    BY <1>3, PlaceFacts
  <2>3. ~\E i \in 1 .. l : ~IsNibble(Higher(s, i))
    BY <1>5
  <2>4. FromHex(text) = FromBytes([i \in 1 .. l |-> HexByte(s, i)])
    BY <2>1, <2>2, <2>3 DEF FromHex
  <2> QED BY <2>1, <2>4
<1> HIDE DEF d, odd, size
<1>7. n + o = 2 * l /\ l <= MaxExponent /\ MaxExponent \in Nat
  BY <1>3, PlaceFacts
<1>8. \A i \in 1 .. n : t[i] \in Nat
  BY <1>3
<1>9. \A i \in 1 .. l : d[i] \in Nat
  <2> TAKE i \in 1 .. l
  <2>1. CASE i = 1 /\ o = 1
    BY <1>3, <1>5, <1>8, <2>1
  <2>2. CASE ~(i = 1 /\ o = 1)
    <3>1. 2*i - 1 - o \in 1 .. n /\ 2*i - o \in 1 .. n
      BY <1>3, <2>2
    <3>2. PICK u \in Nat, v \in Nat : u = t[2*i - 1 - o] /\ v = t[2*i - o]
      BY <1>8, <3>1
    <3>3. PICK w \in Nat : w = u * r
      OBVIOUS
    <3>4. w + v \in Nat
      OBVIOUS
    <3> QED BY <1>5, <2>2, <3>2, <3>3, <3>4
  <2> QED BY <2>1, <2>2
<1>10. d \in Seq(Nat) /\ Len(d) = l
  <2>1. d \in [1 .. l -> Nat]
    BY <1>6, <1>9
  <2> QED BY <2>1, FunctionIsSeq
<1>11. PICK x : x = BytesCopy(FromHex(text)) /\ MaxExponent \in Nat
  BY PlaceFacts
<1>12. x = [i \in Places |-> IF i - (MaxExponent - l) < 0 THEN 0
                             ELSE d[i - (MaxExponent - l) + 1]]
  BY <1>6, <1>10, <1>11 DEF FromBytes, Large, BytesCopy
<1>13. \A i \in 0 .. MaxExponent - l - 1 : x[i] = 0
  <2> TAKE i \in 0 .. MaxExponent - l - 1
  <2>1. i \in Places /\ i - (MaxExponent - l) < 0
    BY <1>7 DEF Places
  <2> QED BY <1>12, <2>1
<1>14. \A i \in 0 .. l - 1 : x[MaxExponent - l + i] = d[i + 1]
  <2> TAKE i \in 0 .. l - 1
  <2>1. /\ MaxExponent - l + i \in Places
        /\ (MaxExponent - l + i) - (MaxExponent - l) = i
    BY <1>7 DEF Places
  <2> QED BY <1>12, <2>1
<1>15. x \in [Places -> Nat]
  <2> SUFFICES ASSUME NEW i \in Places PROVE x[i] \in Nat
    BY <1>12
  <2>1. CASE i - (MaxExponent - l) < 0
    BY <1>12, <2>1
  <2>2. CASE ~(i - (MaxExponent - l) < 0)
    <3>1. i - (MaxExponent - l) + 1 \in 1 .. l
      BY <1>7, <2>2 DEF Places
    <3> QED BY <1>9, <1>12, <2>2, <3>1
  <2> QED BY <2>1, <2>2
<1>16. PICK f : Reads(f, x) /\ Number(FromHex(text)) = f[MaxExponent]
  BY <1>11, <1>15, NumberReads
<1>17. PICK b \in 0 .. MaxExponent : b = MaxExponent - l /\ f[b] = 0
  <2>1. MaxExponent - l \in 0 .. MaxExponent
    BY <1>7
  <2> QED BY <1>13, <1>16, <2>1, ReadsZeros
<1>18. \A i \in 0 .. l - 1 : f[b + (i + 1)] = f[b + i] * (r * r) + d[i + 1]
  <2> TAKE i \in 0 .. l - 1
  <2>1. b + i \in Places /\ (b + i) + 1 = b + (i + 1)
    BY <1>7, <1>17 DEF Places
  <2>2. f[b + (i + 1)] = f[b + i] * Radix + x[b + i]
    BY <1>16, <2>1 DEF Reads
  <2> QED BY <1>1, <1>14, <1>17, <2>2
<1> DEFINE T == {i \in Nat : (i = 0 /\ o = 1) \/ f[b + i] = q[2 * i - o]}
<1>19. 0 \in T
  <2>1. b + 0 = b
    OBVIOUS
  <2>2. o = 0 \/ o = 1
    OBVIOUS
  <2>3. o = 0 => 2 * 0 - o = 0
    OBVIOUS
  <2> QED BY <1>4, <1>17, <2>1, <2>2, <2>3
<1>20. ASSUME NEW i \in Nat, i < l, i \in T PROVE i + 1 \in T
  <2>1. f[b + (i + 1)] = f[b + i] * (r * r) + d[i + 1]
    <3>1. i \in 0 .. l - 1
      BY <1>20
    <3> QED BY <1>18, <3>1
  <2>2. i + 1 \in 1 .. l
    BY <1>7, <1>20
  <2>3. CASE i = 0 /\ o = 1
    <3>1. d[i + 1] = t[1]
      BY <1>5, <2>2, <2>3
    <3>2. f[b + i] = 0
      BY <1>17, <2>3
    <3>3. 1 \in 1 .. n /\ 2 * (i + 1) - o = 1
      BY <1>3, <2>2, <2>3
    <3>4. q[1] = 0 * r + t[1] /\ t[1] \in Nat
      BY <1>4, <1>8, <3>3
    <3>5. f[b + (i + 1)] = 0 * (r * r) + t[1]
      BY <2>1, <3>1, <3>2
    <3>6. f[b + (i + 1)] = q[2 * (i + 1) - o]
      BY <3>3, <3>4, <3>5
    <3> QED BY <3>6
  <2>4. CASE ~(i = 0 /\ o = 1)
    <3>1. PICK j \in Nat : j = 2 * i - o
      <4>1. 2 * i - o \in Nat
        BY <2>4
      <4> QED BY <4>1
    <3>2. /\ 2 * (i + 1) - 1 - o = j + 1 /\ 2 * (i + 1) - o = j + 2
          /\ j + 1 \in 1 .. n /\ j + 2 \in 1 .. n /\ j \in 0 .. n
      BY <1>7, <1>20, <3>1
    <3>3. PICK p \in Nat, u \in Nat, v \in Nat :
             p = q[j] /\ u = t[j + 1] /\ v = t[j + 2]
      BY <1>4, <1>8, <3>2
    <3>4. d[i + 1] = u * r + v
      <4>1. ~(i + 1 = 1 /\ o = 1)
        BY <2>4
      <4> QED BY <1>5, <2>2, <3>2, <3>3, <4>1
    <3>5. q[j + 1] = p * r + u
      <4>1. (j + 1) - 1 = j
        OBVIOUS
      <4> QED BY <1>4, <3>2, <3>3, <4>1
    <3>6. q[j + 2] = (p * r + u) * r + v
      <4>1. (j + 2) - 1 = j + 1
        OBVIOUS
      <4> QED BY <1>4, <3>2, <3>3, <3>5, <4>1
    <3>7. f[b + i] = p
      BY <1>20, <2>4, <3>1, <3>3
    <3>8. p * (r * r) + (u * r + v) = (p * r + u) * r + v
      OBVIOUS
    <3>9. f[b + (i + 1)] = q[2 * (i + 1) - o]
      BY <2>1, <3>2, <3>4, <3>6, <3>7, <3>8
    <3> QED BY <3>9
  <2> QED BY <2>3, <2>4
<1> HIDE DEF T
<1>21. l \in T
  <2>1. \A i \in 0 .. l : i \in T
    BY <1>19, <1>20, InductionUpTo
  <2> QED BY <2>1
<1>22. f[MaxExponent] = q[n]
  <2>1. b + l = MaxExponent /\ 2 * l - o = n /\ ~(l = 0 /\ o = 1)
    BY <1>7, <1>17
  <2> QED BY <1>21, <2>1 DEF T
<1> QED BY <1>2, <1>4, <1>16, <1>22

(* Text is read as the number it says.                                     *)
LEMMA TextReads ==
    ASSUME NEW text \in Seq(Character)
    PROVE  TextIsNumber(text)
<1>1. PICK s : s = Unprefixed(text)
  OBVIOUS
<1>2. Root \in Nat
  BY RadixFacts
<1>3. s \in Seq(Character)
  <2>1. SubSeq(text, 3, Len(text)) \in Seq(Character)
    BY SubSeqProperties
  <2> QED BY <1>1, <2>1 DEF Unprefixed
<1>4. SUFFICES ASSUME IsHex(s), Len(s) <= 2 * MaxExponent
               PROVE  Number(FromHex(text)) = Horner(s, Root)
  BY <1>1 DEF TextIsNumber
<1>5. s \in Seq(0 .. Root - 1)
  <2>1. Len(s) \in Nat /\ s \in [1 .. Len(s) -> Character]
    BY <1>3, LenProperties
  <2>2. \A i \in 1 .. Len(s) : s[i] \in 0 .. Root - 1
    BY <1>2, <1>4, <2>1 DEF IsHex, IsNibble, Character
  <2>3. s \in [1 .. Len(s) -> 0 .. Root - 1]
    BY <2>1, <2>2
  <2> QED BY <2>1, <2>3, FunctionIsSeq
<1> QED BY <1>1, <1>4, <1>5, NibblesRead

(* Tables of bits, with nothing from nothing. *)
IsTable(table) == table \in [Bit \X Bit -> Bit] /\ table[<<0, 0>>] = 0

(* An operator on bits is one on the last bits, and one on the rest. *)
LEMMA OneBit ==
    ASSUME NEW table, IsTable(table), NEW a \in Nat, NEW b \in Nat
    PROVE  /\ OnBits(table, 0, 0) = 0
           /\ OnBits(table, a, b) \in Nat
           /\ OnBits(table, a, b) = 2 * OnBits(table, a \div 2, b \div 2)
                                       + table[<<a % 2, b % 2>>]
<1> DEFINE P == Nat \X Nat
           size == [p \in P |-> p[1] + p[2]]
           next == [p \in P |-> Halves(p)]
           G == [p \in P |-> [v \in Nat |-> 2 * v + table[LastBits(p)]]]
           Body(on) == [p \in P |-> IF p = <<0, 0>> THEN 0
                                    ELSE 2 * on[Halves(p)] + table[LastBits(p)]]
           on == CHOOSE on : on = Body(on)
<1>1. \A p \in P : /\ Halves(p) \in P /\ LastBits(p) \in Bit \X Bit
                   /\ p[1] \in Nat /\ p[2] \in Nat
  <2> TAKE p \in P
  <2>1. p[1] \in Nat /\ p[2] \in Nat
    OBVIOUS
  <2>2. p[1] \div 2 \in Nat /\ p[2] \div 2 \in Nat /\ p[1] % 2 \in Bit /\ p[2] % 2 \in Bit
    BY <2>1 DEF Bit
  <2> QED BY <2>1, <2>2 DEF Halves, LastBits
<1>2. \A p \in P : table[LastBits(p)] \in Nat
  <2>1. Bit \subseteq Nat
    BY DEF Bit
  <2> QED BY <1>1, <2>1 DEF IsTable
<1>3. size \in [P -> Nat] /\ next \in [P -> P]
  <2> HIDE DEF P
  <2> QED BY <1>1
<1>4. G \in [P -> [Nat -> Nat]]
  <2>1. \A p \in P : \A v \in Nat : 2 * v + table[LastBits(p)] \in Nat
    BY <1>2
  <2> HIDE DEF P
  <2> QED BY <2>1
<1>5. \A p \in P : size[p] = 0 <=> p = <<0, 0>>
  BY <1>1
<1>6. \A p \in P : size[p] # 0 => size[next[p]] < size[p]
  <2> TAKE p \in P
  <2>1. PICK x \in Nat, y \in Nat : x = p[1] /\ y = p[2]
    OBVIOUS
  <2>2. size[p] = x + y
    BY <2>1
  <2>3. size[next[p]] = x \div 2 + y \div 2
    BY <1>1, <2>1 DEF Halves
  <2>4. x + y # 0 => x \div 2 + y \div 2 < x + y
    OBVIOUS
  <2> QED BY <2>2, <2>3, <2>4
<1>7. PICK z \in Nat : z = 0
  OBVIOUS
<1>8. PICK f \in [P -> Nat] :
         \A p \in P : f[p] = IF size[p] = 0 THEN z ELSE G[p][f[next[p]]]
  <2>1. Shrinks(P, size, next)
    <3> HIDE DEF P, size, next
    <3> QED BY <1>6 DEF Shrinks
  <2> HIDE DEF P, size, next, G
  <2>2. \E f \in [P -> Nat] : Descends(f, P, z, size, next, G)
    BY <1>3, <1>4, <2>1, Descent
  <2> QED BY <2>2 DEF Descends
<1>9. ASSUME NEW p \in P
      PROVE  f[p] = IF p = <<0, 0>> THEN 0 ELSE 2 * f[Halves(p)] + table[LastBits(p)]
  <2>1. next[p] = Halves(p) /\ Halves(p) \in P /\ f[Halves(p)] \in Nat
    BY <1>1
  <2>2. G[p][f[Halves(p)]] = 2 * f[Halves(p)] + table[LastBits(p)]
    BY <2>1
  <2> HIDE DEF P, size, next, G
  <2> QED BY <1>5, <1>8, <1>7, <2>1, <2>2
<1>10. f = Body(f)
  <2> HIDE DEF P
  <2> QED BY <1>9
<1>11. on = Body(on)
  <2> HIDE DEF Body
  <2> QED BY <1>10
<1>12. \A x, y : OnBits(table, x, y) = on[<<x, y>>]
  BY DEF OnBits
<1> HIDE DEF on
<1>13. \A p \in P : on[p] = IF p = <<0, 0>> THEN 0
                            ELSE 2 * on[Halves(p)] + table[LastBits(p)]
  <2> HIDE DEF P
  <2> QED BY <1>11
<1> DEFINE T == {k \in Nat : \A p \in P : size[p] <= k => on[p] \in Nat}
<1>14. 0 \in T
  <2> SUFFICES ASSUME NEW p \in P, size[p] <= 0 PROVE on[p] \in Nat
    OBVIOUS
  <2>1. size[p] = 0
    BY <1>3
  <2>2. p = <<0, 0>>
    BY <1>5, <2>1
  <2> QED BY <1>13, <2>2
<1>15. ASSUME NEW k \in Nat, k \in T PROVE k + 1 \in T
  <2> SUFFICES ASSUME NEW p \in P, size[p] <= k + 1 PROVE on[p] \in Nat
    OBVIOUS
  <2>1. CASE p = <<0, 0>>
    BY <1>13, <2>1
  <2>2. CASE p # <<0, 0>>
    <3>1. next[p] = Halves(p) /\ Halves(p) \in P
      BY <1>1
    <3>2. size[Halves(p)] <= k
      <4>1. size[p] \in Nat /\ size[p] # 0 /\ size[Halves(p)] \in Nat
        BY <1>3, <1>5, <2>2, <3>1
      <4>2. size[Halves(p)] < size[p]
        BY <1>6, <3>1, <4>1
      <4> HIDE DEF size, P, next
      <4> QED BY <4>1, <4>2
    <3>3. on[Halves(p)] \in Nat
      <4> HIDE DEF size, P, next
      <4> QED BY <1>15, <3>1, <3>2
    <3>4. on[p] = 2 * on[Halves(p)] + table[LastBits(p)]
      BY <1>13, <2>2
    <3>5. table[LastBits(p)] \in Nat
      BY <1>2
    <3> QED BY <3>3, <3>4, <3>5
  <2> QED BY <2>1, <2>2
<1>16. \A p \in P : on[p] \in Nat
  <2> HIDE DEF T, P, size
  <2>1. Nat \subseteq T
    BY <1>14, <1>15, Induction
  <2> TAKE p \in P
  <2>2. size[p] \in Nat /\ size[p] \in T
    BY <1>3, <2>1
  <2> QED BY <2>2 DEF T
<1>17. <<0, 0>> \in P /\ on[<<0, 0>>] = 0
  <2>1. <<0, 0>> \in P
    OBVIOUS
  <2> QED BY <1>13, <2>1
<1>18. PICK p \in P : p = <<a, b>>
  OBVIOUS
<1>19. Halves(p) = <<a \div 2, b \div 2>> /\ LastBits(p) = <<a % 2, b % 2>>
  BY <1>18 DEF Halves, LastBits
<1>20. on[p] = 2 * on[Halves(p)] + table[LastBits(p)]
  <2>1. CASE p = <<0, 0>>
    <3>1. Halves(p) = <<0, 0>> /\ LastBits(p) = <<0, 0>>
      <4>1. a = 0 /\ b = 0
        BY <1>18, <2>1
      <4>2. 0 \div 2 = 0 /\ 0 % 2 = 0
        OBVIOUS
      <4> QED BY <1>19, <4>1, <4>2
    <3> QED BY <1>17, <2>1, <3>1 DEF IsTable
  <2>2. CASE p # <<0, 0>>
    BY <1>13, <2>2
  <2> QED BY <2>1, <2>2
<1>21. OnBits(table, 0, 0) = 0
  BY <1>12, <1>17
<1>22. OnBits(table, a, b) = on[p] /\ on[p] \in Nat
  BY <1>12, <1>16, <1>18
<1>23. OnBits(table, a \div 2, b \div 2) = on[Halves(p)]
  BY <1>12, <1>19
<1>24. OnBits(table, a, b) = 2 * OnBits(table, a \div 2, b \div 2) + table[<<a % 2, b % 2>>]
  BY <1>19, <1>20, <1>22, <1>23
<1> QED BY <1>21, <1>22, <1>24

(* The tables of the three operators. *)
LEMMA Tables ==
    /\ IsTable(Both) /\ IsTable(Either) /\ IsTable(Differ)
    /\ \A l \in Bit : /\ Both[<<l, 0>>] = 0 /\ Both[<<0, l>>] = 0
                      /\ Either[<<l, 0>>] = l /\ Differ[<<l, 0>>] = l
<1>1. \A p \in Bit \X Bit : p[1] \in {0, 1} /\ p[2] \in {0, 1}
  BY DEF Bit
<1>2. \A l, m \in {0, 1} : /\ l * m \in {0, 1} /\ l + m - l * m \in {0, 1}
                           /\ (l + m) % 2 \in {0, 1}
  OBVIOUS
<1>3. /\ Both \in [Bit \X Bit -> Bit] /\ Either \in [Bit \X Bit -> Bit]
      /\ Differ \in [Bit \X Bit -> Bit]
  BY <1>1, <1>2 DEF Both, Either, Differ, Bit
<1>4. ASSUME NEW l \in Bit
      PROVE  /\ Both[<<l, 0>>] = 0 /\ Both[<<0, l>>] = 0
             /\ Either[<<l, 0>>] = l /\ Differ[<<l, 0>>] = l
             /\ Either[<<0, 0>>] = 0 /\ Differ[<<0, 0>>] = 0
  <2>1. l \in {0, 1}
    BY DEF Bit
  <2>2. <<l, 0>> \in Bit \X Bit /\ <<0, l>> \in Bit \X Bit /\ <<0, 0>> \in Bit \X Bit
    BY DEF Bit
  <2>3. ASSUME NEW p \in Bit \X Bit
        PROVE  /\ Both[p] = p[1] * p[2] /\ Either[p] = p[1] + p[2] - p[1] * p[2]
               /\ Differ[p] = (p[1] + p[2]) % 2
    BY DEF Both, Either, Differ
  <2>4. Both[<<l, 0>>] = 0 /\ Either[<<l, 0>>] = l /\ Differ[<<l, 0>>] = l
    <3>1. PICK p \in Bit \X Bit : p = <<l, 0>> /\ p[1] = l /\ p[2] = 0
      BY <2>2
    <3>2. l * 0 = 0 /\ l + 0 - 0 = l /\ (l + 0) % 2 = l
      BY <2>1
    <3> QED BY <2>3, <3>1, <3>2
  <2>5. Both[<<0, l>>] = 0
    <3>1. PICK p \in Bit \X Bit : p = <<0, l>> /\ p[1] = 0 /\ p[2] = l
      BY <2>2
    <3>2. 0 * l = 0
      BY <2>1
    <3> QED BY <2>3, <3>1, <3>2
  <2>6. Either[<<0, 0>>] = 0 /\ Differ[<<0, 0>>] = 0
    <3>1. PICK p \in Bit \X Bit : p = <<0, 0>> /\ p[1] = 0 /\ p[2] = 0
      BY <2>2
    <3>2. 0 + 0 - 0 * 0 = 0 /\ (0 + 0) % 2 = 0
      OBVIOUS
    <3> QED BY <2>3, <3>1, <3>2
  <2> QED BY <2>4, <2>5, <2>6
<1>5. 0 \in Bit
  BY DEF Bit
<1> QED BY <1>3, <1>4, <1>5 DEF IsTable

(* An operator on bits works on what is above d, and on what is below it. *)
Splits(table, d) ==
    \A a, b \in Nat :
        /\ OnBits(table, a, b) \div d = OnBits(table, a \div d, b \div d)
        /\ OnBits(table, a, b) % d = OnBits(table, a % d, b % d)

(* A number n cut at its last bit and at d, c being twice d. *)
Cuts(n, d, c, h, l, q, s, t) ==
    /\ n \div 2 = h /\ n % 2 = l /\ h \div d = q /\ h % d = s
    /\ t = 2 * s + l /\ n \div c = q /\ n % c = t
    /\ t \div 2 = s /\ t % 2 = l

(* What can be cut at d can be cut at twice d. *)
LEMMA SplitsTwice ==
    ASSUME NEW table, IsTable(table), NEW d \in Nat \ {0}, Splits(table, d)
    PROVE  Splits(table, 2 * d)
<1> SUFFICES ASSUME NEW a \in Nat, NEW b \in Nat
             PROVE  /\ OnBits(table, a, b) \div (2 * d)
                          = OnBits(table, a \div (2 * d), b \div (2 * d))
                    /\ OnBits(table, a, b) % (2 * d)
                          = OnBits(table, a % (2 * d), b % (2 * d))
  BY DEF Splits
<1>1. PICK c \in Nat \ {0} : c = 2 * d
  OBVIOUS
<1>2. ASSUME NEW n \in Nat
      PROVE  \E h \in Nat, l \in 0 .. 1, q \in Nat, s \in 0 .. d - 1, t \in 0 .. c - 1 :
                Cuts(n, d, c, h, l, q, s, t)
  <2>1. PICK h \in Nat, l \in 0 .. 1 : n = 2 * h + l /\ n \div 2 = h /\ n % 2 = l
    OBVIOUS
  <2>2. PICK q \in Nat, s \in Nat :
           s < d /\ h = q * d + s /\ h \div d = q /\ h % d = s
    BY DivisionExists
  <2>3. PICK t \in 0 .. c - 1 : t = 2 * s + l
    BY <1>1, <2>2
  <2>4. n = q * c + t
    <3>1. 2 * (q * d + s) + l = q * (2 * d) + (2 * s + l)
      OBVIOUS
    <3> QED BY <1>1, <2>1, <2>2, <2>3, <3>1
  <2>5. DivMod(n, c, q, t)
    BY <2>4, Euclid
  <2>6. t \div 2 = s /\ t % 2 = l
    BY <2>2, <2>3
  <2>7. s \in 0 .. d - 1
    BY <2>2
  <2> QED BY <2>1, <2>2, <2>3, <2>5, <2>6, <2>7 DEF DivMod, Cuts
<1>3. PICK h \in Nat, l \in 0 .. 1, q \in Nat, s \in 0 .. d - 1, t \in 0 .. c - 1 :
         Cuts(a, d, c, h, l, q, s, t)
  BY <1>2
<1>4. PICK hb \in Nat, lb \in 0 .. 1, qb \in Nat, sb \in 0 .. d - 1, tb \in 0 .. c - 1 :
         Cuts(b, d, c, hb, lb, qb, sb, tb)
  BY <1>2
<1>5. t \in Nat /\ tb \in Nat /\ s \in Nat /\ sb \in Nat
  BY <1>1
<1>6. PICK bit \in {0, 1} : bit = table[<<l, lb>>]
  BY DEF IsTable, Bit
<1>7. PICK n \in Nat, w \in Nat, u \in Nat, v \in Nat, x \in Nat :
         /\ n = OnBits(table, a, b) /\ w = OnBits(table, h, hb)
         /\ u = OnBits(table, q, qb) /\ v = OnBits(table, s, sb)
         /\ x = OnBits(table, t, tb)
  BY <1>5, OneBit
<1>8. n = 2 * w + bit
  <2>1. OnBits(table, a, b) = 2 * OnBits(table, a \div 2, b \div 2)
                                 + table[<<a % 2, b % 2>>]
    BY OneBit
  <2> QED BY <1>3, <1>4, <1>6, <1>7, <2>1 DEF Cuts
<1>9. x = 2 * v + bit
  <2>1. OnBits(table, t, tb) = 2 * OnBits(table, t \div 2, tb \div 2)
                                 + table[<<t % 2, tb % 2>>]
    BY <1>5, OneBit
  <2> QED BY <1>3, <1>4, <1>6, <1>7, <2>1 DEF Cuts
<1>10. w \div d = u /\ w % d = v
  <2>1. /\ OnBits(table, h, hb) \div d = OnBits(table, h \div d, hb \div d)
        /\ OnBits(table, h, hb) % d = OnBits(table, h % d, hb % d)
    BY DEF Splits
  <2> QED BY <1>3, <1>4, <1>7, <2>1 DEF Cuts
<1>11. w = u * d + v /\ v < d
  <2>1. PICK e \in Nat, r \in Nat :
           r < d /\ w = e * d + r /\ w \div d = e /\ w % d = r
    BY DivisionExists
  <2> QED BY <1>10, <2>1
<1>12. x \in 0 .. c - 1
  BY <1>1, <1>9, <1>11
<1>13. n = u * c + x
  <2>1. 2 * (u * d + v) + bit = u * (2 * d) + (2 * v + bit)
    OBVIOUS
  <2> QED BY <1>1, <1>8, <1>9, <1>11, <2>1
<1>14. DivMod(n, c, u, x)
  BY <1>12, <1>13, Euclid
<1> QED BY <1>1, <1>3, <1>4, <1>7, <1>14 DEF DivMod, Cuts

(* Powers of two. *)
LEMMA TwoPowers ==
    /\ TwoTo[0] = 1
    /\ \A k \in Nat : TwoTo[k] \in Nat \ {0} /\ TwoTo[k + 1] = 2 * TwoTo[k]
<1>1. PICK b \in Nat \ {0} : b = 2
  OBVIOUS
<1>2. PICK f \in [Nat -> Nat \ {0}] :
         /\ f = [k \in Nat |-> IF k = 0 THEN 1 ELSE b * f[k - 1]]
         /\ f[0] = 1 /\ \A k \in Nat : f[k + 1] = b * f[k]
  BY PowersExist
<1>3. f = [k \in Nat |-> IF k = 0 THEN 1 ELSE 2 * f[k - 1]]
  BY <1>1, <1>2
<1>4. TwoTo = [k \in Nat |-> IF k = 0 THEN 1 ELSE 2 * TwoTo[k - 1]]
  BY <1>3 DEF TwoTo
<1>5. TwoTo[0] = 1
  BY <1>4
<1>6. ASSUME NEW k \in Nat PROVE TwoTo[k + 1] = 2 * TwoTo[k]
  <2>1. k + 1 \in Nat /\ k + 1 # 0 /\ (k + 1) - 1 = k
    OBVIOUS
  <2> QED BY <1>4, <2>1
<1> DEFINE T == {k \in Nat : TwoTo[k] \in Nat \ {0}}
<1>7. 0 \in T
  BY <1>5
<1>8. ASSUME NEW k \in Nat, k \in T PROVE k + 1 \in T
  BY <1>6, <1>8
<1> HIDE DEF T
<1>9. Nat \subseteq T
  BY <1>7, <1>8, Induction
<1> QED BY <1>5, <1>6, <1>9 DEF T

(* The radix and its powers are powers of two. *)
LEMMA RadixSplits ==
    ASSUME NEW table, IsTable(table), NEW j \in Nat
    PROVE  Splits(table, RadixTo(j))
<1> DEFINE S == {d \in Nat \ {0} : Splits(table, d)}
           Q == {x \in Nat \ {0} : \A d \in S : x * d \in S}
<1>1. 1 \in S
  <2> SUFFICES ASSUME NEW a \in Nat, NEW b \in Nat
               PROVE  /\ OnBits(table, a, b) \div 1 = OnBits(table, a \div 1, b \div 1)
                      /\ OnBits(table, a, b) % 1 = OnBits(table, a % 1, b % 1)
    BY DEF Splits
  <2>1. \A n \in Nat : n \div 1 = n /\ n % 1 = 0
    OBVIOUS
  <2>2. OnBits(table, 0, 0) = 0 /\ OnBits(table, a, b) \in Nat
    BY OneBit
  <2> QED BY <2>1, <2>2
<1>2. ASSUME NEW d \in S PROVE 2 * d \in S
  <2>1. Splits(table, 2 * d) /\ 2 * d \in Nat \ {0}
    BY SplitsTwice
  <2> QED BY <2>1
<1>3. S \subseteq Nat \ {0}
  OBVIOUS
<1> HIDE DEF S
<1> DEFINE K == {k \in Nat : TwoTo[k] \in Q}
<1>4. 0 \in K
  <2>1. \A d \in S : 1 * d \in S
    BY <1>3
  <2> QED BY <2>1, TwoPowers
<1>5. ASSUME NEW k \in Nat, k \in K PROVE k + 1 \in K
  <2>1. PICK x \in Nat \ {0} : x = TwoTo[k] /\ 2 * x = TwoTo[k + 1]
    BY TwoPowers
  <2>2. ASSUME NEW d \in S PROVE (2 * x) * d \in S
    <3>1. x * d \in S
      BY <1>5, <2>1
    <3>2. 2 * (x * d) \in S
      BY <1>2, <3>1
    <3>3. (2 * x) * d = 2 * (x * d)
      BY <1>3
    <3> QED BY <3>2, <3>3
  <2>3. 2 * x \in Q
    BY <2>2
  <2> QED BY <2>1, <2>3
<1>6. Root \in Q
  <2> HIDE DEF K
  <2>1. Nat \subseteq K
    BY <1>4, <1>5, Induction
  <2>2. PICK k \in 1 .. Root : Root = TwoTo[k]
    BY StoredHashAssumption
  <2>3. k \in Nat
    BY <2>2, RadixFacts
  <2> QED BY <2>1, <2>2, <2>3 DEF K
<1>7. \A d \in S : Root * d \in S
  BY <1>6
<1> HIDE DEF Q
<1> DEFINE J == {i \in Nat : RadixTo(i) \in S}
<1>8. 0 \in J
  BY <1>1, RadixPowers
<1>9. ASSUME NEW i \in Nat, i \in J PROVE i + 1 \in J
  <2>1. PICK d \in S : d = RadixTo(i) /\ d \in Nat
    BY <1>3, <1>9
  <2>2. Root * (Root * d) \in S
    BY <1>7
  <2>3. RadixTo(i + 1) = Root * (Root * d)
    <3>1. RadixTo(i + 1) = Radix * d
      BY <2>1, RadixPowers
    <3>2. PICK r \in Nat : r = Root /\ Radix = r * r
      BY RadixFacts
    <3>3. (r * r) * d = r * (r * d)
      BY <2>1
    <3> QED BY <3>1, <3>2, <3>3
  <2> QED BY <2>2, <2>3
<1>10. j \in J
  <2> HIDE DEF J
  <2>1. Nat \subseteq J
    BY <1>8, <1>9, Induction
  <2> QED BY <2>1
<1> QED BY <1>10 DEF S

(* An operator on bits works digit by digit. *)
LEMMA DigitsOfBits ==
    ASSUME NEW table, IsTable(table), NEW m \in Nat, NEW n \in Nat, NEW k \in 0 .. 2
    PROVE  DigitOf(OnBits(table, m, n), k) = OnBits(table, DigitOf(m, k), DigitOf(n, k))
<1>1. PICK d \in Nat \ {0}, r \in Nat \ {0} :
         d = RadixTo(2 - k) /\ r = Radix /\ r = RadixTo(1)
  BY RadixPowers, RadixFacts
<1>2. Splits(table, d) /\ Splits(table, r)
  <2>1. 2 - k \in Nat /\ 1 \in Nat
    OBVIOUS
  <2> QED BY <1>1, <2>1, RadixSplits
<1>3. PICK p \in Nat, q \in Nat : p = m \div d /\ q = n \div d
  <2>1. m \div d \in Nat /\ n \div d \in Nat
    BY DivisionExists
  <2> QED BY <2>1
<1>4. OnBits(table, m, n) \div d = OnBits(table, p, q)
  BY <1>2, <1>3 DEF Splits
<1>5. OnBits(table, p, q) % r = OnBits(table, p % r, q % r)
  BY <1>2 DEF Splits
<1> QED BY <1>1, <1>3, <1>4, <1>5 DEF DigitOf

(* Zero on one side. *)
LEMMA BitsWithZero ==
    ASSUME NEW x \in Nat
    PROVE  /\ And(x, 0) = 0 /\ And(0, x) = 0 /\ Or(x, 0) = x /\ Xor(x, 0) = x
           /\ Or(0, 0) = 0 /\ Xor(0, 0) = 0 /\ And(0, 0) = 0
<1> DEFINE Right(n) == /\ OnBits(Both, n, 0) = 0 /\ OnBits(Both, 0, n) = 0
                       /\ OnBits(Either, n, 0) = n /\ OnBits(Differ, n, 0) = n
           T == {k \in Nat : \A n \in 0 .. k : Right(n)}
<1>1. Right(0)
  BY OneBit, Tables
<1>2. 0 \in T
  BY <1>1
<1>3. ASSUME NEW k \in Nat, k \in T PROVE k + 1 \in T
  <2> SUFFICES ASSUME NEW n \in 0 .. k + 1 PROVE Right(n)
    OBVIOUS
  <2>1. PICK h \in Nat, l \in {0, 1} : n = 2 * h + l /\ n \div 2 = h /\ n % 2 = l
    OBVIOUS
  <2>2. 0 \div 2 = 0 /\ 0 % 2 = 0 /\ n \in Nat /\ l \in Bit
    BY DEF Bit
  <2>3. h \in 0 .. k
    BY <2>1
  <2>4. Right(h)
    BY <1>3, <2>3
  <2>5. OnBits(Both, n, 0) = 0
    <3>1. OnBits(Both, n, 0) = 2 * OnBits(Both, n \div 2, 0 \div 2)
                                  + Both[<<n % 2, 0 % 2>>]
      BY <2>2, OneBit, Tables
    <3>2. Both[<<l, 0>>] = 0
      BY <2>2, Tables
    <3> QED BY <2>1, <2>2, <2>4, <3>1, <3>2
  <2>6. OnBits(Both, 0, n) = 0
    <3>1. OnBits(Both, 0, n) = 2 * OnBits(Both, 0 \div 2, n \div 2)
                                  + Both[<<0 % 2, n % 2>>]
      BY <2>2, OneBit, Tables
    <3>2. Both[<<0, l>>] = 0
      BY <2>2, Tables
    <3> QED BY <2>1, <2>2, <2>4, <3>1, <3>2
  <2>7. OnBits(Either, n, 0) = n
    <3>1. OnBits(Either, n, 0) = 2 * OnBits(Either, n \div 2, 0 \div 2)
                                  + Either[<<n % 2, 0 % 2>>]
      BY <2>2, OneBit, Tables
    <3> QED BY <2>1, <2>2, <2>4, <3>1, Tables
  <2>8. OnBits(Differ, n, 0) = n
    <3>1. OnBits(Differ, n, 0) = 2 * OnBits(Differ, n \div 2, 0 \div 2)
                                  + Differ[<<n % 2, 0 % 2>>]
      BY <2>2, OneBit, Tables
    <3> QED BY <2>1, <2>2, <2>4, <3>1, Tables
  <2> QED BY <2>5, <2>6, <2>7, <2>8
<1>4. Right(x)
  <2> HIDE DEF T
  <2>1. Nat \subseteq T
    BY <1>2, <1>3, Induction
  <2>2. x \in T
    BY <2>1
  <2> QED BY <2>2 DEF T
<1> QED BY <1>1, <1>4 DEF And, Or, Xor

(* What a compact hash is made of. *)
LEMMA WholeCompact ==
    ASSUME NEW h, WholeHash(h), h.compact
    PROVE  \E m \in Nat, e \in 0 .. MaxExponent :
              /\ m = M(h) /\ e = E(h) /\ m < RadixTo(3)
              /\ BytesCopy(h) = Expanded([m |-> m, e |-> e])
<1>1. PICK c \in Compact : h = Small(c)
  <2>1. ASSUME NEW x, h = Large(x) PROVE FALSE
    BY <2>1 DEF Large
  <2> QED BY <2>1 DEF WholeHash
<1>2. /\ c.m \in Nat /\ c.m < RadixTo(3) /\ c.e \in 0 .. MaxExponent
      /\ c = [m |-> c.m, e |-> c.e]
  BY CompactIs
<1>3. M(h) = c.m /\ E(h) = c.e /\ BytesCopy(h) = Expanded(c)
  BY <1>1 DEF Small, M, E, BytesCopy
<1> QED BY <1>2, <1>3

(* One digit of an expanded hash. *)
LEMMA ExpandedAt ==
    ASSUME NEW m, NEW e, NEW i \in Places, NEW k, k = i - (MaxExponent - e)
    PROVE  Expanded([m |-> m, e |-> e])[i] = IF k \in 0 .. 2 THEN DigitOf(m, k) ELSE 0
BY DEF Expanded

(* Zero has no digit but zero. *)
LEMMA ZeroDigits ==
    /\ \A k \in 0 .. 2 : DigitOf(0, k) = 0
    /\ \A i \in Places : BytesCopy(SmallZero)[i] = 0
<1>1. ASSUME NEW k \in 0 .. 2 PROVE DigitOf(0, k) = 0
  <2>1. PICK d \in Nat \ {0}, r \in Nat \ {0} : d = RadixTo(2 - k) /\ r = Radix
    BY RadixPowers, RadixFacts
  <2>2. PICK z \in Nat : z = 0
    OBVIOUS
  <2>3. z = z * d + z /\ z \in 0 .. d - 1 /\ z = z * r + z /\ z \in 0 .. r - 1
    BY <2>2
  <2>4. DivMod(z, d, z, z) /\ DivMod(z, r, z, z)
    BY <2>3, Euclid
  <2> QED BY <2>1, <2>2, <2>4 DEF DigitOf, DivMod
<1>2. ASSUME NEW i \in Places PROVE BytesCopy(SmallZero)[i] = 0
  <2>1. BytesCopy(SmallZero) = Expanded([m |-> 0, e |-> 0])
    BY DEF SmallZero, Small, Zero, BytesCopy
  <2>2. i - (MaxExponent - 0) \notin 0 .. 2
    BY PlaceFacts
  <2> QED BY <2>1, <2>2, ExpandedAt
<1> QED BY <1>1, <1>2

(* A mantissa that is moved to another exponent keeps the digits that its  *)
(* places there have room for.                                             *)
LEMMA MovedDigits ==
    ASSUME NEW m \in Nat, m < RadixTo(3), NEW by \in -2 .. 2, NEW k \in 0 .. 2
    PROVE  /\ Moved(m, by) \in Nat
           /\ DigitOf(Moved(m, by), k) = IF k + by \in 0 .. 2 THEN DigitOf(m, k + by) ELSE 0
<1>1. PICK r \in Nat \ {0} : r = Radix
  BY RadixFacts
<1>2. PICK d \in Nat \ {0} : d = RadixTo(2 - k)
  BY RadixPowers
<1>3. CASE by >= 0
  <2>1. PICK p \in Nat \ {0} : p = RadixTo(by)
    BY <1>3, RadixPowers
  <2>2. PICK n \in Nat : n = m * p
    OBVIOUS
  <2>3. Moved(m, by) = n
    BY <1>3, <2>1, <2>2 DEF Moved
  <2>4. CASE k + by <= 2
    <3>1. PICK j \in Nat : j = 2 - (k + by) /\ by + j = 2 - k
      BY <1>3, <2>4
    <3>2. PICK q \in Nat \ {0} : q = RadixTo(j)
      BY RadixPowers
    <3>3. d = p * q
      BY <1>2, <1>3, <2>1, <3>1, <3>2, RadixAdds
    <3>4. Divides(d, p, q, n)
      BY <3>3, DivideTwice
    <3>5. n \div p = m
      <4>1. n = m * p + 0 /\ 0 \in 0 .. p - 1
        BY <2>2
      <4>2. DivMod(n, p, m, 0)
        BY <4>1, Euclid
      <4> QED BY <4>2 DEF DivMod
    <3>6. n \div d = m \div q
      BY <3>4, <3>5 DEF Divides
    <3>7. k + by \in 0 .. 2 /\ j = 2 - (k + by)
      BY <1>3, <2>4, <3>1
    <3>8. DigitOf(n, k) = DigitOf(m, k + by)
      BY <1>2, <3>2, <3>6, <3>7 DEF DigitOf
    <3> QED BY <2>3, <3>7, <3>8
  <2>5. CASE k + by > 2
    <3>1. PICK j \in Nat : j = by - (2 - k) - 1 /\ (2 - k) + (j + 1) = by
      BY <1>3, <2>5
    <3>2. PICK q \in Nat \ {0} : q = RadixTo(j) /\ RadixTo(j + 1) = r * q
      BY <1>1, RadixPowers
    <3>3. p = d * (r * q)
      <4>1. 2 - k \in Nat /\ j + 1 \in Nat
        OBVIOUS
      <4> QED BY <1>2, <2>1, <3>1, <3>2, <4>1, RadixAdds
    <3>4. PICK u \in Nat : u = m * q
      OBVIOUS
    <3>5. PICK v \in Nat : v = u * r + 0
      <4>1. u * r + 0 \in Nat
        OBVIOUS
      <4> QED BY <4>1
    <3>6. n = v * d + 0
      <4>1. m * (d * (r * q)) = ((m * q) * r) * d
        OBVIOUS
      <4>2. n = (u * r) * d
        BY <2>2, <3>3, <3>4, <4>1
      <4>3. v = u * r
        <5>1. PICK t \in Nat : t = u * r
          OBVIOUS
        <5> QED BY <3>5, <5>1
      <4>4. n = v * d
        BY <4>2, <4>3
      <4>5. PICK t \in Nat : t = v * d
        OBVIOUS
      <4>6. n = t + 0
        BY <4>4, <4>5
      <4> QED BY <4>5, <4>6
    <3>7. 0 \in 0 .. d - 1 /\ 0 \in 0 .. r - 1
      OBVIOUS
    <3>8. DivMod(n, d, v, 0) /\ DivMod(v, r, u, 0)
      BY <3>5, <3>6, <3>7, Euclid
    <3>9. DigitOf(n, k) = 0
      BY <1>1, <1>2, <3>8 DEF DivMod, DigitOf
    <3>10. k + by \notin 0 .. 2
      BY <2>5
    <3> QED BY <2>3, <3>9, <3>10
  <2> QED BY <2>4, <2>5
<1>4. CASE by < 0
  <2>1. PICK b \in Nat : b = -by
    BY <1>4
  <2>2. PICK p \in Nat \ {0} : p = RadixTo(b)
    BY <2>1, RadixPowers
  <2>3. Moved(m, by) = m \div p
    BY <1>4, <2>1, <2>2 DEF Moved
  <2>4. m \div p \in Nat
    BY DivisionExists
  <2>5. PICK c \in Nat \ {0} : c = p * d
    OBVIOUS
  <2>6. (m \div p) \div d = m \div c
    <3>1. Divides(c, p, d, m)
      BY <2>5, DivideTwice
    <3> QED BY <3>1 DEF Divides
  <2>7. c = RadixTo(b + (2 - k))
    <3>1. 2 - k \in Nat
      OBVIOUS
    <3> QED BY <1>2, <2>2, <2>5, <3>1, RadixAdds
  <2>8. CASE k + by >= 0
    <3>1. k + by \in 0 .. 2 /\ b + (2 - k) = 2 - (k + by)
      BY <1>4, <2>1, <2>8
    <3>2. DigitOf(m \div p, k) = DigitOf(m, k + by)
      BY <1>2, <2>6, <2>7, <3>1 DEF DigitOf
    <3> QED BY <2>3, <2>4, <3>1, <3>2
  <2>9. CASE k + by < 0
    <3>1. PICK j \in Nat : b + (2 - k) = 3 + j
      <4>1. b + (2 - k) - 3 \in Nat /\ b + (2 - k) = 3 + (b + (2 - k) - 3)
        BY <2>1, <2>9
      <4> QED BY <4>1
    <3>2. PICK q \in Nat \ {0}, r3 \in Nat \ {0} : q = RadixTo(j) /\ r3 = RadixTo(3)
      BY RadixPowers
    <3>3. c = r3 * q
      BY <2>7, <3>1, <3>2, RadixAdds
    <3>4. r3 <= r3 * q
      <4>1. PICK v \in Nat : q = 1 + v
        <5>1. q - 1 \in Nat /\ q = 1 + (q - 1)
          OBVIOUS
        <5> QED BY <5>1
      <4>2. r3 * q = r3 + r3 * v /\ r3 * v \in Nat
        BY <4>1
      <4> QED BY <4>2
    <3>5. m < c
      BY <3>2, <3>3, <3>4
    <3>6. PICK z \in Nat : z = 0
      OBVIOUS
    <3>7. m = z * c + m /\ m \in 0 .. c - 1
      BY <3>5, <3>6
    <3>8. DivMod(m, c, z, m)
      BY <3>6, <3>7, Euclid
    <3>9. z = z * r + z /\ z \in 0 .. r - 1
      BY <3>6
    <3>10. DivMod(z, r, z, z)
      BY <3>9, Euclid
    <3>11. DigitOf(m \div p, k) = 0
      BY <1>1, <1>2, <2>6, <3>6, <3>8, <3>10 DEF DigitOf, DivMod
    <3>12. k + by \notin 0 .. 2
      BY <2>9
    <3> QED BY <2>3, <2>4, <3>11, <3>12
  <2> QED BY <2>8, <2>9
<1> QED BY <1>3, <1>4

(* operator&=() works digit by digit. *)
LEMMA AndDigits ==
    ASSUME NEW a, WholeHash(a), NEW b, WholeHash(b), NEW i \in Places
    PROVE  BytesCopy(AndHash(a, b))[i] = And(BytesCopy(a)[i], BytesCopy(b)[i])
<1>1. PICK x \in Nat, y \in Nat : x = BytesCopy(a)[i] /\ y = BytesCopy(b)[i]
  BY WholeDigits
<1>2. CASE a = SmallZero
  <2>1. AndHash(a, b) = a
    BY <1>2 DEF AndHash
  <2>2. x = 0
    BY <1>1, <1>2, ZeroDigits
  <2> QED BY <1>1, <2>1, <2>2, BitsWithZero
<1>3. CASE a # SmallZero /\ b = SmallZero
  <2>1. AndHash(a, b) = SmallZero
    BY <1>3 DEF AndHash
  <2>2. y = 0 /\ BytesCopy(SmallZero)[i] = 0
    BY <1>1, <1>3, ZeroDigits
  <2> QED BY <1>1, <2>1, <2>2, BitsWithZero
<1>4. CASE a # SmallZero /\ b # SmallZero /\ ~(a.compact /\ b.compact)
  <2>1. AndHash(a, b) = Large([j \in Places |-> And(BytesCopy(a)[j], BytesCopy(b)[j])])
    BY <1>4 DEF AndHash
  <2> QED BY <2>1 DEF Large, BytesCopy
<1>5. CASE a # SmallZero /\ b # SmallZero /\ a.compact /\ b.compact
  <2>1. PICK m \in Nat, e \in 0 .. MaxExponent :
           /\ m = M(a) /\ e = E(a) /\ m < RadixTo(3)
           /\ BytesCopy(a) = Expanded([m |-> m, e |-> e])
    BY <1>5, WholeCompact
  <2>2. PICK p \in Nat, d \in 0 .. MaxExponent :
           /\ p = M(b) /\ d = E(b) /\ p < RadixTo(3)
           /\ BytesCopy(b) = Expanded([m |-> p, e |-> d])
    BY <1>5, WholeCompact
  <2>3. PICK by \in Int : by = d - e
    BY PlaceFacts
  <2>4. PICK k \in Int : k = i - (MaxExponent - e) /\ k + by = i - (MaxExponent - d)
    <3>1. i \in Int /\ MaxExponent \in Int
      BY PlaceFacts
    <3>2. i - (MaxExponent - e) \in Int
      BY <3>1
    <3>3. (i - (MaxExponent - e)) + by = i - (MaxExponent - d)
      BY <2>3, <3>1
    <3> QED BY <3>2, <3>3
  <2>5. x = IF k \in 0 .. 2 THEN DigitOf(m, k) ELSE 0
    BY <1>1, <2>1, <2>4, ExpandedAt
  <2>6. y = IF k + by \in 0 .. 2 THEN DigitOf(p, k + by) ELSE 0
    BY <1>1, <2>2, <2>4, ExpandedAt
  <2>7. CASE by \in -2 .. 2
    <3>1. AndHash(a, b) = Small([m |-> And(m, Moved(p, by)), e |-> e])
      BY <1>5, <2>1, <2>2, <2>3, <2>7 DEF AndHash
    <3>2. PICK n : n = And(m, Moved(p, by))
      OBVIOUS
    <3>3. BytesCopy(AndHash(a, b)) = Expanded([m |-> n, e |-> e])
      BY <3>1, <3>2 DEF Small, BytesCopy
    <3>4. BytesCopy(AndHash(a, b))[i] = IF k \in 0 .. 2 THEN DigitOf(n, k) ELSE 0
      BY <2>4, <3>3, ExpandedAt
    <3>5. CASE k \in 0 .. 2
      <4>1. PICK q \in Nat : q = Moved(p, by) /\ DigitOf(q, k) = y
        BY <2>2, <2>6, <2>7, <3>5, MovedDigits
      <4>2. DigitOf(OnBits(Both, m, q), k) = OnBits(Both, DigitOf(m, k), DigitOf(q, k))
        BY <3>5, DigitsOfBits, Tables
      <4> QED BY <1>1, <2>5, <3>2, <3>4, <3>5, <4>1, <4>2 DEF And
    <3>6. CASE k \notin 0 .. 2
      BY <1>1, <2>5, <3>4, <3>6, BitsWithZero
    <3> QED BY <3>5, <3>6
  <2>8. CASE by \notin -2 .. 2
    <3>1. AndHash(a, b) = SmallZero
      BY <1>5, <2>1, <2>2, <2>3, <2>8 DEF AndHash
    <3>2. ~(k \in 0 .. 2 /\ k + by \in 0 .. 2)
      BY <2>8
    <3>3. x = 0 \/ y = 0
      BY <2>5, <2>6, <3>2
    <3>4. BytesCopy(AndHash(a, b))[i] = 0
      BY <3>1, ZeroDigits
    <3> QED BY <1>1, <3>3, <3>4, BitsWithZero
  <2> QED BY <2>7, <2>8
<1> QED BY <1>2, <1>3, <1>4, <1>5

(* Two compact hashes of the same exponent. *)
LEMMA MergedDigits ==
    ASSUME NEW a, WholeHash(a), a.compact, NEW b, WholeHash(b), b.compact,
           E(a) = E(b), NEW i \in Places, NEW table, IsTable(table)
    PROVE  BytesCopy(Small([m |-> OnBits(table, M(a), M(b)), e |-> E(a)]))[i]
              = OnBits(table, BytesCopy(a)[i], BytesCopy(b)[i])
<1>1. PICK m \in Nat, e \in 0 .. MaxExponent :
         /\ m = M(a) /\ e = E(a)
         /\ BytesCopy(a) = Expanded([m |-> m, e |-> e])
  BY WholeCompact
<1>2. PICK p \in Nat, d \in 0 .. MaxExponent :
         /\ p = M(b) /\ d = E(b)
         /\ BytesCopy(b) = Expanded([m |-> p, e |-> d])
  BY WholeCompact
<1>3. PICK k : k = i - (MaxExponent - e)
  OBVIOUS
<1>4. PICK n : n = OnBits(table, m, p)
  OBVIOUS
<1>5. BytesCopy(a)[i] = IF k \in 0 .. 2 THEN DigitOf(m, k) ELSE 0
  BY <1>1, <1>3, ExpandedAt
<1>6. BytesCopy(b)[i] = IF k \in 0 .. 2 THEN DigitOf(p, k) ELSE 0
  BY <1>1, <1>2, <1>3, ExpandedAt
<1>7. BytesCopy(Small([m |-> n, e |-> e]))[i] = IF k \in 0 .. 2 THEN DigitOf(n, k) ELSE 0
  <2>1. BytesCopy(Small([m |-> n, e |-> e])) = Expanded([m |-> n, e |-> e])
    BY DEF Small, BytesCopy
  <2> QED BY <1>3, <2>1, ExpandedAt
<1>8. CASE k \in 0 .. 2
  <2>1. DigitOf(OnBits(table, m, p), k) = OnBits(table, DigitOf(m, k), DigitOf(p, k))
    BY <1>8, DigitsOfBits
  <2> QED BY <1>1, <1>2, <1>4, <1>5, <1>6, <1>7, <1>8, <2>1
<1>9. CASE k \notin 0 .. 2
  <2>1. OnBits(table, 0, 0) = 0
    BY OneBit
  <2> QED BY <1>1, <1>2, <1>4, <1>5, <1>6, <1>7, <1>9, <2>1
<1> QED BY <1>8, <1>9

(* So do all three operators, whatever the forms of the hashes. *)
LEMMA CombinesAsDigits ==
    ASSUME NEW a, WholeHash(a), NEW b, WholeHash(b)
    PROVE  CombineAsDigits(a, b)
<1> SUFFICES ASSUME NEW i \in Places
             PROVE  LET x == BytesCopy(a)[i]
                        y == BytesCopy(b)[i]
                    IN  /\ BytesCopy(AndHash(a, b))[i] = And(x, y)
                        /\ BytesCopy(OrHash(a, b))[i] = Or(x, y)
                        /\ BytesCopy(XorHash(a, b))[i] = Xor(x, y)
  BY DEF CombineAsDigits
<1>1. PICK x \in Nat, y \in Nat : x = BytesCopy(a)[i] /\ y = BytesCopy(b)[i]
  BY WholeDigits
<1>2. BytesCopy(AndHash(a, b))[i] = And(x, y)
  BY <1>1, AndDigits
<1>3. BytesCopy(OrHash(a, b))[i] = Or(x, y) /\ BytesCopy(XorHash(a, b))[i] = Xor(x, y)
  <2>1. CASE b = SmallZero
    <3>1. OrHash(a, b) = a /\ XorHash(a, b) = a
      BY <2>1 DEF OrHash, XorHash, Merged
    <3>2. y = 0
      BY <1>1, <2>1, ZeroDigits
    <3> QED BY <1>1, <3>1, <3>2, BitsWithZero
  <2>2. CASE b # SmallZero /\ a.compact /\ b.compact /\ E(a) = E(b)
    <3>1. /\ OrHash(a, b) = Small([m |-> OnBits(Either, M(a), M(b)), e |-> E(a)])
          /\ XorHash(a, b) = Small([m |-> OnBits(Differ, M(a), M(b)), e |-> E(a)])
      BY <2>2 DEF OrHash, XorHash, Merged, Or, Xor
    <3>2. BytesCopy(OrHash(a, b))[i] = OnBits(Either, x, y)
      BY <1>1, <2>2, <3>1, MergedDigits, Tables
    <3>3. BytesCopy(XorHash(a, b))[i] = OnBits(Differ, x, y)
      BY <1>1, <2>2, <3>1, MergedDigits, Tables
    <3> QED BY <3>2, <3>3 DEF Or, Xor
  <2>3. CASE b # SmallZero /\ ~(a.compact /\ b.compact /\ E(a) = E(b))
    <3>1. /\ OrHash(a, b) = Large([j \in Places |-> Or(BytesCopy(a)[j], BytesCopy(b)[j])])
          /\ XorHash(a, b) = Large([j \in Places |-> Xor(BytesCopy(a)[j], BytesCopy(b)[j])])
      BY <2>3 DEF OrHash, XorHash, Merged
    <3> QED BY <1>1, <3>1 DEF Large, BytesCopy
  <2> QED BY <2>1, <2>2, <2>3
<1> QED BY <1>1, <1>2, <1>3

(* Mantissas to try: from one up to two squares of the radix. *)
LEMMA TriedMantissaIs ==
    ASSUME NEW m \in TriedMantissas
    PROVE  m \in Nat /\ m > 0 /\ m < RadixTo(3) /\ 2 * m < RadixTo(3)
<1>1. PICK r \in Nat : r = Radix /\ r >= 4
  BY RadixFacts
<1>2. PICK s \in Nat : s = r * r /\ s >= 4 * r
  <2>1. PICK w \in Nat : r = 4 + w
    <3>1. r - 4 \in Nat /\ r = 4 + (r - 4)
      BY <1>1
    <3> QED BY <3>1
  <2>2. r * r = 4 * r + w * r /\ w * r \in Nat
    BY <2>1
  <2>3. PICK s \in Nat : s = r * r
    OBVIOUS
  <2> QED BY <2>2, <2>3
<1>3. RadixTo(3) >= 4 * s /\ RadixTo(3) \in Nat
  <2>1. PICK w \in Nat : r = 4 + w
    <3>1. r - 4 \in Nat /\ r = 4 + (r - 4)
      BY <1>1
    <3> QED BY <3>1
  <2>2. r * s = 4 * s + w * s /\ w * s \in Nat
    BY <2>1
  <2>3. RadixTo(3) = r * s
    BY <1>1, <1>2, CubeFacts
  <2> QED BY <2>2, <2>3
<1>4. m \in {1, r - 1, r, r + 1, s, s + 1, s + r, 2 * s - 1}
  BY <1>1, <1>2 DEF TriedMantissas
<1> QED BY <1>1, <1>2, <1>3, <1>4

(* Compact hashes to try. *)
LEMMA TriedCompactIs ==
    ASSUME NEW c \in TriedCompact
    PROVE  c \in Compact /\ InFront(c.m, c.e)
<1>1. PICK r3 \in Nat \ {0} : r3 = RadixTo(3)
  BY RadixPowers
<1>2. CASE c = Zero
  <2>1. c.m = 0 /\ c.e = 0
    BY <1>2 DEF Zero
  <2>2. PICK z \in Nat : z = 0
    OBVIOUS
  <2>3. z = z * r3 + z /\ z \in 0 .. r3 - 1
    BY <2>2
  <2>4. DivMod(z, r3, z, z)
    BY <2>3, Euclid
  <2>5. 0 % RadixTo(3) = 0
    BY <1>1, <2>2, <2>4 DEF DivMod
  <2>6. 0 \in 0 .. MaxExponent
    BY PlaceFacts
  <2> QED BY <1>1, <1>2, <2>1, <2>5, <2>6 DEF InFront, Compact
<1>3. CASE c # Zero
  <2>1. c \in [m : TriedMantissas, e : 1 .. MaxExponent]
        /\ (c.e < 3 => c.m % RadixTo(3 - c.e) = 0)
    BY <1>3 DEF TriedCompact
  <2>2. PICK m \in TriedMantissas, e \in 1 .. MaxExponent :
           c.m = m /\ c.e = e /\ c = [m |-> m, e |-> e]
    BY <2>1
  <2>3. m \in Nat /\ m > 0 /\ m < r3 /\ 2 * m < r3
    BY <1>1, TriedMantissaIs
  <2>4. ~(m >= r3 \div 2)
    <3>1. PICK half \in Nat, s \in Nat : 2 * half = Radix /\ s = RadixTo(2)
      BY RadixFacts, RadixPowers
    <3>2. r3 = (2 * half) * s
      <4>1. RadixTo(3) = Radix * RadixTo(2)
        BY CubeFacts
      <4> QED BY <1>1, <3>1, <4>1
    <3>3. PICK t \in Nat : t = half * s
      OBVIOUS
    <3>4. r3 = 2 * t
      BY <3>2, <3>3
    <3> QED BY <2>3, <3>4
  <2>5. m \in Mantissa /\ ~Negative(m)
    BY <1>1, <2>3, <2>4 DEF Mantissa, Negative
  <2>6. e \in 0 .. MaxExponent
    BY PlaceFacts
  <2> QED BY <1>1, <2>1, <2>2, <2>3, <2>5, <2>6 DEF InFront, Compact
<1> QED BY <1>2, <1>3

(* The expanded form of a compact hash. *)
LEMMA ExpandedIsWhole ==
    ASSUME NEW c \in Compact
    PROVE  WholeHash(Large(Expanded(c)))
<1>1. PICK m \in Nat, e \in 0 .. MaxExponent :
         c = [m |-> m, e |-> e] /\ m < RadixTo(3) /\ 2 * m < RadixTo(3)
  BY CompactIs
<1>2. PICK x : x = Expanded(c) /\ x \in [Places -> Digit]
  <2>1. e \in Nat
    BY PlaceFacts
  <2>2. Expanded([m |-> m, e |-> e]) \in [Places -> Digit]
    BY <2>1, ExpandedDigits
  <2> QED BY <1>1, <2>2
<1>3. PICK half \in Nat : half = Radix \div 2 /\ 2 * half = Radix /\ half > 0
  BY RadixFacts
<1>4. 0 \in Places
  BY PlaceFacts DEF Places
<1>5. x[0] < half
  <2>1. CASE e = MaxExponent
    <3>1. x[0] = DigitOf(m, 0)
      <4>1. 0 - (MaxExponent - e) = 0
        BY <2>1, PlaceFacts
      <4> QED BY <1>1, <1>2, <1>4, <4>1, ExpandedAt
    <3>2. PICK p, q, s \in Digit : Says(m, p, q, s)
      BY <1>1, ThreeDigits
    <3>3. PICK r \in Nat \ {0}, r2 \in Nat \ {0} :
             r = Radix /\ r2 = RadixTo(2) /\ r2 = r * r /\ RadixTo(3) = r * r2
      <4>1. RadixTo(2) = Radix * Radix /\ RadixTo(3) = Radix * RadixTo(2)
        BY CubeFacts
      <4>2. PICK r2 \in Nat \ {0} : r2 = RadixTo(2)
        BY RadixPowers
      <4>3. PICK r \in Nat \ {0} : r = Radix
        BY RadixFacts
      <4> QED BY <4>1, <4>2, <4>3
    <3>4. p \in Nat /\ q \in Nat /\ s \in Nat
      BY RadixFacts DEF Digit
    <3>5. m = (p * r + q) * r + s /\ x[0] = p
      BY <3>1, <3>2, <3>3 DEF Says
    <3>6. (2 * p) * r2 < r * r2
      <4>1. 2 * ((p * r + q) * r + s) = (2 * p) * (r * r) + 2 * (q * r + s)
        BY <3>4
      <4>2. q * r + s \in Nat
        BY <3>4
      <4>3. PICK t \in Nat : t = (2 * p) * r2
        BY <3>4
      <4>4. 2 * m = t + 2 * (q * r + s)
        BY <3>3, <3>5, <4>1, <4>3
      <4> QED BY <1>1, <3>3, <4>2, <4>3, <4>4
    <3>7. 2 * p < r
      <4>1. 2 * p \in Nat
        BY <3>4
      <4> QED BY <3>6, <4>1, CancelFactor
    <3> QED BY <1>3, <3>3, <3>4, <3>5, <3>7
  <2>2. CASE e # MaxExponent
    <3>1. 0 - (MaxExponent - e) \notin 0 .. 2
      BY <2>2, PlaceFacts
    <3>2. x[0] = 0
      BY <1>1, <1>2, <1>4, <3>1, ExpandedAt
    <3> QED BY <1>3, <3>2
  <2> QED BY <2>1, <2>2
<1> QED BY <1>2, <1>3, <1>5 DEF WholeHash

(* A hash of less digits than there are places. *)
LEMMA FewDigitsAreWhole ==
    ASSUME NEW s \in Seq(Digit), Len(s) < MaxExponent
    PROVE  WholeHash(FromBytes(s))
<1>1. PICK n \in Nat : n = Len(s) /\ n < MaxExponent
  OBVIOUS
<1>2. MaxExponent \in Nat /\ 0 \in Places /\ 0 \in Digit
  BY PlaceFacts, RadixFacts DEF Places, Digit
<1>3. \A k \in 1 .. n : s[k] \in Digit
  BY <1>1
<1>4. PICK x : x = [i \in Places |-> IF i - (MaxExponent - n) < 0 THEN 0
                                     ELSE s[i - (MaxExponent - n) + 1]]
  OBVIOUS
<1>5. FromBytes(s) = Large(x)
  BY <1>1, <1>4 DEF FromBytes
<1>6. ASSUME NEW i \in Places PROVE x[i] \in Digit
  <2>1. CASE i - (MaxExponent - n) < 0
    BY <1>2, <1>4, <2>1
  <2>2. CASE ~(i - (MaxExponent - n) < 0)
    <3>1. i - (MaxExponent - n) + 1 \in 1 .. n
      BY <1>1, <1>2, <2>2, PlaceFacts
    <3> QED BY <1>3, <1>4, <2>2, <3>1
  <2> QED BY <2>1, <2>2
<1>7. x \in [Places -> Digit]
  BY <1>4, <1>6
<1>8. x[0] = 0
  <2>1. 0 - (MaxExponent - n) < 0
    BY <1>1, <1>2
  <2> QED BY <1>2, <1>4, <2>1
<1>9. 0 < Radix \div 2
  BY RadixFacts
<1> QED BY <1>5, <1>7, <1>8, <1>9 DEF WholeHash

(* The hashes to try are such hashes. *)
LEMMA TriedIsWhole ==
    ASSUME NEW h \in Tried
    PROVE  WholeHash(h)
<1>1. MaxExponent > 5 /\ MaxExponent \in Nat
  BY PlaceFacts
<1>2. CASE h \in {Small(c) : c \in TriedCompact}
  <2>1. PICK c \in TriedCompact : h = Small(c)
    BY <1>2
  <2> QED BY <2>1, TriedCompactIs DEF WholeHash
<1>3. CASE h \in {Large(Expanded(c)) : c \in TriedCompact}
  <2>1. PICK c \in TriedCompact : h = Large(Expanded(c))
    BY <1>3
  <2>2. c \in Compact
    BY TriedCompactIs
  <2> QED BY <2>1, <2>2, ExpandedIsWhole
<1>4. ASSUME NEW d \in TriedDigits
      PROVE  d \in Seq(Digit) /\ Len(d) = 3
  <2>1. {0, 1, Radix \div 2, Radix - 1} \subseteq Digit
    BY RadixFacts DEF Digit
  <2>2. d \in [1 .. 3 -> Digit]
    BY <2>1 DEF TriedDigits
  <2>3. PICK n \in Nat : n = 3
    OBVIOUS
  <2>4. d \in Seq(Digit) /\ Len(d) = n
    BY <2>2, <2>3, FunctionIsSeq
  <2> QED BY <2>3, <2>4
<1>5. CASE h \in {FromBytes(d) : d \in TriedDigits}
  <2>1. PICK d \in TriedDigits : h = FromBytes(d)
    BY <1>5
  <2>2. d \in Seq(Digit) /\ Len(d) < MaxExponent
    <3>1. d \in Seq(Digit) /\ Len(d) = 3
      BY <1>4
    <3> QED BY <1>1, <3>1
  <2> QED BY <2>1, <2>2, FewDigitsAreWhole
<1>6. CASE h \in {FromBytes(d \o <<0, 1>>) : d \in TriedDigits}
  <2>1. PICK d \in TriedDigits : h = FromBytes(d \o <<0, 1>>)
    BY <1>6
  <2>2. PICK t : t = <<0, 1>> /\ t \in Seq(Digit) /\ Len(t) = 2
    <3>1. 0 \in Digit /\ 1 \in Digit
      BY RadixFacts DEF Digit
    <3>2. <<0, 1>> \in Seq(Digit) /\ Len(<<0, 1>>) = 2
      BY <3>1
    <3> QED BY <3>2
  <2>3. d \in Seq(Digit) /\ Len(d) = 3
    BY <1>4
  <2>4. d \o t \in Seq(Digit) /\ Len(d \o t) = 5
    <3>1. PICK S : S = Digit
      OBVIOUS
    <3>2. d \in Seq(S) /\ t \in Seq(S)
      BY <2>2, <2>3, <3>1
    <3>3. d \o t \in Seq(S)
      BY <3>2, ConcatProperties
    <3>4. Len(d \o t) = Len(d) + Len(t)
      BY <3>2, ConcatProperties
    <3> QED BY <2>2, <2>3, <3>1, <3>3, <3>4
  <2>5. WholeHash(FromBytes(d \o t))
    BY <1>1, <2>4, FewDigitsAreWhole
  <2> QED BY <2>1, <2>2, <2>5
<1> QED BY <1>2, <1>3, <1>5, <1>6 DEF Tried

-----------------------------------------------------------------------------
(* The objects side by side.                                               *)

(* The rates to add up are whole numbers of some unit. *)
RatesInput == subject = "rates" => input \in Seq(WholeRate)

(* The hashes to try have all digits in front of the point, and the text   *)
(* to read is made of characters.                                          *)
HashInput ==
    /\ subject = "hashes" => WholeHash(input[1]) /\ WholeHash(input[2])
    /\ subject = "text" => input \in Seq(Character)

ObjectsInv == RatesInput /\ HashInput /\ Sound(tx) /\ BlockInv /\ PayInv /\ PeerInv

(* The rates that a run tries are such numbers. *)
LEMMA TriedRatesAreWhole == TriedRates \subseteq WholeRate
<1>1. "kHps" \in RateUnit
  <2>1. DOMAIN RateUnits = 1 .. 11 /\ RateUnits[4] = "kHps"
    BY DEF RateUnits
  <2> QED BY <2>1 DEF RateUnit, ToSet
<1>2. ASSUME NEW v \in {0, 1, 12}, NEW u, u = "" \/ u \in RateUnit
      PROVE  RateOfPar(v, u, "kHps") \in WholeRate
  <2>1. PICK w \in RateUnit : w = IF u = "" THEN "kHps" ELSE u
    BY <1>1, <1>2
  <2>2. RateOfPar(v, u, "kHps") = [value |-> v, unit |-> w]
    BY <2>1 DEF RateOfPar, Rate
  <2> QED BY <2>2 DEF WholeRate
<1>3. ASSUME NEW r \in TriedRates PROVE r \in WholeRate
  <2>1. PICK v \in {0, 1, 12}, u \in TriedUnits : r = RateOfPar(v, u, "kHps")
    BY DEF TriedRates
  <2>2. u = "" \/ u \in RateUnit
    BY DEF TriedUnits
  <2> QED BY <1>2, <2>1, <2>2
<1> QED BY <1>3

(* The invariant holds before any call. *)
LEMMA ObjectsStart ==
    ASSUME ObjectsInit
    PROVE  ObjectsInv
<1>1. RatesInput
  <2> SUFFICES ASSUME subject = "rates"
               PROVE  input \in Seq(WholeRate)
    BY DEF RatesInput
  <2>1. PICK n \in 0 .. MaxMiners : input \in [1 .. n -> TriedRates]
    <3>1. input \in UNION {[1 .. n -> TriedRates] : n \in 0 .. MaxMiners}
      BY DEF ObjectsInit, Objects
    <3> QED BY <3>1
  <2>2. n \in Nat
    BY DEF MaxMiners
  <2>3. input \in [1 .. n -> WholeRate]
    BY <2>1, TriedRatesAreWhole
  <2> QED BY <2>2, <2>3
<1>2. Sound(tx)
  BY NewIsSound DEF ObjectsInit, TxInit
<1>3. BlockInv
  BY NewBlockIsSound DEF ObjectsInit, BlockInit, BlockInv
<1>4. PayInv
  BY PayFacts DEF ObjectsInit
<1>5. PeerInv
  BY PeerFacts DEF ObjectsInit
<1>6. HashInput
  <2>1. ASSUME subject = "hashes" PROVE WholeHash(input[1]) /\ WholeHash(input[2])
    <3>1. input \in Tried \X Tried
      BY <2>1 DEF ObjectsInit, Objects
    <3>2. input[1] \in Tried /\ input[2] \in Tried
      BY <3>1
    <3> QED BY <3>2, TriedIsWhole
  <2>2. ASSUME subject = "text" PROVE input \in Seq(Character)
    <3>1. input \in UNION {[1 .. n -> Character] : n \in 0 .. MaxCharacters}
      BY <2>2 DEF ObjectsInit, Objects
    <3>2. PICK n \in 0 .. MaxCharacters : input \in [1 .. n -> Character]
      BY <3>1
    <3>3. n \in Nat
      BY DEF MaxCharacters
    <3> QED BY <3>2, <3>3, FunctionIsSeq
  <2> QED BY <2>1, <2>2 DEF HashInput
<1> QED BY <1>1, <1>2, <1>3, <1>4, <1>5, <1>6 DEF ObjectsInv

(* An object that no call is made of keeps its part of the invariant. *)
LEMMA LeftAlone ==
    /\ Sound(tx) /\ UNCHANGED tx => Sound(tx')
    /\ BlockInv /\ UNCHANGED blockVars => BlockInv'
    /\ PayInv /\ UNCHANGED pay => PayInv'
    /\ PeerInv /\ UNCHANGED peerVars => PeerInv'
    /\ RatesInput /\ UNCHANGED inputVars => RatesInput'
    /\ HashInput /\ UNCHANGED inputVars => HashInput'
<1>1. Sound(tx) /\ UNCHANGED tx => Sound(tx')
  OBVIOUS
<1>2. BlockInv /\ UNCHANGED blockVars => BlockInv'
  BY DEF BlockInv, blockVars
<1>3. PayInv /\ UNCHANGED pay => PayInv'
  BY DEF PayInv, PaymentBalances
<1>4. PeerInv /\ UNCHANGED peerVars => PeerInv'
  BY DEF peerVars, PeerInv, GatesAreListed, ListedHasRow
<1>5. RatesInput /\ UNCHANGED inputVars => RatesInput'
  BY DEF RatesInput, inputVars
<1>6. HashInput /\ UNCHANGED inputVars => HashInput'
  BY DEF HashInput, inputVars
<1> QED BY <1>1, <1>2, <1>3, <1>4, <1>5, <1>6

(* Every call keeps it. *)
LEMMA ObjectsStep ==
    ASSUME ObjectsInv, [ObjectsNext]_objectVars
    PROVE  ObjectsInv'
<1>1. RatesInput /\ HashInput /\ Sound(tx) /\ BlockInv /\ PayInv /\ PeerInv
  BY DEF ObjectsInv
<1>2. UNCHANGED inputVars
  BY DEF ObjectsNext, objectVars
<1>3. RatesInput' /\ HashInput'
  BY <1>1, <1>2, LeftAlone
<1>4. CASE TxNext /\ UNCHANGED <<blockVars, pay, peerVars>>
  <2>1. Sound(tx') /\ BlockInv' /\ PayInv' /\ PeerInv'
    BY <1>1, <1>4, TxStep, LeftAlone
  <2> QED BY <1>3, <2>1 DEF ObjectsInv
<1>5. CASE BlockNext /\ UNCHANGED <<tx, pay, peerVars>>
  <2>1. Sound(tx') /\ BlockInv' /\ PayInv' /\ PeerInv'
    BY <1>1, <1>5, BlockStep, LeftAlone
  <2> QED BY <1>3, <2>1 DEF ObjectsInv
<1>6. CASE PayNext /\ UNCHANGED <<tx, blockVars, peerVars>>
  <2>1. Sound(tx') /\ BlockInv' /\ PayInv' /\ PeerInv'
    BY <1>1, <1>6, PayStep, LeftAlone
  <2> QED BY <1>3, <2>1 DEF ObjectsInv
<1>7. CASE PeerNext /\ UNCHANGED <<tx, blockVars, pay>>
  <2>1. Sound(tx') /\ BlockInv' /\ PayInv' /\ PeerInv'
    BY <1>1, <1>7, PeerStep, LeftAlone
  <2> QED BY <1>3, <2>1 DEF ObjectsInv
<1>8. CASE UNCHANGED objectVars
  <2>1. UNCHANGED tx /\ UNCHANGED blockVars /\ UNCHANGED pay /\ UNCHANGED peerVars
    BY <1>8 DEF objectVars
  <2>2. Sound(tx') /\ BlockInv' /\ PayInv' /\ PeerInv'
    BY <1>1, <2>1, LeftAlone
  <2> QED BY <1>3, <2>2 DEF ObjectsInv
<1> QED BY <1>4, <1>5, <1>6, <1>7, <1>8 DEF ObjectsNext

(* What holds of every object, whatever calls are made. *)
THEOREM ObjectsKeepTheirInvariants == ObjectsSpec => []ObjectsInv
<1>1. ObjectsInit => ObjectsInv
  BY ObjectsStart
<1>2. ObjectsInv /\ [ObjectsNext]_objectVars => ObjectsInv'
  BY ObjectsStep
<1> QED BY <1>1, <1>2, PTL DEF ObjectsSpec

(* The lengths of transactions and blocks, and the caches of transactions, *)
(* are those of what they hold (Transaction.cc, Block.cc).                 *)
THEOREM LengthsFollow == ObjectsSpec => []DerivedFieldsFollow
<1>1. ObjectsInv => DerivedFieldsFollow
  <2> SUFFICES ASSUME ObjectsInv PROVE DerivedFieldsFollow
    OBVIOUS
  <2>1. TransactionFollows
    BY DEF ObjectsInv, Sound, TransactionFollows
  <2>2. BlockFollows
    BY BlockFacts DEF ObjectsInv
  <2> QED BY <2>1, <2>2 DEF DerivedFieldsFollow
<1> QED BY <1>1, ObjectsKeepTheirInvariants, PTL

(* As long as the calls follow the chain, a block's index is that of its   *)
(* predecessor, less what its transactions spend, and with what they pay.  *)
THEOREM IndexFollowsTheChain == ObjectsSpec => []IndexIsUnspent
<1>1. ObjectsInv => IndexIsUnspent
  BY BlockFacts DEF ObjectsInv
<1> QED BY <1>1, ObjectsKeepTheirInvariants, PTL

(* A pushed payment spends the first outputs of the wallet, and its fee is *)
(* what is left of them, at the rate that was drawn                        *)
(* (TransactionGenerator.cc).                                              *)
THEOREM PushedPaymentsBalance == ObjectsSpec => []PaymentBalances
<1>1. ObjectsInv => PaymentBalances
  BY PayFacts DEF ObjectsInv
<1> QED BY <1>1, ObjectsKeepTheirInvariants, PTL

(* The same for the table of peers beside the other objects. *)
THEOREM PeersReachableHere == ObjectsSpec => []PeersStayReachable
<1>1. ObjectsInv => PeersStayReachable
  BY PeerFacts DEF ObjectsInv
<1> QED BY <1>1, ObjectsKeepTheirInvariants, PTL

(* Whatever the units of the miners and their order, their rates add up in *)
(* H/s, and two rates compare like their numbers of H/s (HashRate.h).      *)
THEOREM AllRatesAddUp == ObjectsSpec => []RatesAddUp
<1>1. ObjectsInv => RatesAddUp
  <2> SUFFICES ASSUME ObjectsInv, subject = "rates"
               PROVE  /\ NetworkRateIsInHps(input)
                      /\ Len(input) = 2 => AgreesInHps(input[1], input[2])
    BY DEF RatesAddUp
  <2>1. input \in Seq(WholeRate)
    BY DEF ObjectsInv, RatesInput
  <2>2. NetworkRateIsInHps(input)
    BY <2>1, NetworkInHps
  <2>3. ASSUME Len(input) = 2 PROVE AgreesInHps(input[1], input[2])
    <3>1. input[1] \in WholeRate /\ input[2] \in WholeRate
      BY <2>1, <2>3
    <3> QED BY <3>1, RatesAgree
  <2> QED BY <2>2, <2>3
<1> QED BY <1>1, ObjectsKeepTheirInvariants, PTL

(* Whatever forms two hashes have, they compare like their numbers, and    *)
(* combine digit by digit; a compact form keeps what a mantissa can hold;  *)
(* and text is read as the number it says (Hash.cc).                       *)
THEOREM HashesAreNumbers == ObjectsSpec => []HashIsANumber
<1>1. ObjectsInv => HashIsANumber
  <2> SUFFICES ASSUME ObjectsInv PROVE HashIsANumber
    OBVIOUS
  <2>1. HashInput
    BY DEF ObjectsInv
  <2>2. ASSUME subject = "hashes"
        PROVE  /\ CompareAsNumbers(input[1], input[2])
               /\ CombineAsDigits(input[1], input[2])
               /\ CompactKeepsMantissa(input[1]) /\ ComplementIsRest(input[1])
    <3>1. PICK a, b : a = input[1] /\ b = input[2]
      OBVIOUS
    <3>2. WholeHash(a) /\ WholeHash(b)
      BY <2>1, <2>2, <3>1 DEF HashInput
    <3>3. /\ CompareAsNumbers(a, b) /\ CombineAsDigits(a, b)
          /\ CompactKeepsMantissa(a) /\ ComplementIsRest(a)
      BY <3>2, ComparesAsNumbers, CombinesAsDigits, CompactKeeps, ComplementRests
    <3> QED BY <3>1, <3>3
  <2>3. ASSUME subject = "text" PROVE TextIsNumber(input)
    BY <2>1, <2>3, TextReads DEF HashInput
  <2> QED BY <2>2, <2>3 DEF HashIsANumber
<1> QED BY <1>1, ObjectsKeepTheirInvariants, PTL
=============================================================================
