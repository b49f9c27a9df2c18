---------------------------- MODULE Retarget_proofs ----------------------------
(***************************************************************************)
(* What holds of the adjustments of the difficulty for every network,      *)
(* every number of blocks and every length of a period.                    *)
(***************************************************************************)
EXTENDS Retarget, BlockchainManager_proofs, Induction

(* A chain has a block at every height below its own. *)
Gapless(B, k) ==
    \A b \in 0 .. k : \A j \in Nat :
        j <= B[b].height => \E x \in B[b].chain : B[x].height = j

(* The inductive invariant. *)
RetargetInv ==
    /\ IInv
    /\ Gapless(block, mined)
    /\ DOMAIN time = Block
    /\ DOMAIN adjustmentBlockTime = Node
    /\ AdjustmentTimeOpensPeriod

(* The height where the period that contains height h begins. *)
PeriodStart(h) == h - (h % Period)

-----------------------------------------------------------------------------
(* Multiples of a number.                                                  *)

(* h is d times P and a remainder r. *)
Splits(P, h, d, r) == r < P /\ h = P * d + r

(* Quotient and remainder split a number. *)
LEMMA Quotient ==
    ASSUME NEW P \in Nat \ {0}, NEW h \in Nat
    PROVE  \E d \in Nat : h % P \in Nat /\ Splits(P, h, d, h % P)
<1>1. PICK q, r : q = h \div P /\ r = h % P
  OBVIOUS
<1>2. q \in Nat /\ r \in Nat /\ r < P
  BY <1>1
<1>3. h = P * q + r
  BY <1>1, <1>2
<1>4. Splits(P, h, q, r)
  BY <1>2, <1>3 DEF Splits
<1> QED BY <1>1, <1>2, <1>4

(* Multiples of P lie at least P apart. *)
LEMMA Mono ==
    ASSUME NEW P \in Nat \ {0}, NEW a \in Nat, NEW b \in Nat, a >= b + 1
    PROVE  P * a >= P * b + P
<1>1. PICK c \in Nat : a = b + 1 + c
  <2>1. a - b - 1 \in Nat /\ a = b + 1 + (a - b - 1)
    OBVIOUS
  <2> QED BY <2>1
<1>2. P * a = P * b + P + P * c
  BY <1>1
<1>3. P * c >= 0
  OBVIOUS
<1> QED BY <1>2, <1>3

(* A number below another has no higher quotient. *)
LEMMA QuotientGrows ==
    ASSUME NEW P \in Nat \ {0}, NEW d \in Nat, NEW e \in Nat,
           NEW r \in Nat, NEW s \in Nat, NEW h \in Nat, NEW z \in Nat,
           Splits(P, z, e, s), Splits(P, h, d, r), z <= h
    PROVE  e <= d /\ P * e <= P * d
<1>1. r < P /\ h = P * d + r /\ s < P /\ z = P * e + s
  BY DEF Splits
<1>2. P * d \in Nat /\ P * e \in Nat
  OBVIOUS
<1>3. ~(e >= d + 1)
  <2>1. e >= d + 1 => P * e >= P * d + P
    BY Mono
  <2> QED BY <2>1, <1>1, <1>2
<1>4. e = d \/ d >= e + 1
  BY <1>3
<1>5. d >= e + 1 => P * d >= P * e + P
  BY Mono
<1> QED BY <1>2, <1>4, <1>5

(* The last multiple of P up to h. *)
LEMMA LastMultiple ==
    ASSUME NEW P \in Nat \ {0}, NEW h \in Nat, NEW s, s = h - (h % P)
    PROVE  /\ s \in Nat /\ s <= h /\ s % P = 0
           /\ \A z \in Nat : z <= h /\ z % P = 0 => z <= s
<1>0. PICK r : r = h % P
  OBVIOUS
<1>1. PICK d \in Nat : r \in Nat /\ Splits(P, h, d, r)
  BY <1>0, Quotient
<1>2. r \in Nat /\ r < P /\ h = P * d + r /\ P * d \in Nat
  BY <1>1 DEF Splits
<1>3. s = P * d /\ s \in Nat /\ s <= h
  <2>1. s = h - r
    BY <1>0
  <2> QED BY <2>1, <1>2
<1>4. s % P = 0
  <2>1. Splits(P, s, d, 0)
    BY <1>2, <1>3 DEF Splits
  <2>2. PICK e \in Nat : s % P \in Nat /\ Splits(P, s, e, s % P)
    BY <1>3, Quotient
  <2>3. d <= e /\ e <= d
    BY <2>1, <2>2, <1>3, QuotientGrows
  <2>4. d = e
    BY <2>3
  <2>5. PICK t : t = s % P
    OBVIOUS
  <2>6. t \in Nat /\ s = P * d + t
    BY <2>2, <2>4, <2>5 DEF Splits
  <2>7. t = 0
    BY <2>6, <1>3, <1>2
  <2> QED BY <2>5, <2>7
<1>5. ASSUME NEW z \in Nat, z <= h, z % P = 0 PROVE z <= s
  <2>1. PICK e \in Nat : Splits(P, z, e, 0)
    BY <1>5, Quotient
  <2>2. P * e <= P * d
    BY <2>1, <1>1, <1>5, QuotientGrows
  <2>3. z = P * e
    BY <2>1 DEF Splits
  <2> QED BY <2>2, <2>3, <1>3
<1> QED BY <1>3, <1>4, <1>5

(* A period begins at the last multiple of its length. *)
LEMMA PeriodStarts ==
    ASSUME NEW h \in Nat
    PROVE  /\ PeriodStart(h) \in Nat /\ PeriodStart(h) <= h
           /\ PeriodStart(h) % Period = 0
           /\ \A z \in Nat : z <= h /\ z % Period = 0 => z <= PeriodStart(h)
<1>1. Period \in Nat \ {0}
  BY PeriodAssumption
<1>2. PICK s : s = h - (h % Period)
  OBVIOUS
<1>3. s \in Nat /\ s <= h /\ s % Period = 0
      /\ \A z \in Nat : z <= h /\ z % Period = 0 => z <= s
  BY <1>1, <1>2, LastMultiple
<1>4. PeriodStart(h) = s
  BY <1>2 DEF PeriodStart
<1> QED BY <1>3, <1>4

(* The height after a multiple of P less one is the next multiple. *)
LEMMA NextOpens ==
    ASSUME NEW h \in Nat
    PROVE  /\ (h + 1) % Period = 0 <=> h % Period = Period - 1
           /\ h % Period = Period - 1 => PeriodStart(h) = (h + 1) - Period
<1>1. Period \in Nat \ {0, 1}
  BY PeriodAssumption
<1>2. PICK d \in Nat, r \in Nat : r = h % Period /\ Splits(Period, h, d, r)
  BY <1>1, Quotient
<1>3. PICK e \in Nat, s \in Nat :
         s = (h + 1) % Period /\ Splits(Period, h + 1, e, s)
  <2>1. PICK g \in Nat : g = h + 1
    OBVIOUS
  <2>2. PICK e \in Nat, s \in Nat : s = g % Period /\ Splits(Period, g, e, s)
    BY <1>1, Quotient
  <2> QED BY <2>1, <2>2
<1>4. r < Period /\ h = Period * d + r
  BY <1>2 DEF Splits
<1>5. s < Period /\ h + 1 = Period * e + s
  BY <1>3 DEF Splits
<1>6. CASE r = Period - 1
  <2>1. h + 1 = Period * d + Period
    BY <1>1, <1>4, <1>6
  <2>2. h + 1 = Period * (d + 1) + 0
    BY <1>1, <2>1
  <2>3. e = d + 1
    <3>1. CASE e >= d + 2
      <4>1. Period * e >= Period * (d + 1) + Period
        BY <1>1, <3>1, Mono
      <4> QED BY <4>1, <2>2, <1>1, <1>5
    <3>2. CASE e <= d
      <4>1. Period * (d + 1) >= Period * e + Period
        BY <1>1, <3>2, Mono
      <4> QED BY <4>1, <2>2, <1>1, <1>5
    <3> QED BY <3>1, <3>2
  <2>4. s = 0
    BY <1>1, <1>5, <2>2, <2>3
  <2>5. (h + 1) % Period = 0 /\ h % Period = Period - 1
    BY <1>2, <1>3, <1>6, <2>4
  <2>6. PeriodStart(h) = h - r
    BY <1>2 DEF PeriodStart
  <2>7. h - r = (h + 1) - Period
    BY <1>1, <1>6
  <2> QED BY <2>5, <2>6, <2>7
<1>7. CASE r # Period - 1
  <2>1. r + 1 < Period
    BY <1>1, <1>4, <1>7
  <2>2. s # 0
    <3>1. CASE e >= d + 1
      <4>1. Period * e >= Period * d + Period
        BY <1>1, <3>1, Mono
      <4> QED BY <4>1, <2>1, <1>1, <1>4, <1>5
    <3>2. CASE e <= d
      <4>1. CASE e = d
        BY <4>1, <1>1, <1>4, <1>5
      <4>2. CASE d >= e + 1
        <5>1. Period * d >= Period * e + Period
          BY <1>1, <4>2, Mono
        <5> QED BY <5>1, <1>1, <1>4, <1>5
      <4> QED BY <4>1, <4>2, <3>2
    <3> QED BY <3>1, <3>2
  <2> QED BY <1>2, <1>3, <1>7, <2>2
<1> QED BY <1>6, <1>7

-----------------------------------------------------------------------------
(* The inductive invariant.                                                *)

(* A block is mined one above the head of a main branch. *)
LEMMA MiningKeepsGapless ==
    ASSUME IInv, Gapless(block, mined), NEW n \in Node, Mine(n)
    PROVE  Gapless(block', mined')
<1> DEFINE k == mined + 1
           p == mainBranch[n]
<1>1. FiledMined(n, k)
  BY MineFilesBlock
<1>2. /\ mined \in Nat /\ block \in Heap /\ p \in 0 .. mined
      /\ 0 .. mined \subseteq Block
      /\ block[p].chain \subseteq 0 .. mined
      /\ block[p].height \in Nat
  BY InvariantOfTree DEF IInv, TreeInv, TreeOK, Heap
<1>3. /\ mined' = k
      /\ \A x \in 0 .. mined : block'[x] = block[x]
      /\ block'[k].height = block[p].height + 1
      /\ block'[k].chain = block[p].chain \cup {k}
  BY <1>1 DEF FiledMined, NewBlock
<1>4. \A b \in 0 .. k : b \in 0 .. mined \/ b = k
  BY <1>2
<1>5. \A b \in 0 .. mined : block[b].chain \subseteq 0 .. mined
  BY DEF IInv, TreeInv, TreeOK
<1> HIDE DEF k, p
<1>6. ASSUME NEW b \in 0 .. k, NEW j \in Nat, j <= block'[b].height
      PROVE  \E x \in block'[b].chain : block'[x].height = j
  <2>1. CASE b \in 0 .. mined
    <3>1. PICK x \in block[b].chain : block[x].height = j
      BY <2>1, <1>3, <1>6 DEF Gapless
    <3> QED BY <3>1, <2>1, <1>3, <1>5
  <2>2. CASE b = k
    <3>1. CASE j <= block[p].height
      <4>1. PICK x \in block[p].chain : block[x].height = j
        BY <3>1, <1>2 DEF Gapless
      <4> QED BY <4>1, <2>2, <1>2, <1>3
    <3>2. CASE ~(j <= block[p].height)
      <4>1. j = block'[k].height
        BY <3>2, <2>2, <1>2, <1>3, <1>6
      <4> QED BY <4>1, <2>2, <1>3
    <3> QED BY <3>1, <3>2
  <2> QED BY <2>1, <2>2, <1>4
<1> QED BY <1>3, <1>6 DEF Gapless

(* The time that node n remembers after its main branch has moved. *)
LEMMA AdjustingKeepsStart ==
    ASSUME IInv, IInv', Gapless(block', mined'), NEW n \in Node,
           Mine(n) \/ \E b \in Block : Receive(n, b),
           DOMAIN adjustmentBlockTime = Node,
           NEW T, Adjust(n, T),
           NEW o \in Known(n),
           block[o].height = PeriodStart(block[mainBranch[n]].height),
           T[o] = adjustmentBlockTime[n]
    PROVE  \E b \in Known(n)' :
              /\ block'[b].height = PeriodStart(block'[mainBranch'[n]].height)
              /\ T[b] = adjustmentBlockTime'[n]
<1> DEFINE low == block[mainBranch[n]].height
           high == block'[mainBranch'[n]].height
           openers == {b \in Followed(n) : block'[b].height % Period = 0}
<1>1. /\ \A x \in 0 .. mined : block'[x] = block[x]
      /\ Known(n) \subseteq Known(n)'
      /\ mainBranch'[n] # mainBranch[n] => high > low
  BY StepOfOneNode
<1>2. /\ low \in Nat /\ mainBranch[n] \in 0 .. mined
  BY InvariantOfTree DEF IInv, Heap
<1>3. /\ mainBranch'[n] \in branches'[n] /\ mainBranch'[n] \in 0 .. mined'
      /\ 0 .. mined' \subseteq Block
  <2>1. mined' \in Block
    BY DEF IInv, TreeInv, TypeOK
  <2>2. 0 .. mined' \subseteq Block
    BY <2>1, MaxBlockAssumption DEF Block, Genesis
  <2> QED BY <2>2 DEF IInv, TreeInv, References, MainBranchIsHighest
<1>4. \A x \in 0 .. mined' : block'[x].height \in Nat
  BY <1>3 DEF IInv, TreeInv, TypeOK
<1>5. \A x \in block'[mainBranch'[n]].chain :
         /\ x \in 0 .. mined' /\ x \in Known(n)'
         /\ block'[x].height \in Nat /\ block'[x].height <= high
  <2>1. \A x \in block'[mainBranch'[n]].chain :
           /\ x \in 0 .. mined'
           /\ x # mainBranch'[n] => block'[x].height < high
    BY <1>3 DEF IInv, TreeInv, TreeOK
  <2> QED BY <2>1, <1>3, <1>4 DEF Known
<1>6. high \in Nat /\ low <= high
  <2>1. mainBranch'[n] = mainBranch[n] => high = low
    BY <1>1, <1>2
  <2> QED BY <2>1, <1>1, <1>2, <1>3, <1>4
<1>7. \A x : x \in openers <=> /\ x \in block'[mainBranch'[n]].chain
                               /\ block'[x].height > low
                               /\ block'[x].height % Period = 0
  BY DEF Followed
<1>8. \A j \in Nat : j <= high =>
         \E x \in block'[mainBranch'[n]].chain : block'[x].height = j
  BY <1>3 DEF Gapless
<1>9. adjustmentBlockTime'[n] =
         IF openers = {} THEN adjustmentBlockTime[n]
         ELSE T[CHOOSE b \in openers :
                   \A c \in openers : block'[c].height <= block'[b].height]
  BY DEF Adjust, Set
<1> HIDE DEF low, high, openers
<1>10. /\ PeriodStart(low) \in Nat /\ PeriodStart(low) <= low
       /\ PeriodStart(low) % Period = 0
       /\ PeriodStart(high) \in Nat /\ PeriodStart(high) <= high
       /\ PeriodStart(high) % Period = 0
       /\ \A z \in Nat : z <= low /\ z % Period = 0 => z <= PeriodStart(low)
       /\ \A z \in Nat : z <= high /\ z % Period = 0 => z <= PeriodStart(high)
  BY <1>2, <1>6, PeriodStarts
<1>11. PeriodStart(high) > low =>
          \E x \in openers : block'[x].height = PeriodStart(high)
  BY <1>7, <1>8, <1>10
<1>12. CASE openers = {}
  <2>1. PeriodStart(high) <= PeriodStart(low)
    BY <1>2, <1>10, <1>11, <1>12
  <2>2. PeriodStart(low) <= PeriodStart(high)
    BY <1>2, <1>6, <1>10
  <2>3. PeriodStart(high) = PeriodStart(low)
    BY <2>1, <2>2, <1>10
  <2>4. o \in Known(n)' /\ o \in 0 .. mined
    BY <1>1, KnownBelowMainBranch DEF IInv
  <2>5. block'[o].height = PeriodStart(high)
    BY <2>3, <2>4, <1>1 DEF low
  <2>6. T[o] = adjustmentBlockTime'[n]
    BY <1>9, <1>12
  <2> QED BY <2>4, <2>5, <2>6 DEF high
<1>13. CASE openers # {}
  <2>1. \A c \in openers : /\ block'[c].height \in Nat
                           /\ block'[c].height > low
                           /\ block'[c].height <= PeriodStart(high)
                           /\ c \in Known(n)'
    BY <1>5, <1>7, <1>10
  <2>2. PICK x \in openers : block'[x].height = PeriodStart(high)
    BY <2>1, <1>2, <1>10, <1>11, <1>13
  <2> DEFINE f == CHOOSE b \in openers :
                     \A c \in openers : block'[c].height <= block'[b].height
  <2>3. f \in openers /\ \A c \in openers : block'[c].height <= block'[f].height
    BY <2>1, <2>2
  <2>4. T[f] = adjustmentBlockTime'[n]
    BY <1>9, <1>13
  <2> HIDE DEF f
  <2>5. block'[f].height = PeriodStart(high)
    BY <2>1, <2>2, <2>3, <1>10
  <2> QED BY <2>1, <2>3, <2>4, <2>5 DEF high
<1> QED BY <1>12, <1>13

(* A step of the network whose new times are T. *)
LEMMA StepKeepsStart ==
    ASSUME RetargetInv, IInv', Gapless(block', mined'), NEW n \in Node,
           Mine(n) \/ \E b \in Block : Receive(n, b),
           Adjust(n, time'), \A x \in 0 .. mined : time'[x] = time[x]
    PROVE  /\ AdjustmentTimeOpensPeriod'
           /\ DOMAIN adjustmentBlockTime' = Node
<1>1. IInv /\ DOMAIN adjustmentBlockTime = Node
  BY DEF RetargetInv
<1>2. /\ \A x \in 0 .. mined : block'[x] = block[x]
      /\ \A m \in Node \ {n} : /\ Known(m)' = Known(m)
                               /\ mainBranch'[m] = mainBranch[m]
  BY <1>1, StepOfOneNode
<1>3. \A m \in Node \ {n} : adjustmentBlockTime'[m] = adjustmentBlockTime[m]
  BY <1>1 DEF Adjust, Set
<1>4. ASSUME NEW m \in Node
      PROVE  \E b \in Known(m)' :
                /\ block'[b].height = PeriodStart(block'[mainBranch'[m]].height)
                /\ time'[b] = adjustmentBlockTime'[m]
  <2>1. PICK o \in Known(m) :
           /\ block[o].height = PeriodStart(block[mainBranch[m]].height)
           /\ time[o] = adjustmentBlockTime[m]
    BY DEF RetargetInv, AdjustmentTimeOpensPeriod, PeriodStart
  <2>2. o \in 0 .. mined /\ time'[o] = time[o]
    BY <1>1, KnownBelowMainBranch DEF IInv
  <2>3. CASE m = n
    <3> DEFINE T == time'
    <3>1. Adjust(n, T) /\ T[o] = adjustmentBlockTime[n]
      BY <2>1, <2>2, <2>3
    <3> HIDE DEF T
    <3>2. \E b \in Known(n)' :
             /\ block'[b].height = PeriodStart(block'[mainBranch'[n]].height)
             /\ T[b] = adjustmentBlockTime'[n]
      BY <2>1, <2>3, <3>1, <1>1, AdjustingKeepsStart
    <3> QED BY <3>2, <2>3 DEF T
  <2>4. CASE m # n
    <3>1. mainBranch[m] \in 0 .. mined
      BY <1>1, InvariantOfTree DEF IInv
    <3> QED BY <2>1, <2>2, <2>4, <3>1, <1>2, <1>3
  <2> QED BY <2>3, <2>4
<1>5. DOMAIN adjustmentBlockTime' = Node
  BY <1>1 DEF Adjust, Set
<1> QED BY <1>4, <1>5 DEF AdjustmentTimeOpensPeriod, PeriodStart

(* The genesis block opens the first period. *)
LEMMA InitEstablishesRetargetInv == RetargetInit => RetargetInv
<1> SUFFICES ASSUME RetargetInit PROVE RetargetInv
  OBVIOUS
<1>1. IInv
  BY InitEstablishesIInv DEF RetargetInit
<1>2. /\ mined = 0 /\ 0 \in Block /\ block[0].height = 0 /\ block[0].chain = {0}
      /\ \A n \in Node : mainBranch[n] = 0 /\ branches[n] = {0}
  BY MaxBlockAssumption DEF RetargetInit, Init, Genesis, Block
<1>3. Gapless(block, mined)
  BY <1>2 DEF Gapless
<1>4. /\ DOMAIN time = Block /\ DOMAIN adjustmentBlockTime = Node
      /\ time[0] = 0 /\ \A n \in Node : adjustmentBlockTime[n] = 0
  BY <1>2 DEF RetargetInit
<1>5. PeriodStart(0) = 0
  BY PeriodStarts
<1>6. \A n \in Node : 0 \in Known(n)
  BY <1>2 DEF Known
<1>7. AdjustmentTimeOpensPeriod
  BY <1>2, <1>4, <1>5, <1>6 DEF AdjustmentTimeOpensPeriod, PeriodStart
<1> QED BY <1>1, <1>3, <1>4, <1>7 DEF RetargetInv

(* Every step of the network keeps the invariant. *)
LEMMA StepKeepsRetargetInv ==
    RetargetInv /\ [RetargetNext]_retargetVars => RetargetInv'
<1> SUFFICES ASSUME RetargetInv, [RetargetNext]_retargetVars
             PROVE  RetargetInv'
  OBVIOUS
<1>1. /\ IInv /\ Gapless(block, mined)
      /\ DOMAIN time = Block /\ DOMAIN adjustmentBlockTime = Node
      /\ AdjustmentTimeOpensPeriod
  BY DEF RetargetInv
<1>2. mined \in Nat /\ 0 .. mined \subseteq Block
  BY <1>1, MaxBlockAssumption DEF IInv, TreeInv, TypeOK, Block, Genesis
<1>3. ASSUME NEW n \in Miner, NEW gap \in Gap, RetargetMine(n, gap)
      PROVE  RetargetInv'
  <2>1. n \in Node /\ Mine(n) /\ Adjust(n, time')
    BY <1>3, NodeAssumption DEF RetargetMine
  <2>2. IInv' /\ Gapless(block', mined')
    BY <2>1, <1>1, MineKeepsIInv, MiningKeepsGapless
  <2>3. DOMAIN time' = Block /\ \A x \in 0 .. mined : time'[x] = time[x]
    BY <1>1, <1>2, <1>3 DEF RetargetMine
  <2>4. /\ AdjustmentTimeOpensPeriod'
        /\ DOMAIN adjustmentBlockTime' = Node
    BY <2>1, <2>2, <2>3, StepKeepsStart
  <2>5. Gapless(block, mined)'
    BY <2>2 DEF Gapless
  <2> QED BY <2>2, <2>3, <2>4, <2>5 DEF RetargetInv
<1>4. ASSUME NEW n \in Node, NEW b \in Block, RetargetReceive(n, b)
      PROVE  RetargetInv'
  <2>1. /\ Receive(n, b) /\ time' = time /\ Adjust(n, time')
        /\ block' = block /\ mined' = mined
    BY <1>4 DEF RetargetReceive, Receive, Adjust, Set
  <2>2. IInv' /\ Gapless(block', mined')
    BY <2>1, <1>1, ReceiveKeepsIInv
  <2>3. /\ AdjustmentTimeOpensPeriod'
        /\ DOMAIN adjustmentBlockTime' = Node
    BY <2>1, <2>2, StepKeepsStart
  <2>4. Gapless(block, mined)'
    BY <2>2 DEF Gapless
  <2> QED BY <2>1, <2>2, <2>3, <2>4, <1>1 DEF RetargetInv
<1>5. CASE UNCHANGED retargetVars
  <2>1. IInv'
    BY <1>1, <1>5, NextKeepsIInv DEF retargetVars
  <2>2. UNCHANGED <<block, mined, mainBranch, branches, time, adjustmentBlockTime>>
    BY <1>5 DEF retargetVars, vars
  <2> QED
    BY <2>1, <2>2, <1>1
       DEF RetargetInv, Gapless, AdjustmentTimeOpensPeriod, Known
<1> QED
  BY <1>3, <1>4, <1>5
     DEF RetargetNext, RetargetTimeLimit, TimeLimit, retargetVars

-----------------------------------------------------------------------------
(* The targets of blocks.                                                  *)

(* A chain has one block at every height below its own. *)
LEMMA OneAtHeight ==
    ASSUME NEW B, NEW k \in Nat, TreeOK(B, k), Gapless(B, k),
           \A x \in 0 .. k : B[x].height \in Nat,
           NEW b \in 0 .. k, NEW j \in Nat, j <= B[b].height
    PROVE  \E x \in B[b].chain :
              /\ x \in 0 .. k /\ B[x].height = j
              /\ \A y \in B[b].chain : B[y].height = j => y = x
<1>1. PICK x \in B[b].chain : B[x].height = j
  BY DEF Gapless
<1>2. ASSUME NEW y \in B[b].chain, B[y].height = j PROVE y = x
  <2>1. x \in 0 .. k /\ y \in 0 .. k /\ (x \in B[y].chain \/ y \in B[x].chain)
    BY <1>1 DEF TreeOK
  <2>2. x # y => B[x].height < B[y].height \/ B[y].height < B[x].height
    BY <2>1 DEF TreeOK
  <2> QED BY <1>1, <1>2, <2>1, <2>2
<1> QED BY <1>1, <1>2 DEF TreeOK

(* The tree of a state of the invariant. *)
LEMMA RetargetTree ==
    ASSUME RetargetInv
    PROVE  /\ mined \in Nat /\ 0 .. mined \subseteq Block
           /\ TreeOK(block, mined) /\ Gapless(block, mined)
           /\ \A x \in 0 .. mined : block[x].height \in Nat
<1>1. IInv /\ Gapless(block, mined)
  BY DEF RetargetInv
<1> QED
  BY <1>1, MaxBlockAssumption
     DEF IInv, TreeInv, TypeOK, Block, Genesis

(* The target of a block follows from the blocks below it, which stay. *)
LEMMA TargetStays ==
    ASSUME RetargetInv, NEW b \in 1 .. mined,
           \A x \in 0 .. mined : /\ block'[x] = block[x]
                                /\ time'[x] = time[x]
                                /\ nBits'[x] = nBits[x]
    PROVE  TargetOf(b)' = TargetOf(b)
<1> DEFINE p == block[b].prev
           h == block[b].height - Period
<1>1. /\ mined \in Nat /\ TreeOK(block, mined) /\ Gapless(block, mined)
      /\ \A x \in 0 .. mined : block[x].height \in Nat
  BY RetargetTree
<1>2. /\ p \in 0 .. mined /\ b \in 0 .. mined
      /\ block[b].height = block[p].height + 1
      /\ block[p].chain \subseteq 0 .. mined
  BY <1>1 DEF TreeOK
<1>3. CASE block[b].height % Period = 0
  <2>1. h \in Nat /\ h <= block[p].height
    <3>1. Period \in Nat \ {0, 1} /\ block[b].height \in Nat
          /\ block[p].height \in Nat /\ block[b].height > 0
      BY <1>1, <1>2, PeriodAssumption
    <3>2. PICK q : q \in Nat /\ block[b].height = Period * q
      <4>1. PICK g \in Nat : g = block[b].height
        BY <3>1
      <4>2. PICK q \in Nat, r \in Nat : r = g % Period /\ Splits(Period, g, q, r)
        BY <3>1, Quotient
      <4>3. r = 0
        BY <1>3, <4>1, <4>2
      <4>4. g = Period * q
        BY <3>1, <4>2, <4>3 DEF Splits
      <4> QED BY <4>1, <4>4
    <3>3. Period * q >= Period
      <4>1. q >= 1
        BY <3>1, <3>2
      <4> QED BY <4>1, <3>1, <3>2
    <3> QED BY <3>1, <3>2, <3>3, <1>2
  <2> HIDE DEF h
  <2>2. PICK x \in block[p].chain :
           /\ x \in 0 .. mined /\ block[x].height = h
           /\ \A y \in block[p].chain : block[y].height = h => y = x
    BY <1>1, <1>2, <2>1, OneAtHeight
  <2>3. block'[p].chain = block[p].chain
        /\ \A y \in block[p].chain : block'[y].height = block[y].height
    BY <1>2
  <2>4. x = CHOOSE y \in block'[p].chain : block'[y].height = h
    BY <2>2, <2>3
  <2>5. x = CHOOSE y \in block[p].chain : block[y].height = h
    BY <2>2
  <2>6. TargetOf(b) = FromBigDouble(Scaled(nBits[p], time[p] - time[x]))
    BY <1>3, <2>5 DEF TargetOf, h
  <2>7. TargetOf(b)' = FromBigDouble(Scaled(nBits'[p], time'[p] - time'[x]))
    BY <1>2, <1>3, <2>4 DEF TargetOf, h
  <2> QED BY <2>2, <2>6, <2>7, <1>2
<1>4. CASE block[b].height % Period # 0
  BY <1>2, <1>4 DEF TargetOf
<1> QED BY <1>3, <1>4

(* A mined block has the target of its branch, or the start of its period  *)
(* was contested: the time its miner remembers is that of a block at the   *)
(* height where the period began, and so is the one in the branch.         *)
LEMMA MinedTarget ==
    ASSUME RetargetInv, RetargetInv', NEW n \in Miner, NEW gap \in Gap,
           RetargetMine(n, gap), DOMAIN nBits = Block,
           NEW k, k = mined + 1
    PROVE  nBits'[k] = TargetOf(k)' \/ Contested(k)'
<1> DEFINE p == mainBranch[n]
           h == block[p].height
           c == FromBigDouble(Scaled(nBits[p], time[p] - adjustmentBlockTime[n]))
<1>1. /\ mined \in Nat /\ TreeOK(block, mined) /\ Gapless(block, mined)
      /\ \A x \in 0 .. mined : block[x].height \in Nat
      /\ 0 .. mined \subseteq Block
  BY RetargetTree
<1>2. n \in Node /\ Mine(n) /\ IInv
  BY NodeAssumption DEF RetargetMine, RetargetInv
<1>3. /\ mined' = k /\ k \in Block
      /\ \A x \in 0 .. mined : block'[x] = block[x]
      /\ block'[k] = [prev |-> p, height |-> h + 1,
                      chain |-> block[p].chain \cup {k}]
  BY <1>2, MineFilesBlock DEF FiledMined, NewBlock
<1>4. /\ p \in 0 .. mined /\ h \in Nat
      /\ block[p].chain \subseteq 0 .. mined
      /\ \A x \in 0 .. mined : x # k
  BY <1>1, <1>2, InvariantOfTree DEF IInv, TreeOK
<1>5. /\ nBits'[k] = NextTargetNBits(n)
      /\ \A x \in 0 .. mined : nBits'[x] = nBits[x] /\ time'[x] = time[x]
  BY <1>1, <1>3, <1>4 DEF RetargetMine, RetargetInv
<1>6. CASE ~ClosesPeriod(p)
  <2>1. nBits'[k] = nBits[p]
    BY <1>5, <1>6 DEF NextTargetNBits
  <2>2. (h + 1) % Period # 0
    BY <1>4, <1>6, NextOpens DEF ClosesPeriod
  <2>3. TargetOf(k)' = nBits'[p]
    BY <1>3, <2>2 DEF TargetOf
  <2> QED BY <2>1, <2>3, <1>4, <1>5
<1>7. CASE ClosesPeriod(p)
  <2>1. nBits'[k] = c
    BY <1>5, <1>7 DEF NextTargetNBits, AdjustedNBits
  <2>2. (h + 1) % Period = 0
    BY <1>4, <1>7, NextOpens DEF ClosesPeriod
  <2>3. PICK o \in Known(n) : /\ block[o].height = PeriodStart(h)
                              /\ time[o] = adjustmentBlockTime[n]
    BY <1>2 DEF RetargetInv, AdjustmentTimeOpensPeriod, PeriodStart
  <2>4. o \in 0 .. mined
    BY <1>2, KnownBelowMainBranch DEF IInv
  <2>5. /\ PeriodStart(h) = (h + 1) - Period
        /\ PeriodStart(h) \in Nat /\ PeriodStart(h) <= h
    BY <1>4, <1>7, NextOpens, PeriodStarts, PeriodAssumption
       DEF ClosesPeriod, PeriodStart
  <2>6. PICK x \in block[p].chain :
           /\ x \in 0 .. mined /\ block[x].height = PeriodStart(h)
           /\ \A y \in block[p].chain :
                 block[y].height = PeriodStart(h) => y = x
    <3>1. PICK j \in Nat : j = PeriodStart(h) /\ j <= block[p].height
      BY <2>5
    <3>2. \E x \in block[p].chain :
             /\ x \in 0 .. mined /\ block[x].height = j
             /\ \A y \in block[p].chain : block[y].height = j => y = x
      BY <1>1, <1>4, <3>1, OneAtHeight
    <3> QED BY <3>1, <3>2
  <2>7. \A y \in block'[p].chain :
           block'[y].height = block'[k].height - Period <=> y = x
    BY <1>3, <1>4, <2>5, <2>6
  <2>8. x = CHOOSE y \in block'[p].chain :
               block'[y].height = block'[k].height - Period
    <3>1. x \in block'[p].chain
      BY <1>3, <1>4, <2>6
    <3> QED BY <3>1, <2>7
  <2>9. TargetOf(k)' = FromBigDouble(Scaled(nBits[p], time[p] - time[x]))
    BY <1>3, <1>4, <1>5, <2>2, <2>6, <2>8 DEF TargetOf
  <2>10. CASE x = o
    BY <2>1, <2>3, <2>9, <2>10
  <2>11. CASE x # o
    <3>1. /\ block'[x].height = block'[o].height
          /\ block'[x].height = block'[k].height - Period
      BY <1>3, <2>3, <2>4, <2>5, <2>6
    <3>2. x # 0 /\ o # 0
      <4>1. \A b \in 1 .. mined : block[b].height # 0
        BY <1>1 DEF TreeOK
      <4>2. block[0].height = 0
        BY <1>1 DEF TreeOK, Genesis
      <4> QED BY <4>1, <4>2, <2>3, <2>4, <2>6, <2>11, <1>1
    <3>3. x \in 1 .. mined' /\ o \in 1 .. mined'
      BY <3>2, <2>4, <2>6, <1>1, <1>3
    <3>4. Contested(k)'
      BY <3>1, <3>3, <2>11 DEF Contested
    <3> QED BY <3>4
  <2> QED BY <2>10, <2>11
<1> QED BY <1>6, <1>7

-----------------------------------------------------------------------------
(* The time a node remembers is that of a block it knows at the height     *)
(* where the period of its main branch began, for any length of a period   *)
(* and whatever forks, swaps and chains of orphans it went through.        *)
THEOREM RemembersStartOfPeriod == RetargetSpec => []AdjustmentTimeOpensPeriod
<1>1. RetargetInv => AdjustmentTimeOpensPeriod
  BY DEF RetargetInv
<1> QED
  BY <1>1, InitEstablishesRetargetInv, StepKeepsRetargetInv, PTL
     DEF RetargetSpec

(* The inductive invariant of targets. *)
TargetInv ==
    /\ RetargetInv
    /\ DOMAIN nBits = Block
    /\ TargetFollowsUncontestedBranch

(* Blocks keep their targets, and a contested start stays contested. *)
LEMMA OldTargetsStay ==
    ASSUME TargetInv, mined' \in Nat, mined <= mined',
           \A x \in 0 .. mined : /\ block'[x] = block[x]
                                /\ time'[x] = time[x]
                                /\ nBits'[x] = nBits[x]
    PROVE  \A b \in 1 .. mined : nBits'[b] = TargetOf(b)' \/ Contested(b)'
<1>1. RetargetInv /\ mined \in Nat
  BY RetargetTree DEF TargetInv
<1>2. ASSUME NEW b \in 1 .. mined
      PROVE  nBits'[b] = TargetOf(b)' \/ Contested(b)'
  <2>1. nBits[b] = TargetOf(b) \/ Contested(b)
    BY DEF TargetInv, TargetFollowsUncontestedBranch
  <2>2. TargetOf(b)' = TargetOf(b) /\ nBits'[b] = nBits[b]
    BY <1>1, TargetStays
  <2>3. ASSUME Contested(b) PROVE Contested(b)'
    <3>1. PICK x, y \in 1 .. mined :
             /\ x # y /\ block[x].height = block[y].height
             /\ block[x].height = block[b].height - Period
      BY <2>3 DEF Contested
    <3>2. /\ x \in 1 .. mined' /\ y \in 1 .. mined'
          /\ block'[x] = block[x] /\ block'[y] = block[y]
          /\ block'[b] = block[b]
      BY <1>1
    <3> QED BY <3>1, <3>2 DEF Contested
  <2> QED BY <2>1, <2>2, <2>3
<1> QED BY <1>2

(* Every step of the network keeps the targets. *)
LEMMA StepKeepsTargetInv ==
    TargetInv /\ [RetargetNext]_retargetVars => TargetInv'
<1> SUFFICES ASSUME TargetInv, [RetargetNext]_retargetVars
             PROVE  TargetInv'
  OBVIOUS
<1>1. RetargetInv /\ RetargetInv' /\ DOMAIN nBits = Block
  BY StepKeepsRetargetInv DEF TargetInv
<1>2. mined \in Nat /\ 0 .. mined \subseteq Block
  BY <1>1, RetargetTree
<1>3. ASSUME NEW n \in Miner, NEW gap \in Gap, RetargetMine(n, gap)
      PROVE  TargetInv'
  <2> PICK k : k = mined + 1
    OBVIOUS
  <2>1. n \in Node /\ Mine(n)
    BY <1>3, NodeAssumption DEF RetargetMine
  <2>2. mined' = k /\ \A x \in 0 .. mined : block'[x] = block[x]
    BY <2>1, <1>1, MineFilesBlock DEF FiledMined, RetargetInv, IInv
  <2>3. /\ DOMAIN nBits' = Block
        /\ \A x \in 0 .. mined : nBits'[x] = nBits[x] /\ time'[x] = time[x]
    BY <1>1, <1>2, <1>3 DEF RetargetMine, RetargetInv
  <2>4. nBits'[k] = TargetOf(k)' \/ Contested(k)'
    BY <1>1, <1>3, MinedTarget
  <2>5. \A b \in 1 .. mined : nBits'[b] = TargetOf(b)' \/ Contested(b)'
    BY <1>2, <2>2, <2>3, OldTargetsStay
  <2>6. \A b \in 1 .. mined' : b \in 1 .. mined \/ b = k
    BY <1>2, <2>2
  <2> QED
    BY <1>1, <2>3, <2>4, <2>5, <2>6 DEF TargetInv, TargetFollowsUncontestedBranch
<1>4. CASE UNCHANGED <<mined, block, time, nBits>>
  <2>1. \A b \in 1 .. mined : nBits'[b] = TargetOf(b)' \/ Contested(b)'
    BY <1>2, <1>4, OldTargetsStay
  <2> QED
    BY <1>1, <1>4, <2>1 DEF TargetInv, TargetFollowsUncontestedBranch
<1>5. ASSUME NEW n \in Node, NEW b \in Block, RetargetReceive(n, b)
      PROVE  UNCHANGED <<mined, block, time, nBits>>
  BY <1>5 DEF RetargetReceive, Receive
<1>6. UNCHANGED retargetVars => UNCHANGED <<mined, block, time, nBits>>
  BY DEF retargetVars, vars
<1> QED
  BY <1>3, <1>4, <1>5, <1>6
     DEF RetargetNext, RetargetTimeLimit, TimeLimit, retargetVars

(* The target of a block follows from the blocks below it, whoever mined   *)
(* it, unless the block that opened the period had a rival: whatever       *)
(* happens within the period, reorganisations and late blocks included.    *)
THEOREM TargetFollowsUnlessContested ==
    RetargetSpec => []TargetFollowsUncontestedBranch
<1>1. RetargetInit => TargetInv
  BY InitEstablishesRetargetInv
     DEF TargetInv, TargetFollowsUncontestedBranch, RetargetInit, Init, Genesis
<1>2. TargetInv => TargetFollowsUncontestedBranch
  BY DEF TargetInv
<1> QED
  BY <1>1, <1>2, StepKeepsTargetInv, PTL DEF RetargetSpec

-----------------------------------------------------------------------------
(* Compact targets.                                                        *)

(* Every power of the root is the root times the one below it. *)
LEMMA Powers ==
    /\ RootTo[0] = 1
    /\ \A k \in Nat : /\ RootTo[k] \in Nat \ {0}
                      /\ RootTo[k + 1] = Root * RootTo[k]
<1> DEFINE Positive == Nat \ {0}
           Times == [i \in Nat \ {0} |-> [x \in Positive |-> Root * x]]
<1>1. Root \in Nat /\ Root >= 2
  BY HashAssumption
<1>2. Times \in [Nat \ {0} -> [Positive -> Positive]]
  BY <1>1
<1>3. \A i \in Nat \ {0} : \A x \in Positive : Times[i][x] = Root * x
  OBVIOUS
<1>4. PICK f \in [Nat -> Positive] :
         f[0] = 1 /\ \A i \in Nat \ {0} : f[i] = Times[i][f[i - 1]]
  <2>1. PICK base \in Positive : base = 1
    OBVIOUS
  <2> HIDE DEF Times, Positive
  <2>2. \E f \in [Nat -> Positive] : Recurses(f, base, Times)
    BY <1>2, Recursion
  <2> QED BY <2>1, <2>2 DEF Recurses
<1>5. \A i \in Nat \ {0} : f[i] = Root * f[i - 1]
  <2> HIDE DEF Times
  <2> QED BY <1>3, <1>4
<1>6. f = [k \in Nat |-> IF k = 0 THEN 1 ELSE Root * f[k - 1]]
  BY <1>4, <1>5
<1>7. RootTo = [k \in Nat |-> IF k = 0 THEN 1 ELSE Root * RootTo[k - 1]]
  BY <1>6 DEF RootTo
<1>8. RootTo[0] = 1
  BY <1>7
<1>9. \A k \in Nat : RootTo[k + 1] = Root * RootTo[k]
  BY <1>7
<1> DEFINE T == {k \in Nat : RootTo[k] \in Nat \ {0}}
<1>10. 0 \in T
  BY <1>8
<1>11. ASSUME NEW k \in Nat, k \in T PROVE k + 1 \in T
  BY <1>1, <1>9, <1>11
<1>12. Nat \subseteq T
  <2> HIDE DEF T
  <2> QED BY <1>10, <1>11, Induction
<1> QED BY <1>8, <1>9, <1>12

(* The first powers. *)
LEMMA SmallPowers ==
    /\ RootTo[3] = Root * Root * Root
    /\ RootTo[3] >= 8
    /\ RadixTo(3) = Root * RootTo[5]
    /\ RootTo[5] \in Nat /\ RootTo[3] \in Nat
<1>1. Root \in Nat /\ Root >= 2
  BY HashAssumption
<1>2. RootTo[0] = 1 /\ RootTo[0 + 1] = Root * RootTo[0] /\ RootTo[1 + 1] = Root * RootTo[1]
      /\ RootTo[2 + 1] = Root * RootTo[2] /\ RootTo[5 + 1] = Root * RootTo[5]
      /\ RootTo[3] \in Nat /\ RootTo[5] \in Nat
  BY Powers
<1>3. RootTo[2] = Root * Root
  BY <1>1, <1>2
<1>4. RootTo[3] = Root * (Root * Root)
  BY <1>2, <1>3
<1>5. Root * Root >= 4
  BY <1>1
<1>6. Root * (Root * Root) >= 8
  <2>1. PICK s \in Nat : s = Root * Root
    BY <1>1
  <2>2. PICK r \in Nat : Root = r + 2
    <3>1. Root - 2 \in Nat /\ Root = (Root - 2) + 2
      BY <1>1
    <3> QED BY <3>1
  <2>3. Root * s = r * s + 2 * s /\ r * s \in Nat
    BY <2>1, <2>2
  <2> QED BY <1>5, <2>1, <2>3
<1>7. RadixTo(3) = RootTo[6]
  BY DEF RadixTo
<1>8. Root * (Root * Root) = Root * Root * Root
  BY <1>1
<1> QED BY <1>2, <1>4, <1>6, <1>7, <1>8

(* A power is the one five, or three, below it times a power. *)
LEMMA HigherPowers ==
    ASSUME NEW k \in Nat
    PROVE  /\ RootTo[k + 3] = RootTo[3] * RootTo[k]
           /\ RootTo[k + 5] = RootTo[5] * RootTo[k]
<1>1. Root \in Nat
  BY HashAssumption
<1>2. PICK p \in Nat : p = RootTo[k]
  BY Powers
<1>3. /\ RootTo[k + 1] = Root * p /\ RootTo[(k + 1) + 1] = Root * RootTo[k + 1]
      /\ RootTo[(k + 2) + 1] = Root * RootTo[k + 2]
      /\ RootTo[(k + 3) + 1] = Root * RootTo[k + 3]
      /\ RootTo[(k + 4) + 1] = Root * RootTo[k + 4]
  <2>1. k + 1 \in Nat /\ k + 2 \in Nat /\ k + 3 \in Nat /\ k + 4 \in Nat
    OBVIOUS
  <2> QED BY <1>2, <2>1, Powers
<1>4. /\ RootTo[0 + 1] = Root * 1 /\ RootTo[1 + 1] = Root * RootTo[1]
      /\ RootTo[2 + 1] = Root * RootTo[2]
      /\ RootTo[3 + 1] = Root * RootTo[3]
      /\ RootTo[4 + 1] = Root * RootTo[4]
  BY Powers
<1>5. /\ (k + 1) + 1 = k + 2 /\ (k + 2) + 1 = k + 3
      /\ (k + 3) + 1 = k + 4 /\ (k + 4) + 1 = k + 5
      /\ 1 + 1 = 2 /\ 2 + 1 = 3 /\ 3 + 1 = 4 /\ 4 + 1 = 5 /\ 0 + 1 = 1
  OBVIOUS
<1>6. /\ RootTo[k + 5] = Root * (Root * (Root * (Root * (Root * p))))
      /\ RootTo[k + 3] = Root * (Root * (Root * p))
  BY <1>3, <1>5
<1>7. /\ RootTo[5] = Root * (Root * (Root * (Root * Root)))
      /\ RootTo[3] = Root * (Root * Root)
  <2>1. RootTo[1] = Root
    BY <1>1, <1>4, <1>5
  <2> QED BY <1>4, <1>5, <2>1
<1>8. /\ Root * (Root * (Root * (Root * (Root * p)))) = (Root * (Root * (Root * (Root * Root)))) * p
      /\ Root * (Root * (Root * p)) = (Root * (Root * Root)) * p
  BY <1>1, <1>2
<1> QED BY <1>2, <1>6, <1>7, <1>8

(* A value in the range has an exponent. *)
LEMMA ExponentFits ==
    ASSUME NEW v \in Nat, HasExponent(v)
    PROVE  /\ Exponent(v) \in 0 .. MaxExponent - 3
           /\ RootTo[2 * Exponent(v) + 3] <= v
           /\ v < RootTo[2 * Exponent(v) + 5]
<1> DEFINE Fits(k) == RootTo[2 * k + 3] <= v /\ v < RootTo[2 * k + 5]
           N == MaxExponent - 3
           T == {k \in 0 .. N : (\E j \in 0 .. k : Fits(j)) \/ RootTo[2 * k + 5] <= v}
<1>1. N \in Nat /\ MaxExponent \in Nat
  BY HashAssumption
<1>2. \A k \in Nat : RootTo[k] \in Nat
  BY Powers
<1>3. 0 \in T
  <2>1. 2 * 0 + 3 = 3 /\ 2 * 0 + 5 = 5
    OBVIOUS
  <2>2. RootTo[5] \in Nat /\ RootTo[3] <= v
    BY <1>2 DEF HasExponent
  <2> QED BY <1>1, <2>1, <2>2
<1>4. ASSUME NEW i \in Nat, i < N, i \in T PROVE i + 1 \in T
  <2>1. 2 * (i + 1) + 3 = 2 * i + 5 /\ 2 * (i + 1) + 5 \in Nat /\ i + 1 \in 0 .. N
    BY <1>1, <1>4
  <2>2. RootTo[2 * (i + 1) + 5] \in Nat
    BY <1>2, <2>1
  <2>3. CASE \E j \in 0 .. i : Fits(j)
    BY <2>3, <2>1
  <2>4. CASE RootTo[2 * i + 5] <= v
    <3>1. CASE RootTo[2 * (i + 1) + 5] <= v
      BY <3>1, <2>1
    <3>2. CASE ~(RootTo[2 * (i + 1) + 5] <= v)
      <4>1. v < RootTo[2 * (i + 1) + 5]
        BY <3>2, <2>2
      <4>2. Fits(i + 1)
        BY <4>1, <2>1, <2>4
      <4> QED BY <4>2, <2>1
    <3> QED BY <3>1, <3>2
  <2> QED BY <2>3, <2>4, <1>4
<1>5. N \in T
  <2> HIDE DEF T
  <2>1. \A i \in 0 .. N : i \in T
    BY <1>1, <1>3, <1>4, InductionUpTo
  <2> QED BY <1>1, <2>1
<1>6. \E j \in 0 .. N : Fits(j)
  <2>1. 2 * N + 5 = 2 * MaxExponent - 1
    BY <1>1
  <2>2. RootTo[2 * N + 5] \in Nat
    BY <1>1, <1>2
  <2> QED BY <1>5, <2>1, <2>2 DEF HasExponent
<1> QED BY <1>6 DEF Exponent

(* The quotient of two numbers and its bounds. *)
LEMMA Division ==
    ASSUME NEW v \in Nat, NEW p \in Nat \ {0}
    PROVE  /\ v \div p \in Nat
           /\ p * (v \div p) <= v
           /\ v < p * (v \div p) + p
<1>1. PICK q, r : q = v \div p /\ r = v % p
  OBVIOUS
<1>2. q \in Nat /\ r \in Nat /\ r < p
  BY <1>1
<1>3. v = p * q + r
  BY <1>1, <1>2
<1>4. p * q \in Nat
  BY <1>2
<1> QED BY <1>1, <1>2, <1>3, <1>4

(* Numbers a, b with p * a < p * b are in the same order. *)
LEMMA Cancel ==
    ASSUME NEW p \in Nat \ {0}, NEW a \in Int, NEW b \in Int, p * a < p * b
    PROVE  a < b
<1>1. SUFFICES ASSUME b <= a PROVE p * b <= p * a
  OBVIOUS
<1>2. PICK c \in Nat : a = b + c
  <2>1. a - b \in Nat /\ a = b + (a - b)
    BY <1>1
  <2> QED BY <2>1
<1>3. p * a = p * b + p * c /\ p * c >= 0
  BY <1>2
<1> QED BY <1>3

(* fromBigDouble() keeps the sign bit clear and a mantissa of one and a    *)
(* half digits at least, so it loses less than one part in RootTo[3].       *)
LEMMA CompactValue ==
    ASSUME NEW v \in Nat, HasExponent(v)
    PROVE  /\ FromBigDouble(v) \in Compact
           /\ Value(FromBigDouble(v)) \in Nat \ {0}
           /\ Value(FromBigDouble(v)) <= v
           /\ RootTo[3] * Value(FromBigDouble(v)) >= (RootTo[3] - 1) * v + RootTo[3]
<1>1. PICK k \in 0 .. MaxExponent - 3 :
         /\ k = Exponent(v)
         /\ RootTo[2 * k + 3] <= v /\ v < RootTo[2 * k + 5]
  BY ExponentFits
<1>2. PICK p \in Nat \ {0} : p = RadixTo(k)
  BY Powers DEF RadixTo
<1>3. PICK c \in Nat, d \in Nat : c = RootTo[3] /\ d = RootTo[5] /\ c >= 8
  BY SmallPowers
<1>4. c * p <= v /\ v < d * p
  <2>1. 2 * k \in Nat
    OBVIOUS
  <2> QED BY <1>1, <1>2, <1>3, <2>1, HigherPowers DEF RadixTo
<1>5. PICK m \in Nat : m = v \div p /\ p * m <= v /\ v < p * m + p
  BY <1>2, Division
<1>6. c <= m
  <2>1. p * c < p * (m + 1)
    BY <1>4, <1>5
  <2>2. c < m + 1
    BY <2>1, Cancel
  <2> QED BY <2>2
<1>7. m < d
  <2>1. p * m < p * d
    BY <1>4, <1>5
  <2> QED BY <2>1, Cancel
<1>8. PICK x \in Nat : x = RadixTo(3) /\ x = Root * d
  BY <1>3, SmallPowers, HashAssumption
<1>9. x >= 2 * d
  BY <1>8, HashAssumption
<1>10. ~Negative(m) /\ m \in Mantissa
  <2>1. x \div 2 >= d
    BY <1>9
  <2>2. m < x \div 2 /\ m <= x - 1
    BY <2>1, <1>7, <1>9
  <2> QED BY <2>2, <1>8 DEF Negative, Mantissa
<1>11. FromBigDouble(v) = [m |-> m, e |-> k + 3]
  <2>1. FromBigDouble(v) = HashOf(m, k + 3)
    BY <1>1, <1>2, <1>5 DEF FromBigDouble
  <2>2. HashOf(m, k + 3) = Normal(m, k + 3)
    BY <1>10 DEF HashOf
  <2> QED BY <2>1, <2>2, <1>3, <1>6 DEF Normal
<1>12. Value(FromBigDouble(v)) = m * p
  <2>1. k + 3 >= 3 /\ (k + 3) - 3 = k
    OBVIOUS
  <2> QED BY <2>1, <1>2, <1>11 DEF Value
<1>13. FromBigDouble(v) \in Compact
  <2>1. k + 3 \in 1 .. MaxExponent /\ m > 0
    BY <1>3, <1>6, HashAssumption
  <2> QED BY <2>1, <1>10, <1>11 DEF Compact
<1>14. m * p = p * m /\ p * m \in Nat \ {0}
  BY <1>3, <1>6
<1>15. c * (p * m) >= (c - 1) * v + c
  <2>1. PICK y \in Nat : y = p * m
    BY <1>14
  <2>2. v + 1 <= y + p
    BY <1>5, <2>1
  <2>3. c * (v + 1) <= c * (y + p)
    BY <2>2
  <2>4. c * v + c <= c * y + c * p
    BY <2>3
  <2>5. (c - 1) * v = c * v - v
    BY <1>3
  <2> QED BY <2>1, <2>4, <2>5, <1>4
<1> QED BY <1>3, <1>5, <1>12, <1>13, <1>14, <1>15

(* computeNewDifficulty() changes a target by a factor of four at most.    *)
LEMMA ScaledByFour ==
    ASSUME NEW h, Value(h) \in Nat \ {0}, NEW actual \in Int
    PROVE  /\ Scaled(h, actual) \in Nat
           /\ Scaled(h, actual) <= 4 * Value(h)
           /\ 4 * Scaled(h, actual) >= Value(h) - 3
<1>1. PICK old \in Nat \ {0} : old = Value(h)
  OBVIOUS
<1>2. Expected \in Nat \ {0}
  BY PeriodAssumption
<1>3. CASE 4 * actual < Expected
  <2>1. Scaled(h, actual) = old \div 4
    BY <1>1, <1>3 DEF Scaled
  <2> QED BY <1>1, <2>1
<1>4. CASE ~(4 * actual < Expected) /\ actual > 4 * Expected
  <2>1. Scaled(h, actual) = 4 * old
    BY <1>1, <1>4 DEF Scaled
  <2> QED BY <1>1, <2>1
<1>5. CASE ~(4 * actual < Expected) /\ ~(actual > 4 * Expected)
  <2>1. Scaled(h, actual) = (old * actual) \div Expected
    BY <1>1, <1>5 DEF Scaled
  <2>2. actual \in Nat /\ 4 * actual >= Expected /\ actual <= 4 * Expected
    BY <1>2, <1>5
  <2>3. PICK c \in Nat : c = old * actual
    BY <1>1, <2>2
  <2>4. PICK v \in Nat : /\ v = c \div Expected
                         /\ Expected * v <= c /\ c < Expected * v + Expected
    BY <1>2, <2>3, Division
  <2>5. c <= old * (4 * Expected) /\ 4 * c >= old * Expected
    <3>1. PICK r \in Nat : 4 * Expected = actual + r
      <4>1. 4 * Expected - actual \in Nat
            /\ 4 * Expected = actual + (4 * Expected - actual)
        BY <1>2, <2>2
      <4> QED BY <4>1
    <3>2. old * (actual + r) = c + old * r /\ old * r \in Nat
      BY <1>1, <2>2, <2>3
    <3>3. PICK s \in Nat : 4 * actual = Expected + s
      <4>1. 4 * actual - Expected \in Nat
            /\ 4 * actual = Expected + (4 * actual - Expected)
        BY <1>2, <2>2
      <4> QED BY <4>1
    <3>4. old * (Expected + s) = old * Expected + old * s /\ old * s \in Nat
      BY <1>1, <1>2
    <3>5. old * (4 * actual) = 4 * c
      BY <1>1, <2>2, <2>3
    <3>6. old * Expected \in Nat
      BY <1>1, <1>2
    <3> QED BY <3>1, <3>2, <3>3, <3>4, <3>5, <3>6
  <2>6. v <= 4 * old
    <3>1. Expected * v < Expected * (4 * old + 1)
      <4>1. Expected * (4 * old + 1) = old * (4 * Expected) + Expected
        BY <1>1, <1>2
      <4>2. Expected * v \in Nat /\ old * (4 * Expected) \in Nat
        BY <1>1, <1>2, <2>4
      <4> QED BY <1>2, <2>4, <2>5, <4>1, <4>2
    <3>2. v < 4 * old + 1
      BY <1>1, <1>2, <2>4, <3>1, Cancel
    <3> QED BY <1>1, <2>4, <3>2
  <2>7. old < 4 * v + 4
    <3>1. Expected * old < Expected * (4 * v + 4)
      <4>1. Expected * (4 * v + 4) = 4 * (Expected * v) + 4 * Expected
            /\ Expected * old = old * Expected
        BY <1>1, <1>2, <2>4
      <4>2. Expected * v \in Nat /\ old * Expected \in Nat
        BY <1>1, <1>2, <2>4
      <4> QED BY <1>2, <2>3, <2>4, <2>5, <4>1, <4>2
    <3> QED BY <1>1, <1>2, <2>4, <3>1, Cancel
  <2> QED BY <1>1, <2>1, <2>3, <2>4, <2>6, <2>7
<1> QED BY <1>3, <1>4, <1>5

(* A target next to another: four times higher at most, and lower by no    *)
(* more than four times and the precision of a compact target.             *)
Near(g, h) ==
    /\ Value(h) <= 4 * Value(g)
    /\ 4 * RootTo[3] * Value(h) >= (RootTo[3] - 1) * Value(g)

(* A target is near itself. *)
LEMMA NearItself ==
    ASSUME NEW h, Value(h) \in Nat
    PROVE  Near(h, h)
<1>1. PICK v \in Nat, c \in Nat : v = Value(h) /\ c = RootTo[3]
  BY SmallPowers
<1>2. 4 * c * v = 4 * (c * v) /\ (c - 1) * v = c * v - v /\ c * v \in Nat
  BY <1>1
<1> QED BY <1>1, <1>2 DEF Near

(* An adjusted target is near the one before. *)
LEMMA NearAdjusted ==
    ASSUME NEW h, Value(h) \in Nat \ {0}, NEW actual \in Int,
           HasExponent(Scaled(h, actual)),
           NEW g, g = FromBigDouble(Scaled(h, actual))
    PROVE  g \in Compact /\ Value(g) \in Nat \ {0} /\ Near(h, g)
<1>1. PICK v \in Nat, old \in Nat : /\ v = Scaled(h, actual) /\ old = Value(h)
                                    /\ v <= 4 * old /\ 4 * v >= old - 3
  BY ScaledByFour
<1>2. PICK c \in Nat : c = RootTo[3] /\ c >= 8
  BY SmallPowers
<1>3. PICK w \in Nat \ {0} : /\ w = Value(g) /\ g \in Compact /\ w <= v
                             /\ c * w >= (c - 1) * v + c
  BY <1>1, <1>2, CompactValue
<1>4. w <= 4 * old
  BY <1>1, <1>3
<1>5. 4 * c * w >= (c - 1) * old
  <2>1. PICK d \in Nat : d = c - 1 /\ c = d + 1
    BY <1>2
  <2>2. PICK r \in Nat : 4 * v + 3 = old + r
    <3>1. 4 * v + 3 - old \in Nat /\ 4 * v + 3 = old + (4 * v + 3 - old)
      BY <1>1
    <3> QED BY <3>1
  <2>3. d * (4 * v + 3) = d * old + d * r /\ d * r \in Nat /\ d * old \in Nat
    BY <2>1, <2>2
  <2>4. d * (4 * v + 3) = 4 * (d * v) + 3 * d /\ d * v \in Nat
    BY <1>1, <2>1
  <2>5. 4 * c * w = 4 * (c * w) /\ c * w \in Nat
    BY <1>2, <1>3
  <2>6. c * w >= d * v + c
    BY <1>3, <2>1
  <2> QED BY <2>1, <2>3, <2>4, <2>5, <2>6
<1> QED BY <1>1, <1>2, <1>3, <1>4, <1>5 DEF Near

-----------------------------------------------------------------------------
(* The inductive invariant of the values of targets. *)
RangeInv ==
    /\ RetargetInv
    /\ RetargetTypeOK
    /\ DOMAIN nBits = Block
    /\ \A b \in 0 .. mined : Value(nBits[b]) \in Nat \ {0}
    /\ TargetChangesByFourAtMost

(* The first target can be compared and divided by. *)
LEMMA InitEstablishesRangeInv == RetargetInit => RangeInv
<1> SUFFICES ASSUME RetargetInit PROVE RangeInv
  OBVIOUS
<1>1. RetargetInv
  BY InitEstablishesRetargetInv
<1>2. /\ mined = 0 /\ block[0].height = 0 /\ 0 \in Block
  BY MaxBlockAssumption DEF RetargetInit, Init, Genesis, Block
<1>3. /\ nBits[0] \in Compact /\ Value(nBits[0]) \in Nat \ {0}
      /\ DOMAIN nBits = Block
  BY <1>2, PeriodAssumption, CompactValue DEF RetargetInit, Genesis
<1>4. time \in [Block -> Nat] /\ time[0] = 0
  BY <1>2 DEF RetargetInit
<1>5. 0 % Period = 0
  BY PeriodAssumption
<1>6. adjustmentBlockTime \in
          [Node -> {time[b] : b \in {c \in Genesis .. mined :
                                       block[c].height % Period = 0}}]
  BY <1>2, <1>4, <1>5 DEF RetargetInit, Genesis
<1> QED
  BY <1>1, <1>2, <1>3, <1>4, <1>6
     DEF RangeInv, RetargetTypeOK, TargetChangesByFourAtMost, Genesis

(* What a node takes for the start of a period is one. *)
Starts == [Node -> {time[b] : b \in {c \in Genesis .. mined :
                                        block[c].height % Period = 0}}]
NodesTime == adjustmentBlockTime = [n \in Node |-> adjustmentBlockTime[n]]

(* The time that a node remembers is one of a start. *)
LEMMA StartsOpenPeriods ==
    RetargetInv /\ NodesTime => adjustmentBlockTime \in Starts
<1> SUFFICES ASSUME RetargetInv, NodesTime
             PROVE  adjustmentBlockTime \in Starts
  OBVIOUS
<1>1. ASSUME NEW n \in Node
      PROVE  adjustmentBlockTime[n] \in
                 {time[b] : b \in {c \in Genesis .. mined :
                                     block[c].height % Period = 0}}
  <2>1. PICK b \in Known(n), h \in Nat :
           /\ block[b].height = h - (h % Period)
           /\ time[b] = adjustmentBlockTime[n]
    <3>1. mainBranch[n] \in 0 .. mined
      BY RetargetTree, InvariantOfTree DEF RetargetInv, IInv
    <3>2. block[mainBranch[n]].height \in Nat
      BY <3>1, RetargetTree
    <3> QED BY <3>2 DEF RetargetInv, AdjustmentTimeOpensPeriod
  <2>2. b \in 0 .. mined
    BY KnownBelowMainBranch DEF RetargetInv, IInv
  <2>3. block[b].height % Period = 0
    BY <2>1, LastMultiple, PeriodAssumption
  <2> QED BY <2>1, <2>2, <2>3 DEF Genesis
<1> DEFINE S == {time[b] : b \in {c \in Genesis .. mined :
                                    block[c].height % Period = 0}}
<1>2. \A n \in Node : adjustmentBlockTime[n] \in S
  BY <1>1
<1> HIDE DEF S
<1>3. [n \in Node |-> adjustmentBlockTime[n]] \in [Node -> S]
  BY <1>2
<1>4. adjustmentBlockTime \in [Node -> S]
  BY <1>3 DEF NodesTime
<1> QED BY <1>4 DEF S, Starts

(* Every target that a node may be about to compute is one that a compact  *)
(* hash can hold: the constructor throws for a larger one, and a smaller   *)
(* one has a negative exponent, which is converted to an unsigned number.  *)
(* TLC finds no exponent for others, so that the passing run of Retarget   *)
(* shows this of every target that it computes.                            *)
AdjustmentsInRange ==
    \A n \in Node :
        LET b == mainBranch[n]
        IN  ClosesPeriod(b) =>
                HasExponent(Scaled(nBits[b], time[b] - adjustmentBlockTime[n]))

(* The target that a node mines with is near that of its main branch. *)
LEMMA NextTargetNear ==
    ASSUME RangeInv, AdjustmentsInRange, NEW n \in Node
    PROVE  LET g == NextTargetNBits(n)
           IN  /\ g \in Compact /\ Value(g) \in Nat \ {0}
               /\ Near(nBits[mainBranch[n]], g)
<1> DEFINE p == mainBranch[n]
           actual == time[p] - adjustmentBlockTime[n]
<1>1. /\ p \in 0 .. mined /\ p \in Block /\ mined \in Nat
      /\ 0 .. mined \subseteq Block
  BY RetargetTree, InvariantOfTree DEF RangeInv, RetargetInv, IInv
<1>2. nBits[p] \in Compact /\ Value(nBits[p]) \in Nat \ {0}
  BY <1>1 DEF RangeInv, RetargetTypeOK, Genesis
<1>3. CASE ClosesPeriod(p)
  <2>1. time[p] \in Nat /\ adjustmentBlockTime[n] \in Nat
    BY <1>1 DEF RangeInv, RetargetTypeOK, Genesis
  <2>2. actual \in Int
    BY <2>1
  <2>3. HasExponent(Scaled(nBits[p], actual))
    BY <1>3 DEF AdjustmentsInRange
  <2>4. NextTargetNBits(n) = FromBigDouble(Scaled(nBits[p], actual))
    BY <1>3 DEF NextTargetNBits, AdjustedNBits
  <2> HIDE DEF actual, p
  <2> QED BY <1>2, <2>2, <2>3, <2>4, NearAdjusted DEF p
<1>4. CASE ~ClosesPeriod(p)
  <2>1. NextTargetNBits(n) = nBits[p]
    BY <1>4 DEF NextTargetNBits
  <2> QED BY <1>2, <2>1, NearItself
<1> QED BY <1>3, <1>4

(* Every step keeps targets near, if the adjusted ones have exponents. *)
LEMMA StepKeepsRangeInv ==
    RangeInv /\ AdjustmentsInRange /\ [RetargetNext]_retargetVars => RangeInv'
<1> SUFFICES ASSUME RangeInv, AdjustmentsInRange, [RetargetNext]_retargetVars
             PROVE  RangeInv'
  OBVIOUS
<1>1. RetargetInv /\ RetargetInv'
  BY StepKeepsRetargetInv DEF RangeInv
<1>2. /\ mined \in Nat /\ 0 .. mined \subseteq Block
      /\ TreeOK(block, mined)
  BY <1>1, RetargetTree
<1>3. (adjustmentBlockTime \in Starts)'
  <2>1. NodesTime
    BY DEF RangeInv, RetargetTypeOK, NodesTime
  <2>2. NodesTime'
    BY <2>1 DEF NodesTime, RetargetNext, RetargetMine, RetargetReceive,
                RetargetTimeLimit, Adjust, Set, retargetVars
  <2> QED BY <1>1, <2>2, StartsOpenPeriods, PTL
<1>4. ASSUME NEW n \in Miner, NEW gap \in Gap, RetargetMine(n, gap)
      PROVE  RangeInv'
  <2> PICK k : k = mined + 1
    OBVIOUS
  <2>1. n \in Node /\ Mine(n)
    BY <1>4, NodeAssumption DEF RetargetMine
  <2>2. /\ mined' = k /\ k \in Block
        /\ \A x \in 0 .. mined : block'[x] = block[x]
        /\ block'[k].prev = mainBranch[n]
    <3>1. IInv
      BY <1>1 DEF RetargetInv
    <3>2. /\ mined' = k /\ k \in Block
          /\ \A x \in 0 .. mined : block'[x] = block[x]
          /\ block'[k] = [prev |-> mainBranch[n],
                          height |-> block[mainBranch[n]].height + 1,
                          chain |-> block[mainBranch[n]].chain \cup {k}]
      BY <2>1, <3>1, MineFilesBlock DEF FiledMined, NewBlock
    <3> QED BY <3>2
  <2>3. mainBranch[n] \in 0 .. mined
    BY <1>1, <2>1, InvariantOfTree DEF RetargetInv, IInv
  <2>4. /\ DOMAIN nBits' = Block
        /\ nBits'[k] = NextTargetNBits(n)
        /\ \A x \in 0 .. mined : nBits'[x] = nBits[x]
    BY <1>2, <1>4, <2>2 DEF RetargetMine, RangeInv
  <2>5. time' \in [Block -> Nat]
    <3>1. time \in [Block -> Nat] /\ gap \in Nat /\ mined \in Block
      BY <1>2, PeriodAssumption DEF RangeInv, RetargetTypeOK
    <3> QED BY <1>4, <2>2, <3>1 DEF RetargetMine
  <2>6. /\ nBits'[k] \in Compact /\ Value(nBits'[k]) \in Nat \ {0}
        /\ Near(nBits[mainBranch[n]], nBits'[k])
    BY <2>1, <2>4, NextTargetNear
  <2>7. \A b \in 0 .. mined : /\ nBits'[b] \in Compact
                              /\ Value(nBits'[b]) \in Nat \ {0}
    BY <2>4 DEF RangeInv, RetargetTypeOK, Genesis
  <2>8. \A b \in 0 .. mined' : b \in 0 .. mined \/ b = k
    BY <1>2, <2>2
  <2>9. \A b \in 0 .. mined' : /\ nBits'[b] \in Compact
                               /\ Value(nBits'[b]) \in Nat \ {0}
    BY <2>6, <2>7, <2>8
  <2>10. TargetChangesByFourAtMost'
    <3>1. ASSUME NEW b \in 1 .. mined
          PROVE  Near(nBits'[block'[b].prev], nBits'[b])
      <4>1. b \in 0 .. mined /\ block[b].prev \in 0 .. mined
        BY <1>2 DEF TreeOK
      <4>2. Near(nBits[block[b].prev], nBits[b])
        BY DEF RangeInv, TargetChangesByFourAtMost, Near
      <4> QED BY <2>2, <2>4, <4>1, <4>2
    <3>2. Near(nBits'[block'[k].prev], nBits'[k])
      BY <2>2, <2>3, <2>4, <2>6
    <3>3. \A b \in 1 .. mined' : b \in 1 .. mined \/ b = k
      BY <1>2, <2>2
    <3> QED BY <3>1, <3>2, <3>3 DEF TargetChangesByFourAtMost, Near
  <2> QED
    BY <1>1, <1>3, <2>4, <2>5, <2>9, <2>10
       DEF RangeInv, RetargetTypeOK, Starts, Genesis
<1>5. CASE UNCHANGED <<mined, block, time, nBits>>
  BY <1>1, <1>3, <1>5
     DEF RangeInv, RetargetTypeOK, Starts, TargetChangesByFourAtMost
<1>6. ASSUME NEW n \in Node, NEW b \in Block, RetargetReceive(n, b)
      PROVE  UNCHANGED <<mined, block, time, nBits>>
  BY <1>6 DEF RetargetReceive, Receive
<1>7. UNCHANGED retargetVars => UNCHANGED <<mined, block, time, nBits>>
  BY DEF retargetVars, vars
<1> QED
  BY <1>4, <1>5, <1>6, <1>7
     DEF RetargetNext, RetargetTimeLimit, TimeLimit, retargetVars

(* As long as the adjusted targets have exponents (the constructor of the  *)
(* hash throws for others), every target can be compared and divided by,   *)
(* and every node takes the time of a block that opens a period for that   *)
(* of the start of its period.                                             *)
THEOREM RetargetTypes ==
    RetargetSpec /\ []AdjustmentsInRange => []RetargetTypeOK
<1>1. RangeInv => RetargetTypeOK
  BY DEF RangeInv
<1> QED
  BY <1>1, InitEstablishesRangeInv, StepKeepsRangeInv, PTL DEF RetargetSpec

(* The bounds of computeNewDifficulty() survive the loss of precision of   *)
(* compact targets, for every radix and every length of a period.          *)
THEOREM TargetChangesAreBounded ==
    RetargetSpec /\ []AdjustmentsInRange => []TargetChangesByFourAtMost
<1>1. RangeInv => TargetChangesByFourAtMost
  BY DEF RangeInv
<1> QED
  BY <1>1, InitEstablishesRangeInv, StepKeepsRangeInv, PTL DEF RetargetSpec
=============================================================================
