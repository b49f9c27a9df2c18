------------------------------ MODULE HashRate ------------------------------
(***************************************************************************)
(* Hash rates (common/HashRate.h, HashRate.cc): a number and its unit.     *)
(* Two rates of different units are brought to the lower one.              *)
(***************************************************************************)
EXTENDS Naturals, Sequences, SequencesExt

(* The powers of ten. *)
TenTo[k \in Nat] == IF k = 0 THEN 1 ELSE 10 * TenTo[k - 1]

(* The units from the lowest one up (unitIndex()), and the powers of ten   *)
(* that they count in (unitMultHr()).                                      *)
RateUnits == <<"Hps", "daHps", "hHps", "kHps", "MHps", "GHps", "THps",
               "PHps", "EHps", "ZHps", "YHps">>
RateUnit == ToSet(RateUnits)
UnitIndex(u) == CHOOSE i \in DOMAIN RateUnits : RateUnits[i] = u
Power(u) == <<0, 1, 2, 3, 6, 9, 12, 15, 18, 21, 24>>[UnitIndex(u)]

Rate(value, unit) == [value |-> value, unit |-> unit]

(* HashRate(cPar), HashRate(cProperty): a number without a unit counts in  *)
(* the default one; "" is no unit.  HashRate(string): in H/s.              *)
RateOfPar(value, unit, default) ==
    Rate(value, IF unit = "" THEN default ELSE unit)

(* converthr().  To a higher unit the digits below it are cut off here.    *)
InUnit(r, unit) == (r.value * TenTo[Power(r.unit)]) \div TenTo[Power(unit)]

(* The unit in which two rates meet.  (Fault: the first one's.) *)
OwnUnit(a, b) == a.unit
CommonUnit(a, b) ==
    IF UnitIndex(a.unit) > UnitIndex(b.unit) THEN b.unit ELSE a.unit

(* operator+, operator==, operator<, ... *)
RateSum(a, b) ==
    LET u == CommonUnit(a, b) IN Rate(InUnit(a, u) + InUnit(b, u), u)
SameRate(a, b) ==
    LET u == CommonUnit(a, b) IN InUnit(a, u) = InUnit(b, u)
LowerRate(a, b) ==
    LET u == CommonUnit(a, b) IN InUnit(a, u) < InUnit(b, u)

(* hps(): the number alone, whatever its unit. *)
Hps(r) == r.value

(* computeInitialNBits(): the rate of the network, from 0 H/s up. *)
NetworkRate(miners) == FoldLeft(RateSum, Rate(0, "Hps"), miners)

-----------------------------------------------------------------------------
(* The rates to try: small numbers of the lower units, or of kH/s where no *)
(* unit is given.                                                          *)
TriedUnits == {""} \cup {u \in RateUnit : Power(u) <= 3}
TriedRates ==
    {RateOfPar(v, u, "kHps") : v \in {0, 1, 12}, u \in TriedUnits}

(* The sum over the miners has the number of H/s, though hps() does not    *)
(* convert; two rates compare and add up like the numbers of H/s.          *)
NetworkRateIsInHps(miners) ==
    Hps(NetworkRate(miners)) =
        FoldLeft(LAMBDA sum, r : sum + InUnit(r, "Hps"), 0, miners)
AgreesInHps(a, b) ==
    LET x == InUnit(a, "Hps")
        y == InUnit(b, "Hps")
    IN  /\ SameRate(a, b) <=> (x = y)
        /\ LowerRate(a, b) <=> (x < y)
        /\ InUnit(RateSum(a, b), "Hps") = x + y
=============================================================================
