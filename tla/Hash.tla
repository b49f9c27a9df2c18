-------------------------------- MODULE Hash --------------------------------
(***************************************************************************)
(* Compact targets (common/Hash.cc): a mantissa m of three digits and an   *)
(* exponent e stand for m * RadixTo(e - 3).  A digit is a byte in the code. *)
(* Here the radix is a parameter, the square of Root, so that TLC may use  *)
(* a small one; the conversions depend on nothing else.                    *)
(***************************************************************************)
EXTENDS Integers

CONSTANTS
    Root,           \* 16 in the code
    MaxExponent     \* 32 in the code

ASSUME HashAssumption ==
    /\ Root \in Nat \ {0, 1} /\ Root % 2 = 0
    /\ MaxExponent \in Nat \ (0 .. 2)

(* The powers of the root. *)
RootTo[k \in Nat] == IF k = 0 THEN 1 ELSE Root * RootTo[k - 1]

Radix == Root * Root
RadixTo(k) == RootTo[2 * k]

(* The mantissas, and those whose sign bit is set. *)
Mantissa == 0 .. RadixTo(3) - 1
Negative(m) == m >= RadixTo(3) \div 2

(* The compact hashes that the constructors leave. *)
Zero == [m |-> 0, e |-> 0]
Compact == {Zero} \cup {h \in [m : Mantissa, e : 1 .. MaxExponent] :
                           h.m > 0 /\ ~Negative(h.m)}

(* Hash(mantissa, exponent): the sign bit is cleared by a shift, and a     *)
(* value whose digits are all behind the point is zero.  (An exponent      *)
(* above MaxExponent throws; adjusted targets stay far below it.)          *)
Normal(m, e) ==
    IF e = 0 \/ m = 0 \/ (e = 1 /\ m < RadixTo(2)) \/ (e = 2 /\ m < Radix)
    THEN Zero ELSE [m |-> m, e |-> e]
HashOf(m, e) ==
    IF Negative(m) THEN Normal(m \div Radix, e + 1) ELSE Normal(m, e)

(* The number that a compact hash stands for (its bytes). *)
Value(h) == IF h.e >= 3 THEN h.m * RadixTo(h.e - 3)
                        ELSE h.m \div RadixTo(3 - h.e)

(* fromBigDouble(): the exponent is the one rounded to from the logarithm, *)
(* so that the mantissa has one and a half to two and a half digits; the   *)
(* rest is cut off.  Other values have no exponent.                        *)
HasExponent(v) == RootTo[3] <= v /\ v < RootTo[2 * MaxExponent - 1]
Exponent(v) ==
    CHOOSE k \in 0 .. MaxExponent - 3 :
        RootTo[2 * k + 3] <= v /\ v < RootTo[2 * k + 5]

FromBigDouble(v) == HashOf(v \div RadixTo(Exponent(v)), Exponent(v) + 3)
=============================================================================
