------------------------------- MODULE Amount -------------------------------
(***************************************************************************)
(* Amounts of bitcoins (common/BTCValue.h): unsigned integers of satoshis. *)
(* Whatever an amount is combined with becomes an amount first, a fraction *)
(* too.  A fraction is a pair <<numerator, denominator>>.                  *)
(***************************************************************************)
EXTENDS Integers, Bits

CONSTANT Word   \* 2^64: amounts are unsigned long long

ASSUME WordAssumption == Word \in Nat \ {0, 1}

Amounts == 0 .. Word - 1

(* BTCValue(integer) casts; BTCValue(double) cuts the fraction off.  (A    *)
(* negative fraction throws.)                                              *)
OfInteger(v) == v % Word
OfFraction(x) == (x[1] \div x[2]) % Word

(* Two amounts, in arithmetic or comparison. *)
Combine(a, op, b) ==
    CASE op = "+" -> (a + b) % Word
      [] op = "-" -> (a - b) % Word
      [] op = "*" -> (a * b) % Word
      [] op = "/" -> a \div b
      [] op = "%" -> a % b
      [] op = "&" -> And(a, b)
      [] op = "|" -> Or(a, b)
      [] op = "^" -> Xor(a, b)
      [] op = "<<" -> (a * 2^b) % Word
      [] op = ">>" -> a \div 2^b
      [] op = "<" -> a < b
      [] op = "<=" -> a <= b
      [] op = ">" -> a > b
      [] op = ">=" -> a >= b
      [] op = "==" -> a = b
      [] op = "!=" -> a # b

(* An amount and a number of any other type: integers, and fractions. *)
WithInteger(a, op, v) == Combine(a, op, OfInteger(v))
WithFraction(a, op, x) == Combine(a, op, OfFraction(x))

(* unitMult(): base^power satoshis.  The tonal units count in sixteens.    *)
Unit ==
    [mSAT |-> <<10, -3>>, SAT |-> <<10, 0>>, FIN |-> <<10, 1>>,
     uBTC |-> <<10, 2>>, mBTC |-> <<10, 5>>, cBTC |-> <<10, 6>>,
     dBTC |-> <<10, 7>>, BTC |-> <<10, 8>>, daBTC |-> <<10, 9>>,
     hBTC |-> <<10, 10>>, kBTC |-> <<10, 11>>, MBTC |-> <<10, 14>>,
     TBCb |-> <<16, 0>>, TBCm |-> <<16, 1>>, TBCs |-> <<16, 2>>,
     TBCt |-> <<16, 3>>, TBC |-> <<16, 4>>, tTBC |-> <<16, 5>>,
     sTBC |-> <<16, 6>>, mTBC |-> <<16, 7>>, bTBC |-> <<16, 8>>,
     TAM |-> <<16, 12>>]

(* convert() to satoshis, as a fraction (in exact arithmetic). *)
Converted(v, unit) ==
    LET u == Unit[unit]
    IN  IF u[2] < 0 THEN <<v, u[1]^(-u[2])>> ELSE <<v * u[1]^u[2], 1>>

(* BTCValue(value, unit), BTCValue(string), BTCValue(cValue), of a number  *)
(* that is not negative.  (For others they throw.)                         *)
OfUnit(v, unit) == OfFraction(Converted(v, unit))

(* BTCValue(cPar), BTCValue(cProperty), of a number that is not negative.  *)
(* (For others, and for other types, they throw.)  When the unit is the    *)
(* satoshi, the amount is initialised with the member itself, whatever     *)
(* that holds.                                                             *)
OfPar(v, unit, member) ==
    IF unit \in {"SAT", "TBCb"} THEN member ELSE OfUnit(v, unit)
=============================================================================
