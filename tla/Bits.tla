-------------------------------- MODULE Bits --------------------------------
(***************************************************************************)
(* The bitwise operators of C on unsigned integers.                        *)
(***************************************************************************)
EXTENDS Integers

(* What an operator does to two bits, as a table. *)
Bit == {0, 1}
Both == [p \in Bit \X Bit |-> p[1] * p[2]]
Either == [p \in Bit \X Bit |-> p[1] + p[2] - p[1] * p[2]]
Differ == [p \in Bit \X Bit |-> (p[1] + p[2]) % 2]

(* The numbers of a pair without their last bits, and those bits. *)
Halves(p) == <<p[1] \div 2, p[2] \div 2>>
LastBits(p) == <<p[1] % 2, p[2] % 2>>

(* A table, bit by bit. *)
OnBits(table, a, b) ==
    LET on[p \in Nat \X Nat] ==
          IF p = <<0, 0>> THEN 0 ELSE 2 * on[Halves(p)] + table[LastBits(p)]
    IN  on[<<a, b>>]

And(a, b) == OnBits(Both, a, b)
Or(a, b) == OnBits(Either, a, b)
Xor(a, b) == OnBits(Differ, a, b)
=============================================================================
