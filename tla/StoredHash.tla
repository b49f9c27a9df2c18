----------------------------- MODULE StoredHash -----------------------------
(***************************************************************************)
(* The two forms of a hash (common/Hash.cc): compact, or expanded to       *)
(* MaxExponent digits with the highest one first.  Every operation accepts *)
(* both, and converts as little as it can.  The radix must be a power of   *)
(* two here, since the operations work on bits.                            *)
(***************************************************************************)
EXTENDS Hash, Bits, Sequences, SequencesExt, FiniteSetsExt

(* The powers of two. *)
TwoTo[k \in Nat] == IF k = 0 THEN 1 ELSE 2 * TwoTo[k - 1]

ASSUME StoredHashAssumption ==
    /\ Root \in {TwoTo[k] : k \in 1 .. Root}
    /\ MaxExponent > 5

Places == 0 .. MaxExponent - 1
Small(c) == [compact |-> TRUE, nBits |-> c]
Large(digits) == [compact |-> FALSE, bytes |-> digits]
SmallZero == Small(Zero)

(* bytesCopy(), expand(): the mantissa from the place of the exponent on.  *)
(* What comes behind the point is lost.                                    *)
DigitOf(m, k) == (m \div RadixTo(2 - k)) % Radix
Expanded(c) ==
    [i \in Places |-> LET k == i - (MaxExponent - c.e)
                     IN  IF k \in 0 .. 2 THEN DigitOf(c.m, k) ELSE 0]
BytesCopy(h) == IF h.compact THEN Expanded(h.nBits) ELSE h.bytes

(* e(): of an expanded hash, from its first digit, or from the place above *)
(* when that digit would set the sign.  m(): three digits from there on.   *)
(* (With the sign in the highest place of all, both read before the array.)*)
E(h) ==
    IF h.compact THEN h.nBits.e
    ELSE LET digits == {i \in Places : h.bytes[i] # 0}
             top == IF digits = {} THEN MaxExponent ELSE Min(digits)
             signed == digits # {} /\ h.bytes[top] >= Radix \div 2
         IN  MaxExponent - (IF signed THEN top - 1 ELSE top)
At(digits, i) == IF i \in Places THEN digits[i] ELSE 0
M(h) ==
    IF h.compact THEN h.nBits.m
    ELSE LET first == MaxExponent - E(h)
         IN  (At(h.bytes, first) * Radix + At(h.bytes, first + 1)) * Radix
                 + At(h.bytes, first + 2)

(* compactNBits(), makeCompact() *)
MakeCompact(h) == Small([m |-> M(h), e |-> E(h)])

(* fromBytes(): fewer digits are the last ones.                            *)
FromBytes(digits) ==
    Large([i \in Places |-> LET k == i - (MaxExponent - Len(digits))
                           IN  IF k < 0 THEN 0 ELSE digits[k + 1]])

(* The characters of a text: its digits, the x of the prefix 0x, and one   *)
(* that stands for all others.                                             *)
PrefixX == Root
Character == 0 .. Root + 1
IsNibble(c) == c < Root
Unprefixed(text) ==
    IF Len(text) > 1 /\ text[1] = 0 /\ text[2] = PrefixX
    THEN SubSeq(text, 3, Len(text)) ELSE text

(* fromHex(): two characters a byte, as many bytes as a hash has; an odd   *)
(* character is the lower one of the first byte.  A higher character that  *)
(* is no digit throws.  A lower one is not noticed: hexNibble() returns -1,*)
(* and the byte, which is unsigned, becomes the highest one.               *)
Refused == [refused |-> TRUE]
Higher(nibbles, i) ==
    LET k == 2*i - 1 - (Len(nibbles) % 2) IN IF k = 0 THEN 0 ELSE nibbles[k]
Lower(nibbles, i) == nibbles[2*i - (Len(nibbles) % 2)]
HexByte(nibbles, i) ==
    IF IsNibble(Lower(nibbles, i))
    THEN Higher(nibbles, i) * Root + Lower(nibbles, i) ELSE Radix - 1
FromHex(text) ==
    LET nibbles == Unprefixed(text)
        half == (Len(nibbles) + 1) \div 2
        places == 1 .. (IF half > MaxExponent THEN MaxExponent ELSE half)
    IN  IF \E i \in places : ~IsNibble(Higher(nibbles, i)) THEN Refused
        ELSE FromBytes([i \in places |-> HexByte(nibbles, i)])

(* compare(): exponents decide when they are far apart, mantissas when the *)
(* exponents are equal, digits otherwise.  (Fault: exponents decide when   *)
(* they differ.)                                                           *)
FirstDifference(x, y) ==
    LET places == {i \in Places : x[i] # y[i]}
    IN  IF places = {} THEN 0 ELSE x[Min(places)] - y[Min(places)]
CompareExponents(a, b) ==
    IF E(a) # E(b) THEN E(a) - E(b)
    ELSE FirstDifference(BytesCopy(a), BytesCopy(b))
Compare(a, b) ==
    CASE E(a) > E(b) + 2 -> E(a) - E(b) - 2
      [] E(a) < E(b) - 2 -> E(a) - E(b) + 2
      [] OTHER ->
           IF M(a) = 0 /\ M(b) = 0 THEN 0
           ELSE IF E(a) = E(b) /\ (M(a) # M(b) \/ (a.compact /\ b.compact))
           THEN M(a) - M(b)
           ELSE FirstDifference(BytesCopy(a), BytesCopy(b))

(* operator&=: of two compact hashes, the other's mantissa is moved to the *)
(* exponent of this one.                                                   *)
Moved(m, by) == IF by >= 0 THEN m * RadixTo(by) ELSE m \div RadixTo(-by)
AndHash(a, b) ==
    CASE a = SmallZero -> a
      [] a # SmallZero /\ b = SmallZero -> SmallZero
      [] a # SmallZero /\ b # SmallZero ->
           LET by == E(b) - E(a)
           IN  IF ~(a.compact /\ b.compact)
               THEN Large([i \in Places |-> And(BytesCopy(a)[i], BytesCopy(b)[i])])
               ELSE IF by \in -2 .. 2
               THEN Small([m |-> And(M(a), Moved(M(b), by)), e |-> E(a)])
               ELSE SmallZero

(* operator|=, operator^=, which stay compact when the exponents agree. *)
Merged(a, b, Bits(_, _)) ==
    IF b = SmallZero THEN a
    ELSE IF a.compact /\ b.compact /\ E(a) = E(b)
    THEN Small([m |-> Bits(M(a), M(b)), e |-> E(a)])
    ELSE Large([i \in Places |-> Bits(BytesCopy(a)[i], BytesCopy(b)[i])])
OrHash(a, b) == Merged(a, b, Or)
XorHash(a, b) == Merged(a, b, Xor)

(* operator~ *)
Complement(a) == Large([i \in Places |-> Radix - 1 - BytesCopy(a)[i]])

-----------------------------------------------------------------------------
(* A hash as a number, and the hashes to try: those of the constructors    *)
(* whose digits are all in front of the point, in either form, and with    *)
(* the sign in the highest digit unless that is in the highest place.      *)
Horner(digits, base) == FoldLeft(LAMBDA n, d : n * base + d, 0, digits)
Number(h) == Horner([i \in 1 .. MaxExponent |-> BytesCopy(h)[i - 1]], Radix)

TriedMantissas ==
    LET square == Radix * Radix
    IN  {1, Radix - 1, Radix, Radix + 1, square, square + 1, square + Radix,
         2 * square - 1}
TriedCompact ==
    {Zero} \cup {c \in [m : TriedMantissas, e : 1 .. MaxExponent] :
                   c.e < 3 => c.m % RadixTo(3 - c.e) = 0}
TriedDigits == [1 .. 3 -> {0, 1, Radix \div 2, Radix - 1}]
Tried ==
    {Small(c) : c \in TriedCompact} \cup
    {Large(Expanded(c)) : c \in TriedCompact} \cup
    {FromBytes(d) : d \in TriedDigits} \cup
    {FromBytes(d \o <<0, 1>>) : d \in TriedDigits}

Sign(n) == IF n > 0 THEN 1 ELSE IF n < 0 THEN -1 ELSE 0

(* Comparing two hashes agrees with comparing the numbers, and the bitwise *)
(* operations work digit by digit.                                         *)
CompareAsNumbers(a, b) ==
    Sign(Compare(a, b)) = Sign(Number(a) - Number(b))
CombineAsDigits(a, b) ==
    \A i \in Places :
        LET x == BytesCopy(a)[i]
            y == BytesCopy(b)[i]
        IN  /\ BytesCopy(AndHash(a, b))[i] = And(x, y)
            /\ BytesCopy(OrHash(a, b))[i] = Or(x, y)
            /\ BytesCopy(XorHash(a, b))[i] = Xor(x, y)

(* A compact form keeps what a mantissa can hold, a complement is the      *)
(* distance to the highest hash, and hexadecimal text is read as the       *)
(* number it says, with or without a prefix, if a hash can hold it.        *)
CompactKeepsMantissa(a) ==
    LET lost == Number(a) - Number(MakeCompact(a))
        fraction == IF E(a) > 3 THEN RadixTo(E(a) - 3) ELSE 1
    IN  0 <= lost /\ lost < fraction
ComplementIsRest(a) ==
    Number(Complement(a)) = RadixTo(MaxExponent) - 1 - Number(a)
IsHex(nibbles) == \A i \in DOMAIN nibbles : IsNibble(nibbles[i])
TextIsNumber(text) ==
    LET nibbles == Unprefixed(text)
    IN  IsHex(nibbles) /\ Len(nibbles) <= 2 * MaxExponent =>
            Number(FromHex(text)) = Horner(nibbles, Root)
=============================================================================
