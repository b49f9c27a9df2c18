------------------------------ MODULE Payment ------------------------------
(***************************************************************************)
(* One call of TransactionGenerator::createTransaction(), in steps.  It    *)
(* collects outputs of the wallet until they cover the amount, splits the  *)
(* amount among the recipients, and then takes turns: it adds change when  *)
(* the fee leaves some, and another output when the fee is not covered.    *)
(***************************************************************************)
EXTENDS Transaction

CONSTANTS
    Coins,      \* the possible values of the wallet's outputs
    MaxCoins,   \* bound: how many outputs the wallet has
    Units,      \* the possible units of the amount
    Quantities, \* and how many of them
    Share,      \* the values that outputSplitDistrib may draw
    MaxDest,    \* bound: the recipients
    FeeRates    \* the possible ranges of feeRate; a singleton if constant

ASSUME PaymentAssumption ==
    /\ Coins \subseteq Amounts \ {0} /\ MaxCoins \in Nat /\ MaxDest \in Nat
    /\ Units \subseteq DOMAIN Unit /\ Quantities \subseteq Nat
    /\ Share \subseteq Nat \ {0} /\ FeeRates \subseteq SUBSET Nat

(* The bytes of the longest payment.  No wallet's outputs and no fee reach *)
(* 2^64 satoshis.                                                          *)
MostBytes == 8 + 2 * 9 + Bytes.txIn * MaxCoins + Bytes.txOut * (MaxDest + 1)

ASSUME NoOverflowAssumption ==
    /\ \A coin \in Coins : coin * MaxCoins < Word
    /\ \A rates \in FeeRates : \A rate \in rates : rate * MostBytes < Word

VARIABLE pay    \* the call's variables: state, coins (what allUtxos has
                \* left), amount, splits, found, used, change (its slot or
                \* 0), tx, rates, and rate (the last one drawn)

(* The percentage of a recipient. *)
Split(shares, i) ==
    <<shares[i], FoldLeft(LAMBDA sum, s : sum + s, 0, shares)>>

(* transactionValue * splits[i] *)
Part(amount, split) == WithFraction(amount, "*", split)

Reached(coins, amount) ==
    {k \in 0 .. Len(coins) : ValueOf(SubSeq(coins, 1, k)) >= amount}
First(S) == CHOOSE k \in S : \A j \in S : k <= j

(* An array of inputs or outputs with these values, one after the other. *)
WithAll(t, side, values) ==
    FoldLeftDomain(LAMBDA u, i : Placed(u, side, i, values[i]),
                   Resized(t, side, Len(values)), values)

-----------------------------------------------------------------------------
NoCall == [state |-> "idle"]

PayInit == pay = NoCall

Start(amount, coins, shares, rates) ==
    LET k == First(Reached(coins, amount))
        splits == [i \in DOMAIN shares |-> Split(shares, i)]
        parts == [i \in DOMAIN shares |-> Part(amount, splits[i])]
    IN  /\ pay.state = "idle"
        /\ ValueOf(coins) > amount
        /\ pay' = [state |-> "turn",
                   all |-> coins,
                   coins |-> SubSeq(coins, k + 1, Len(coins)),
                   amount |-> amount,
                   splits |-> splits,
                   found |-> ValueOf(SubSeq(coins, 1, k)),
                   used |-> ValueOf(parts),
                   change |-> 0,
                   tx |-> WithAll(WithAll(NewTransaction, "txIn",
                                          SubSeq(coins, 1, k)), "txOut", parts),
                   rates |-> rates,
                   rate |-> 0]

(* remainingValue, a signed integer, and the fee at a rate *)
Remaining == pay.found - pay.used
FeeAt(rate) == OfFraction(<<rate * pay.tx.bytes, 1>>)

(* A turn of the loop, with the fee rate that it draws. *)
AddChange(rate) ==
    /\ WithInteger(FeeAt(rate), "<", Remaining) /\ pay.change = 0
    /\ pay' = [pay EXCEPT
                 !.change = Len(pay.tx.txOut) + 1,
                 !.tx = Inserted(@, "txOut", Len(@.txOut) + 1,
                                 OfInteger(Remaining - FeeAt(rate))),
                 !.rate = rate]

(* (Fault: the change keeps the value of the turn that added it.)          *)
PushStale(rate) ==
    /\ WithInteger(FeeAt(rate), "<", Remaining) /\ pay.change > 0
    /\ pay' = [pay EXCEPT !.state = "pushed", !.tx = Cached(@), !.rate = rate]
Push(rate) ==
    /\ WithInteger(FeeAt(rate), "<", Remaining) /\ pay.change > 0
    /\ pay' = [pay EXCEPT
                 !.state = "pushed",
                 !.tx = Cached([@ EXCEPT !.txOut[pay.change] =
                                   OfInteger(Remaining - FeeAt(rate))]),
                 !.rate = rate]

AddInput(rate) ==
    /\ WithInteger(FeeAt(rate), ">", Remaining) /\ pay.coins # <<>>
    /\ pay' = [pay EXCEPT
                 !.coins = Tail(@),
                 !.found = Combine(@, "+", Head(pay.coins)),
                 !.tx = Inserted(@, "txIn", Len(@.txIn) + 1, Head(pay.coins)),
                 !.rate = rate]

(* (Fault: the loop goes on when the outputs are used up.) *)
NeverGiveUp(rate) == FALSE /\ pay' = pay
GiveUp(rate) ==
    /\ WithInteger(FeeAt(rate), ">", Remaining) /\ pay.coins = <<>>
    /\ pay' = [pay EXCEPT !.state = "given up", !.rate = rate]

Turn ==
    /\ pay.state = "turn"
    /\ \E rate \in pay.rates :
          AddChange(rate) \/ Push(rate) \/ AddInput(rate) \/ GiveUp(rate)

CoinLists == UNION {[1 .. n -> Coins] : n \in 1 .. MaxCoins}
ShareLists == UNION {[1 .. n -> Share] : n \in 0 .. MaxDest}

PayNext ==
    \/ \E q \in Quantities, unit \in Units, coins \in CoinLists,
          shares \in ShareLists, rates \in FeeRates :
          Start(OfPar(q, unit, 0), coins, shares, rates)
    \/ Turn

-----------------------------------------------------------------------------
(* A payment that reaches the mempool spends a beginning of the wallet's   *)
(* outputs and nothing else, its outputs and its fee add up to them without*)
(* wrapping around, the fee is the last rate drawn times the bytes it ends *)
(* up with, and the cache that mempools and miners order by says so,       *)
(* however often change and inputs were added and the rate redrawn.        *)
PaymentBalances ==
    pay.state = "pushed" =>
        /\ pay.tx.txIn = SubSeq(pay.all, 1, Len(pay.tx.txIn))
        /\ ValueOf(pay.tx.txOut) + pay.tx.cache.fee = ValueOf(pay.tx.txIn)
        /\ pay.tx.cache.fee = pay.rate * TrueBytes(pay.tx)
        /\ pay.tx.cache = Cached([pay.tx EXCEPT !.cache = <<>>]).cache

(* The call returns, unless the fee is just what remains and the rate is   *)
(* constant: then neither branch of the loop is taken, and it spins.       *)
Spins == pay.state = "turn" /\ \A rate \in pay.rates : FeeAt(rate) = Remaining

PaymentEnds ==
    (pay.state = "turn") ~> (pay.state \in {"pushed", "given up"} \/ Spins)
=============================================================================
