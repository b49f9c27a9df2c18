----------------------------- MODULE MCObjects -----------------------------
(***************************************************************************)
(* Instances of Transaction, Block, Payment and PeerTable for TLC, and of  *)
(* the operations on hashes and hash rates.  The objects share no state,   *)
(* so a behaviour makes the calls of one of them, its subject: the states  *)
(* add up instead of multiplying.  When the subject is a pure operation,   *)
(* the behaviour is a single state, with the input to try.                 *)
(***************************************************************************)
EXTENDS Block, Payment, PeerTable, StoredHash, HashRate

VARIABLES subject, input

inputVars == <<subject, input>>
objectVars == <<inputVars, tx, blockVars, pay, peerVars>>

Objects == {"transaction", "block", "payment", "peers"}
MaxMiners == 3
MaxCharacters == 4

ObjectsInit ==
    /\ \/ subject \in Objects /\ input = <<>>
       \/ subject = "hashes" /\ input \in Tried \X Tried
       \/ subject = "text"
          /\ input \in UNION {[1 .. n -> Character] : n \in 0 .. MaxCharacters}
       \/ subject = "rates"
          /\ input \in UNION {[1 .. n -> TriedRates] : n \in 0 .. MaxMiners}
    /\ TxInit /\ BlockInit /\ PayInit /\ PeerInit

ObjectsNext ==
    /\ UNCHANGED inputVars
    /\ \/ /\ subject = "transaction" /\ TxNext
          /\ UNCHANGED <<blockVars, pay, peerVars>>
       \/ /\ subject = "block" /\ BlockNext
          /\ UNCHANGED <<tx, pay, peerVars>>
       \/ /\ subject = "payment" /\ PayNext
          /\ UNCHANGED <<tx, blockVars, peerVars>>
       \/ /\ subject = "peers" /\ PeerNext
          /\ UNCHANGED <<tx, blockVars, pay>>

(* A call goes on until it returns. *)
Looping == Turn /\ UNCHANGED <<inputVars, tx, blockVars, peerVars>>

ObjectsSpec == ObjectsInit /\ [][ObjectsNext]_objectVars /\ WF_objectVars(Looping)

(* The lengths of transactions and blocks, and the caches of transactions, *)
(* follow from what they hold.                                             *)
DerivedFieldsFollow == TransactionFollows /\ BlockFollows

(* Whatever forms two hashes have, comparing them agrees with comparing    *)
(* the numbers, the bitwise operations work digit by digit, a compact form *)
(* keeps what a mantissa can hold, and a hash read from a string is the    *)
(* number that the string says (common/Hash.cc).                           *)
HashIsANumber ==
    CASE subject = "hashes" ->
           LET a == input[1]
               b == input[2]
           IN  /\ CompareAsNumbers(a, b) /\ CombineAsDigits(a, b)
               /\ CompactKeepsMantissa(a) /\ ComplementIsRest(a)
      [] subject = "text" -> TextIsNumber(input)
      [] OTHER -> TRUE

(* The target that the network starts with is computed from the number     *)
(* hps() of its rate (GBM.cc).  It is the true rate in H/s, whatever the   *)
(* units of the miners and their order; and rates of different units       *)
(* compare and add up like the numbers of H/s.                             *)
RatesAddUp ==
    subject = "rates" =>
        /\ NetworkRateIsInHps(input)
        /\ Len(input) = 2 => AgreesInHps(input[1], input[2])
=============================================================================
