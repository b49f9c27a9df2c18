---------------------------- MODULE Transaction ----------------------------
(***************************************************************************)
(* Transactions (objects/Transaction.cc): two arrays, of inputs and of     *)
(* outputs, whose slots may be empty, and what every call keeps beside     *)
(* them: a length in bytes, and a cache of the values, the fee and the fee *)
(* rate.  Here a slot is Empty or holds the value of its input or output.  *)
(***************************************************************************)
EXTENDS Amount, Sequences, SequencesExt, FiniteSetsExt, Functions

CONSTANTS
    CompactLimit,   \* the counts from which an array's size takes more
                    \* bytes: {253, 2^16, 2^32}
    SlotValue,      \* the values of inputs and outputs
    MaxSlots        \* bound: the slots of an array

ASSUME TransactionAssumption ==
    /\ CompactLimit \subseteq Nat \ {0, 1}
    /\ IsFiniteSet(CompactLimit) /\ Cardinality(CompactLimit) <= 3
    /\ SlotValue \subseteq Amounts
    /\ MaxSlots \in Nat \ {0}

VARIABLE tx     \* a transaction

Empty == -1
Side == {"txIn", "txOut"}

(* COMPACT_SIZE() *)
CompactSize(n) ==
    <<1, 3, 5, 9>>[Cardinality({l \in CompactLimit : l <= n}) + 1]

(* The bytes of an input or an output: an outpoint, a script and a         *)
(* sequence number; a value and a script.                                  *)
Bytes == [txIn |-> 36 + 1 + 108 + 4, txOut |-> 8 + 1 + 25]

NewTransaction ==
    [txIn |-> <<>>, txOut |-> <<>>, bytes |-> 4 + 1 + 0 + 1 + 0 + 4,
     cache |-> <<>>]

Weight(side, slots) ==
    Bytes[side] * Cardinality({i \in DOMAIN slots : slots[i] # Empty})

ValueOf(slots) == FoldLeft(LAMBDA sum, v : Combine(sum, "+", v), 0, slots)

(* getFee(), unless it is in the cache. *)
Fee(t) == Combine(ValueOf(t.txIn), "-", ValueOf(t.txOut))

(* An array with n slots: the first ones stay, new ones are empty. *)
Resize(slots, n, empty) ==
    SubSeq(slots, 1, Min({n, Len(slots)})) \o [i \in 1 .. n - Len(slots) |-> empty]

-----------------------------------------------------------------------------
(* A call that changes one array: the length follows it by differences,    *)
(* and the cache is dropped.                                               *)
Changed(t, side, slots, bytes) ==
    [t EXCEPT ![side] = slots, !.bytes = @ + bytes, !.cache = <<>>]

(* setTxInArraySize(), setTxOutArraySize().  (To shrink an array to        *)
(* nothing would never end: the index that counts down is unsigned.)       *)
Resized(t, side, n) ==
    LET old == t[side]
    IN  Changed(t, side, Resize(old, n, Empty),
                CompactSize(n) - CompactSize(Len(old))
                  - Weight(side, SubSeq(old, n + 1, Len(old))))

(* setTxOut() replaces what the slot holds.  setTxIn() throws when there   *)
(* is something.                                                           *)
Placed(t, side, k, v) ==
    Changed(t, side, [t[side] EXCEPT ![k] = v],
            Bytes[side] - Weight(side, <<t[side][k]>>))

(* removeTxIn() *)
Vacated(t, k) ==
    IF t.txIn[k] = Empty THEN t
    ELSE Changed(t, "txIn", [t.txIn EXCEPT ![k] = Empty], -Bytes.txIn)

(* insertTxIn(), insertTxOut(), and the calls that append.  (Fault: the    *)
(* array's size always takes one byte.)                                    *)
InsertedShort(t, side, k, v) ==
    Changed(t, side, InsertAt(t[side], k, v), Bytes[side])
Inserted(t, side, k, v) ==
    LET n == Len(t[side])
    IN  Changed(t, side, InsertAt(t[side], k, v),
                CompactSize(n + 1) - CompactSize(n) + Bytes[side])

(* eraseTxIn(), eraseTxOut() *)
Erased(t, side, k) ==
    LET n == Len(t[side])
    IN  Changed(t, side, RemoveAt(t[side], k),
                CompactSize(n - 1) - CompactSize(n)
                  - Weight(side, <<t[side][k]>>))

(* buildCache(): the fee rate is the fee over the bytes.  (Every slot must *)
(* hold something: an empty one is dereferenced.)                          *)
Cached(t) ==
    IF t.cache # <<>> THEN t
    ELSE [t EXCEPT !.cache = [inputs |-> ValueOf(t.txIn),
                              outputs |-> ValueOf(t.txOut),
                              fee |-> Fee(t),
                              rate |-> <<Fee(t), t.bytes>>]]

-----------------------------------------------------------------------------
TxInit == tx = NewTransaction

SetSize(side, n) ==
    /\ Len(tx[side]) = 0 \/ n > 0
    /\ tx' = Resized(tx, side, n)

Place(side, k, v) ==
    /\ side = "txIn" => tx[side][k] = Empty
    /\ tx' = Placed(tx, side, k, v)

Insert(side, k, v) ==
    /\ Len(tx[side]) < MaxSlots
    /\ tx' = Inserted(tx, side, k, v)

BuildCache ==
    /\ Empty \notin Range(tx.txIn) \cup Range(tx.txOut)
    /\ tx' = Cached(tx)

TxNext ==
    \/ \E side \in Side, n \in 0 .. MaxSlots : SetSize(side, n)
    \/ \E side \in Side, v \in SlotValue :
          \/ \E k \in DOMAIN tx[side] : Place(side, k, v)
          \/ \E k \in 1 .. Len(tx[side]) + 1 : Insert(side, k, v)
    \/ \E side \in Side : \E k \in DOMAIN tx[side] :
          tx' = Erased(tx, side, k)
    \/ \E k \in DOMAIN tx.txIn : tx' = Vacated(tx, k)
    \/ BuildCache

-----------------------------------------------------------------------------
(* The length of what the transaction holds, added up afresh. *)
TrueBytes(t) ==
    4 + CompactSize(Len(t.txIn)) + Weight("txIn", t.txIn)
      + CompactSize(Len(t.txOut)) + Weight("txOut", t.txOut) + 4

(* After any calls, a transaction's length is that of its contents, and a  *)
(* cache that is there is the one that would be built now: mempools order  *)
(* by it, and blocks are filled by the length.                             *)
TransactionFollows ==
    /\ tx.bytes = TrueBytes(tx)
    /\ tx.cache # <<>> => tx = Cached([tx EXCEPT !.cache = <<>>])
=============================================================================
