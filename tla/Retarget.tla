------------------------------ MODULE Retarget ------------------------------
(***************************************************************************)
(* The difficulty of mining (BlockchainManager.cc, Miner.cc and GBM.cc):   *)
(* every block carries the target of its miner.  The last block of a       *)
(* period changes it: the target is scaled by the time since the first one *)
(* of the period, which each manager remembers as adjustmentBlockTime.     *)
(*                                                                         *)
(* Targets are computed in exact arithmetic; the code uses doubles, which  *)
(* hold more digits than a compact target keeps.                           *)
(***************************************************************************)
EXTENDS BlockchainManager, Hash

CONSTANTS
    Period,         \* the blocks between two adjustments (2016)
    Expected,       \* how long they should take (2016 times ten minutes)
    Gap,            \* the possible times between two blocks of the network
    InitialTarget   \* the target of computeInitialNBits()

ASSUME PeriodAssumption ==
    /\ Period \in Nat \ {0, 1}
    /\ Expected \in Nat \ {0}
    /\ Gap \subseteq Nat \ {0}
    /\ InitialTarget \in Nat /\ HasExponent(InitialTarget)

VARIABLES
    time,                 \* per block: when it was mined
    nBits,                \* per block: its target
    adjustmentBlockTime   \* per node: the time of the block that began the
                          \* period

retargetVars == <<vars, time, nBits, adjustmentBlockTime>>

-----------------------------------------------------------------------------
(* The target that follows a period with this target, if it took so long:  *)
(* computeNewDifficulty() bounds the change.  (Fault: it does not.)        *)
ScaledFreely(target, actual) == (Value(target) * actual) \div Expected
Scaled(target, actual) ==
    IF 4 * actual < Expected THEN Value(target) \div 4
    ELSE IF actual > 4 * Expected THEN 4 * Value(target)
    ELSE (Value(target) * actual) \div Expected

(* The next block on top of b opens a period.  (Fault: b does.) *)
OpensPeriod(b) == block[b].height % Period = 0
ClosesPeriod(b) == block[b].height % Period = Period - 1

(* getNextTargetNBits(): the target is adjusted when a period ends.        *)
AdjustedNBits(n) ==
    LET b == mainBranch[n]
    IN  FromBigDouble(Scaled(nBits[b], time[b] - adjustmentBlockTime[n]))
NextTargetNBits(n) ==
    IF ClosesPeriod(mainBranch[n]) THEN AdjustedNBits(n)
    ELSE nBits[mainBranch[n]]

(* The blocks that appendBlock() made the main branch of n, one after      *)
(* another, to arrive at its new main branch.                              *)
Followed(n) ==
    {b \in block'[mainBranch'[n]].chain :
        block'[b].height > block[mainBranch[n]].height}

(* Of these, the last one that opens a period sets the time; blocks that   *)
(* a reorganisation brings in below them do not.  (Faults: extensions set  *)
(* it only; the block that closes a period sets it.)                       *)
Set(n, openers, T) ==
    adjustmentBlockTime' = [adjustmentBlockTime EXCEPT ![n] =
        IF openers = {} THEN @
        ELSE T[CHOOSE b \in openers :
                  \A c \in openers : block'[c].height <= block'[b].height]]
AdjustWhenExtended(n, T) ==
    Set(n, {b \in Followed(n) : /\ block'[b].height % Period = 0
                                /\ mainBranch[n] \in block'[b].chain}, T)
AdjustLate(n, T) ==
    Set(n, {b \in Followed(n) : block'[b].height % Period = 1}, T)
Adjust(n, T) ==
    Set(n, {b \in Followed(n) : block'[b].height % Period = 0}, T)

(* Mine(n) some time after the last block was mined: the header takes the  *)
(* time and the target when it is built, before the block is appended.     *)
RetargetMine(n, gap) ==
    /\ Mine(n)
    /\ time' = [time EXCEPT ![mined + 1] = time[mined] + gap]
    /\ nBits' = [nBits EXCEPT ![mined + 1] = NextTargetNBits(n)]
    /\ Adjust(n, time')

RetargetReceive(n, b) ==
    /\ Receive(n, b)
    /\ Adjust(n, time)
    /\ UNCHANGED <<time, nBits>>

RetargetInit ==
    /\ Init
    /\ time = [b \in Block |-> 0]
    /\ nBits = [b \in Block |-> IF b = Genesis THEN FromBigDouble(InitialTarget)
                                               ELSE Zero]
    /\ adjustmentBlockTime = [n \in Node |-> 0]

RetargetTimeLimit == TimeLimit /\ UNCHANGED <<time, nBits, adjustmentBlockTime>>

RetargetNext ==
    \/ \E n \in Miner : \E gap \in Gap : RetargetMine(n, gap)
    \/ \E n \in Node : \E b \in Block : RetargetReceive(n, b)
    \/ RetargetTimeLimit

(* The simulator delivers every message it has scheduled. *)
RetargetSpec ==
    /\ RetargetInit
    /\ [][RetargetNext]_retargetVars
    /\ \A n \in Node : \A b \in Block : WF_retargetVars(RetargetReceive(n, b))

-----------------------------------------------------------------------------
(* Properties                                                              *)

(* The variables hold values of their types: every mined block has a       *)
(* target that can be compared with and divided by, and what a node takes  *)
(* for the start of a period is the time of a block that opens one.        *)
RetargetTypeOK ==
    /\ time \in [Block -> Nat]
    /\ \A b \in Genesis .. mined : nBits[b] \in Compact /\ Value(nBits[b]) > 0
    /\ adjustmentBlockTime \in
          [Node -> {time[b] : b \in {c \in Genesis .. mined :
                                       block[c].height % Period = 0}}]

(* The time that a node remembers is that of a block it knows, at the      *)
(* height where the period of its main branch began, whatever forks and    *)
(* chains of orphans it went through.                                      *)
AdjustmentTimeOpensPeriod ==
    \A n \in Node : \E b \in Known(n) :
        LET height == block[mainBranch[n]].height
        IN  /\ block[b].height = height - (height % Period)
            /\ time[b] = adjustmentBlockTime[n]

(* What the documentation says of the target: it changes with the time     *)
(* that the blocks before b took, from the first one of the period on.     *)
TargetOf(b) ==
    LET p == block[b].prev
        first == CHOOSE x \in block[p].chain :
                    block[x].height = block[b].height - Period
    IN  IF block[b].height % Period = 0
        THEN FromBigDouble(Scaled(nBits[p], time[p] - time[first]))
        ELSE nBits[p]

(* Another block was mined where the period before b began. *)
Contested(b) ==
    \E x, y \in 1 .. mined :
        /\ x # y
        /\ block[x].height = block[y].height
        /\ block[x].height = block[b].height - Period

(* The documentation of BlockchainManager: it "recalculates mining         *)
(* difficulty of the network based on the time needed to mine the last     *)
(* 2016 blocks".  So the target of a block follows from the blocks below   *)
(* it, and does not depend on who mined it.                                *)
TargetFollowsBranch ==
    \A b \in 1 .. mined : nBits[b] = TargetOf(b)

(* As long as only one block was mined where the period began, this holds: *)
(* forks within a period, reorganisations and late blocks do no harm.      *)
TargetFollowsUncontestedBranch ==
    \A b \in 1 .. mined : nBits[b] = TargetOf(b) \/ Contested(b)

(* From a block to the next the target changes by a factor of four at      *)
(* most, up to the precision of a compact target.                          *)
TargetChangesByFourAtMost ==
    \A b \in 1 .. mined :
        LET old == Value(nBits[block[b].prev])
            new == Value(nBits[b])
        IN  /\ new <= 4 * old
            /\ 4 * RootTo[3] * new >= (RootTo[3] - 1) * old
=============================================================================
