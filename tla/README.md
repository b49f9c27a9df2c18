# TLA+ specifications of iBlock

iBlock (`src/iblock`) simulates a Bitcoin network on OMNeT++.  The simulator
runs one event handler at a time, to completion, and picks the next event from
a queue ordered by simulated time; delays of messages and times between blocks
are random.  So a handler is one atomic step of these specifications, and what
is nondeterministic is which event comes next: any message on its way may be
the next to arrive, and any miner may be the next to find a block.  Scheduled
messages are never lost and never duplicated.

## The system

Every node of a network is a compound module with these applications and
tables.  Nodes exchange blocks and transactions by direct messages
(`DirectBlockMsg`, `DirectTxMsg`); the version handshake and pings use packets
routed by a dispatcher.

| component | state | operations | talks to |
|---|---|---|---|
| `BlockchainManager` | heads of branches, main branch, orphans, time of the last difficulty adjustment | append a received or mined block, reorganise, clean up | miner, mempool, wallets, GBM, the managers of other nodes |
| `SelfishBCManager` | the above, the private chain and its lead | overrides the hooks of `appendBlock()` | same |
| `Miner` | timer | build a block on the main branch | blockchain and mempool managers, wallet |
| `MempoolManager` | unconfirmed transactions by fee rate | add, remove, follow blocks and reorganisations, relay | wallets, the mempools of other nodes |
| `Wallet` | UTXOs with confirmations, addresses, pending notifications | confirm, unconfirm, spend, balance | blockchain manager, transaction generator |
| `TransactionGenerator` | timer | spend UTXOs of the wallet | wallet, mempool |
| `ConnectionManager` | addresses to notify | version/verack handshake | `AppBase`, peers |
| `Pinger` | nonces | ping and pong | peers |
| `PeerTable`, `Dispatcher`, `PortQueue` | peers and their ports, packets waiting for a channel | look up, route, queue | all packet applications |
| `GBM` | the main branch of every node, cleanup timer | cut off old blocks | every `BlockchainManager` |
| `NodeManager`, `WalletManager` | registries, constant after initialisation | look up | |
| `Block`, `Transaction` and relatives | prev pointer, transactions, per-wallet UTXO index, lengths in bytes, cached values and fees | edit arrays, patch or rebuild what is derived | |
| `Hash` | compact or expanded form | conversion, comparison, bitwise operations | difficulty |
| `BTCValue` | satoshis, an unsigned 64-bit integer | arithmetic, comparison, units | transactions |
| `HashRate` | a number and its unit | arithmetic, comparison, conversion | `GBM` |

What is hard here: blocks and transactions reach the nodes in any order, so a
node meets forks, orphans and reorganisations whose handling is one
long case analysis; objects are kept alive by smart pointers only, while the
GBM cuts the chain under the nodes' feet; hooks run in the middle of an append;
and mempool, wallet and blockchain must be kept in step by calls made one
after another.  `PROJECT.json` lists the hazards with their lines.

What makes each part correct:

| component | must hold |
|---|---|
| `BlockchainManager` | the heads are the leaves of one tree; the main branch is of maximal height, the first seen of these; no block is lost or filed twice; appending never fails; nodes that have everything agree; every block that arrives is filed |
| `GBM` | the main branches always meet in a block still in memory; a cut takes nothing away that the nodes' main branches need |
| `SelfishBCManager` | what is private is the top of the own main branch and nobody else has it; publishing is all or nothing; the patched distance is the true lead |
| `MempoolManager` | every payment is in the mempool or the main branch, whatever is swapped |
| `Wallet` | no money is lost; confirmations never exceed the depth; immature coinbases are not spent |
| `TransactionGenerator` | while it waits it has nothing that it may spend; a payment's outputs and fee add up to its inputs, and building it ends |
| `Transaction`, `Block` | after any edits, lengths and caches are those of the contents; the index is what the transactions leave unspent; a mined block is within the limit |
| `PeerTable` | a peer in the table is found by its gate and gets messages, whatever addresses it announced |
| difficulty | the target follows the time of the blocks on the main branch, reorganised or not |
| handshake, dispatcher, ports | one handshake per link; every packet that waits for its peer is sent, once, after the connection is up; no packet stays in a queue |
| `Pinger` | every ping is answered once |
| `Hash` | a compact target stands for the number it was made from, up to its precision; comparison and bitwise operations are those of the numbers, in either form |
| `HashRate` | rates of different units compare and add up like the numbers of hashes per second |

## Modules

`BlockchainManager` is the core.  `GBM`, `SelfishBCManager`, `Ledger` and
`Retarget` each extend it, call its actions and add the state of one neighbour,
so that every composition contains the whole of `appendBlock()`.
`ConnectionManager`, on top of `PortQueue`, is the other half of a node: the
packets.  The two halves share no state.  `Transaction`, `Block`, `Payment` and
`PeerTable` model objects and one function in isolation, at the level of their
calls; `Amount`, `Hash`, `StoredHash` and `HashRate` are values and operations
on them, and `Bits` has the bitwise operators of C that two of these use.  An `MC` module holds what TLC needs for an instance (symmetry, values
of function constants, the composition of modules that share no state).
`Induction` models nothing: it has the induction, recursion, order, sums and
quotients that the proofs of `Ledger`, `Retarget` and the objects share.

Operators whose comment says *Fault* are wrong versions of the definition that
follows them, each with one plausible slip of the code.  Nothing refers to
them; putting one in the place of the right definition must make the property
named in `PROJECT.json` fail, which shows that the property can fail.

### BlockchainManager

| TLA+ | code |
|---|---|
| `block`, `mined` | the heap of `Block` objects: prev pointer, height, and `chain`, the blocks its prev pointers still reach |
| `branches`, `mainBranch`, `orphans` | the members of the same name, per node; `orphans` are `weak_ptr` |
| `gbmMainBranch` | the GBM's map of main branches |
| `inFlight` | the `DirectBlockMsg`s on their way to a node |
| `aborted` | a `cRuntimeError` was thrown or a null pointer followed |
| `Mine(n)` | `Miner::mineBlock()` and `addBlock()`: build on the main branch, append, send to all other nodes |
| `Receive(n, b)` | `handleOtherMessage()`: append a block that arrives |
| `ExtendBranch` | `appendBlock()` when the parent heads a branch: cases 0x00 to 0x03, `findForkBlock()`, the orphan loop and its recursion |
| `FileBlock` | `appendBlock()` otherwise: new side branch, orphan, or a duplicate, which never arrives because no block is sent twice |
| `TimeLimit` | the end of the simulation |

One delivery may adopt a chain of orphans by recursion.  The module does not
recurse: an adoption tip is the last block of such a chain, and because only
strict gains of height move the main branch, the result depends on the tip
alone.  The orphan list may hold two children of one block; which one is found
first depends on the order of arrival, so either may be taken.  An orphan whose
block nothing else keeps alive has expired (`LiveOrphans`).

### LongestChain

The abstract specification, without messages, branches or orphans: every node
knows a growing set of blocks closed under parents, and its best block changes
only to the highest of the new ones, if strictly higher.  `BlockchainManager`
implements it with `known[n]` the union of the branches of `n` and `best` the
head of its main branch.

### GBM

Adds the cleanup timer.  `Cleanup` is `handleMessage()`: fold `findForkBlock()`
over the reported main branches, cut the prev pointer of the fork block's
parent, and call `cleanup()` on every node.  The heap loses the blocks below
the cut from every `chain`; from then on appending a low block may walk off
the end of a branch (`RunsOffEnd`), follow a null pointer and abort.

### SelfishBCManager

Adds `selfishChain` and `selfishChainDistance`.  `SelfishMine` and
`SelfishReceive` are `Mine` and `Receive` with the overridden hooks.  The hooks
run in the middle of `appendBlock()`; they neither read nor change what
`appendBlock()` goes on to use, except the main branch, so the module states
them as functions of what the append did: `SideBlocks` are the blocks for which
`onNewSideBranch()` or `onSideBranchAppend()` ran, in ascending height.

### Ledger

| TLA+ | code |
|---|---|
| `tx` | all `Transaction` objects, in the order of their identifiers |
| `txn`, `utxos` | per block: its transactions, and the index of unspent outputs of each wallet that `setTxn()` maintains |
| `mempool`, `wallet`, `txInFlight` | `MempoolManager::mempool`, `Wallet::utxos` with confirmations, the `DirectTxMsg`s |
| `waiting` | the generators whose callback is registered with their wallet |
| `Generate(n)` | the generator's timer: pay, or wait for the wallet |
| `ReceiveTx(n, t)` | a payment reaches a mempool |
| `LedgerMine(n)` | `mineBlock()`: choose transactions, coinbase first, index, append |
| `LedgerReceive(n, b)` | a block arrives |
| `Follow` | the calls of `appendBlock()` into mempool and wallets: unconfirm and return block by block from the tip down to the fork, then remove and confirm from the fork up |
| `CreateTransaction` | `createTransaction()`, from the timer or from inside a confirmation |

`confirmUtxo()` runs the callback of a waiting generator in the middle of the
loop over a block's outputs.  `Follow` therefore confirms a queue of outputs
one by one; at the first confirmation that leaves the generator something to
spend the payment is made, from the wallet as it is at that moment, and then
the rest of the queue is confirmed.

Data is abstract where the properties do not look: amounts are below the value
of any output (a generator is poor exactly when its wallet lists nothing), the
outputs of one transaction to one wallet are taken together, the inputs of a
payment are any of the listed outputs (the code takes them in the order of
their values until the amount and the fee are covered), and any subset of the
mempool fits in a block.  Wallets belong to nodes one to one.

### Retarget and Hash

`Retarget` adds the time and the target of every block and the time that each
manager remembers.  `RetargetMine` is `mineBlock()`: the header takes the time
and `NextTargetNBits` before the block is appended.  `Adjust` is what
`appendBlock()` does with `adjustmentBlockTime`, in an extension, in a
reorganisation (which tests the height of the new tip only) and along an
adopted chain of orphans; all three come down to the last block, above the old
main branch, that opens a period (`Followed`).

`Hash` has the compact form of a target: the constructor with its sign bit and
its zero, the value, and `fromBigDouble()`.  The radix is a parameter, 256 in
the code and 4 in the run; with it the mantissa of a converted number has
between one and a half and two and a half digits, as in the code.  The doubles
between two targets are exact numbers here: they hold 53 bits, a target keeps
less than 21.

### StoredHash and HashRate

`StoredHash` adds the expanded form, 32 bytes in the code and `MaxExponent`
digits here, and the operations that accept both forms: `Expanded` (`expand()`,
`bytesCopy()`), `E` and `M` (`e()`, `m()`), `MakeCompact`, `FromBytes`,
`FromHex`, `Compare`, `AndHash`, `OrHash`, `XorHash`, `Complement`.  `HashRate`
has the units, `CommonUnit` in which two rates meet, and `NetworkRate`, the sum
that `computeInitialNBits()` takes over the miners, of which it uses the bare
number (`Hps`).  Both are pure; in the run `objects` they are evaluated on all pairs of the
hashes in `Tried`, on all texts of up to `MaxCharacters`, and on all short lists of
the rates in `TriedRates`.  A text is a sequence of digits, of the x of the prefix
and of one character that stands for all others (`Character`); `FromHex` skips the
prefix, refuses or misreads what is no digit, and stops at the length of a hash.  `StoredHashAssumption` says that half a byte has as many values as
some power of two, which the bitwise operations need, and that a hash has more
than five digits; the code has 16 values and 32 digits.

### Transaction, Block and Amount

| TLA+ | code |
|---|---|
| `tx` | a `Transaction`: two arrays of slots, `bytes` (`byteLength`), the cache |
| `SetSize`, `Place`, `Insert`, `Erased`, `Vacated` | `setTxInArraySize()`, `setTxIn()`, `insertTxIn()`, `eraseTxIn()`, `removeTxIn()` and their counterparts for outputs |
| `BuildCache` | `buildCache()` |
| `blk` | a `Block`: its header, the index of the previous block, its transactions, `bytes`, its own index `utxos` |
| `WithSize`, `WithTxn`, `WithInserted`, `WithErased` | `setTxnArraySize()`, `setTxn()`, `insertTxn()`, `eraseTxn()` |
| `WithHeader`, `WithoutHeader` | `setHeader()`, `replaceHeader()`, `removeHeader()`: they rebuild the index |
| `MineBlock` | `Miner::mineBlock()`: choose the payments that fit, by length, and fill a block with them |
| `Combine`, `OfUnit`, `OfPar` | the operators and constructors of `BTCValue`, modulo `Word` |

The code patches lengths and the index by differences in every call.  The
properties compare them with what one would compute afresh.  A slot holds the
value of its input or output; scripts have the default lengths that the code
gives them.  `OfUnit` and `OfPar` are defined for numbers that are not negative:
for others, and for parameters of other types, the constructors throw, which no
configuration provokes.  A block's transactions form a chain, in which each spends the one
before, because only dependent transactions make the order of edits matter.

### Payment

One call of `TransactionGenerator::createTransaction()`, opened up: `Start` is
everything before the loop, and `AddChange`, `Push`, `AddInput` and `GiveUp`
are the turns of its loop, each with the fee rate that the turn draws.  `Ledger`
has the same call as one step that abstracts the values.

### PeerTable

| TLA+ | code |
|---|---|
| `peers`, `gateMap`, `ipMap` | the three maps, as sets of rows |
| `address`, `called` | the fields of each `Peer`, and whether it has the table's callback |
| `AddPeer`, `RemovePeer` | `addPeer()`, `removePeer()` |
| `SetAddress`, `SetPort` | `Peer::setAddress()`, `setPort()`, which call `updatePeer()` before they change the peer |

### ConnectionManager and PortQueue

| TLA+ | code |
|---|---|
| `port` | per link: the `PortQueue`'s queue and timer, the packets on the channel and whether it is busy |
| `state` | the `ConnectionState` of the `Peer` at the other end of the link (the version has been sent unless it is `UNCONNECTED`) |
| `notifyMap` | the callbacks of the `ConnectionManager`, in the order of registration |
| `queue` | the packets that `AppBase::queue` still holds, each known by the position of its callback |
| `Ping(l)` | `Pinger::handleSelfMessage()`: ping the peer, or hold the ping and `connect()` |
| `Deliver(l)` | a packet arrives: `Dispatcher`, then `handleVersionPacket()`, `handleVerackPacket()`, `handlePingPacket()` or `handlePongPacket()` |
| `HandleTimer(l)` | `PortQueue::handleTimer()` |
| `FinishTransmission(l)` | the channel becomes free (external) |

The hops from an application through the dispatcher to the port take no
simulated time and have the same number for all packets, so they are part of
the handler's step.  Time is what the queue asks for: whether the channel is
busy, and the event that the timer was set to (`AtFinish`, the arrival of the
k-th packet on the wire, or now).  No time passes on a link while its timer is
due, but another handler may run first, and take the channel.  That is how
packets overtake each other: `handleTimer()` sets the timer to the arrival of
the packet it sent, the channel is free before, and `handleMessage()` does not
look at the queue.  A port is therefore no FIFO; the properties hold in spite of it.

### PingService

What the network of `Pinger`s promises: pings are made, and each is answered
once, at some time.  `ConnectionManager` implements it, safety and liveness,
with the same two counters per link.

## Runs

| run | instance | shows |
|---|---|---|
| `chain` | 3 mining nodes, 5 blocks, symmetric | tree, heads, main branch, accounting, agreement, first seen wins, and the refinement of `LongestChain` |
| `gbm` | 3 mining nodes, 4 blocks, 2 cleanups | the main branches meet, the fork block and its parent survive, nodes that have everything agree on the height |
| `selfish` | 1 selfish and 2 honest miners, 5 blocks, chain length 3 | the secret is one, publishing is all or nothing, the distance is the lead |
| `ledger` | 2 nodes that mine and pay, 3 blocks, 2 payments, maturity 2 | no payment and no money is lost, no overcounted confirmations, no immature coinbase spent; a confirmation wakes a generator that asks for at most one |
| `retarget` | 2 mining nodes, 5 blocks, periods of 2, short and long times between blocks, fair delivery | the remembered time opens the period; the target follows the branch unless the period's start was contested; it changes by four at most; every block sent is filed |
| `ping` | 2 nodes, 3 pings each | one handshake per link, whoever starts it; nothing held for a connected peer; ports never stall; pings are neither lost nor answered twice; refinement of `PingService` |
| `objects` | one object at a time: a transaction of 3 slots a side, a block of 4 transactions, a payment from 3 outputs to 2 recipients, a table of 2 peers; pairs of hashes, texts of 4 characters, lists of 3 rates | lengths, caches and the index follow the contents; a payment balances and is finished; peers stay reachable; hashes are numbers and rates add up |
| `orphan_adoption`, `gbm_abort`, `double_spend`, `sleeping_generator`, `stale_target` | the smallest instances | the findings below |

Why the bounds are enough.  Five blocks allow two branches of lengths two and
three, so every case of `appendBlock()` occurs: a tie, an overtaking by one, a
reorganisation two blocks deep, an orphan, and a chain of two
orphans adopted at once, during which the main branch moves.  Three nodes allow
a third party that hears of both sides of a fork in any order.  Four blocks and
two cleanups allow a cut above an earlier cut.  In `selfish` a private chain
reaches its maximum of three and the public one catches up by one or by
several.  In `ledger` three blocks allow a reorganisation that swaps one block
for two; payments spend genesis money, change and mature coinbases, also from
inside the confirmations of a reorganisation.  Its instance starts with money
at one node only, so that the other generator must wait.

In `retarget` a period is two blocks, so five blocks hold two adjustments and a
fork over the block that opens the second period; a short gap is below a
quarter of the expected time and a long one above it.  The exponents go up to
10, so that the largest target that a node may be about to compute, from 1200
in two adjustments, still has one.  In `ping` three pings
from each side meet a peer in every stage of the handshake, from both ends at
once, and fill a port with several packets behind a busy channel.

In `objects` a hash has 8 digits of radix 4 (32 of radix 256 in the code), more
than twice the 3 of a mantissa, so that two exponents may be equal, close, or
too far apart for their mantissas to overlap.  `TriedCompact` and `TriedDigits` hold the
mantissas around one, two and three digits, the digits 0, 1, the lowest with
the sign and the highest, at every exponent and in both forms.

The objects share no state, and a behaviour makes the calls of one
of them, its `subject`: their states add up instead of multiplying.
`CompactLimit` is {2, 3, 4} instead of {253, 2^16, 2^32}, so that the size field
of an array grows at each of its first slots; `Word` is 8192 instead of 2^64,
still above every sum that a payment forms.  The coins are such that a
payment needs none, one or two further
outputs for its fee, or runs out of them, and the fee rates are one that is
constant and one that is drawn anew in every turn.  `MaxBlockSize` is 600, so
that of three payments one is passed over, and the next one may still fit.
Two peers with two addresses and two ports suffice to share an address.

`MaxBlock`, `MaxPayment`, `MaxCleanups`, `MaxPing`, `MaxSlots` and `MaxTxns` are
bounds of the models and guards of the actions they bound, `MaxCoins` and
`MaxDest` bound what a payment starts with, `MaxMiners` and `MaxCharacters` the lists to try, and none is a state constraint.  The
runs check for deadlock: `TimeLimit` stutters when everything that the bounds
allow has happened, or after an abort.  Only `objects` does not check
for it: a payment is one call, and stops when it has returned.

Fairness is assumed in `retarget`, `ping` and `objects` only.  In `retarget` it is weak
fairness of each reception of a block: OMNeT++ executes every scheduled event
unless the simulation ends, and `sendDirect()` schedules the arrival when it is
called.  In `ping` it is weak fairness of `Elapse(l)` and `Deliver(l)` for each
link: a transmission has an end, a transmitted packet an arrival and a timer a
time, all of them scheduled events.  In `objects` it is weak fairness of
`Looping`: a call that has been made goes on until it returns.  A fee rate that
leaves exactly nothing takes no branch of the loop and is drawn again; weak
fairness then says that some other rate is drawn in the end, which holds with
probability one, and not at all for a constant rate (`Spins`).  Mining and making pings need no fairness:
nothing checked depends on them.

## Findings

Where a run finds that the code does not do what the documentation says
(quoted in `PROJECT.json`):

- `orphan_adoption`: an orphan whose parent arrives as a new side branch is not
  adopted, because only an append to the head of a branch looks for orphans.
- `gbm_abort`: a block that arrives after a cut at its parent's height makes
  `appendBlock()` follow a null pointer.  The invariants of the `gbm` run that
  speak of agreement therefore assume that the simulation has not aborted.
- `double_spend`: a block that does not contain a local payment brings the
  output it spends back into the wallet, which spends it again.
- `sleeping_generator`: a generator asks for its balance with `minConfirmations`,
  by default 0, but is registered for confirmed increases only.  A payment that
  its wallet hears of leaves it asleep over an output that it may spend, until a
  block confirms it.  Generators with two or more sleep, too: they are called
  back at the first confirmation of an output only (`Wallet.cc:70-83`), find
  nothing to spend and wait again.  What does hold is `ConfirmationsWake`, and
  the documented `WaitingMeansPoor` for generators that ask for exactly one.
- `stale_target`: after a reorganisation that replaces the first block of a
  period, a node measures the period from the abandoned block, and nodes with
  the same main branch compute different targets.

The models contain more divergences that no run is spent on: one or two calls
are enough to see them, or the documentation is vague.

- A public chain that catches up from a lead of two or more to a tie, in one
  step, leaves the private chain hidden and the attack on:
  `relaySelfishChainIfNeeded()` publishes at a distance of one, and no distance
  of one was seen.  The documentation says "Should the public chain catch up,
  the miner terminates the attack" (`src/doc/chapters/pocs/selfish.tex:91`).
- A payment that reaches a node after the block that contains it enters the
  mempool and may be mined again; and a reorganisation returns the coinbases of
  the old blocks to the mempool, to be mined inside other blocks.  A mempool
  never asks the chain, although the documentation speaks of "verifying that the
  transaction is not already in the mempool or in the blockchain"
  (`src/doc/chapters/performance/comparison.tex:16`).
- A recipient's share is a `double`, which `operator*` of `BTCValue` turns into
  whole satoshis before it multiplies (`Part`; `BTCValue.h:442`).  A share below
  one is 0, so with two recipients or more every output but the change is empty,
  although "Each recipient is assigned a corresponding percentage of the total
  transaction value" (`src/doc/chapters/implementation/node.tex:355`).  A single
  recipient gets the whole amount.
- With a constant fee rate, a fee equal to what remains leaves
  `createTransaction()` in its loop for ever.  `PaymentEnds` excepts this case
  (`Spins`) and no other.
- A transaction placed before the one it spends from removes an output that is
  not there yet from the block's index, and the other one adds it afterwards,
  spent.  With a `minConfirmations` of zero a generator makes such chains, and a
  miner orders them by fee rate.  `IndexIsUnspent` states the index for orders
  that respect the dependencies (`followed`).
- `updatePeer()` runs before the address changes, so the table keeps the old one:
  the peer is not found by the address it has, and when it is removed, rows of
  it stay; `setAddress()` on a removed peer puts one back.  The applications find
  peers by their gates, for which `PeersStayReachable` holds.
- `fromHex()` stores the -1 of a character that is no digit in an unsigned byte
  before it tests its sign (`Hash.cc:80-81`), so it refuses only texts in which a
  higher character is no digit, and reads others with bytes of 0xff (`HexByte`).
  `TextIsNumber` speaks of texts of digits.

`NoFundsLost` and `NeverOvercounts` bound a wallet from the two sides that hold
in spite of late payments, returned coinbases and `double_spend`.

Other places deserve attention; nothing in the repository calls them in this
way yet, or what they compute is only displayed.

- `BTCValue(cPar)` and `BTCValue(cProperty)` with the satoshi as unit initialise
  the amount with the member itself (`OfPar`).  The `operator=(cValue)` of
  `BTCValue` and `HashRate` assigns the old value.
- `hps()` does not convert.  The initial target is right because the sum over
  the miners starts in H/s (`RatesAddUp`).
- The shifts of `Hash` move the leftover bits as whole bytes.  `AndHash` and
  `XorHash` of compact hashes may leave a mantissa of 0 with an exponent, which
  does not compare like zero.  A hash whose highest bit is set makes `e()` 33,
  and `m()` read before the array; `operator~` makes such hashes.
- Shrinking the array of a transaction or block to nothing counts an unsigned
  index down for ever.
- `unconfirmUtxo()` reads the count it emits through an erased iterator.

## Proofs

`BlockchainManager_proofs` proves, for every finite or infinite `Node`, every
`Miner` and every `MaxBlock` (assumptions `NodeAssumption`,
`MaxBlockAssumption`), the six invariants of `chain`, its action property and
the safety refinement of `LongestChain`.

The invariants are not inductive one by one.  The inductive one, `IInv`, is
their conjunction (without `QuiescentAgreement`, which follows from it) with
the following three; all of it but `BlockAccounting` is `TreeInv`, which holds
whoever is sent which block.

- `TreeOK`: chains are closed under prev, linearly ordered, and heights grow
  along them.  `MainBranchIsHighest` and `HeadsAreLeaves` speak of heads only,
  and need it when a head is replaced by a block far above it;
- `References`: nodes refer to mined blocks only, so that mining, which writes
  a new cell of the heap, disturbs none of them;
- `Retained`: every mined block is in the tree of some node, so the weak
  references of the orphan lists never expire.  Without it `BlockAccounting`
  is not preserved by the orphan loop, which drops the expired ones.

The argument: `TreeGrows` shows that a mined block extends the tree;
`ExtendKeepsOrder` and `ForkKeepsOrder` treat the two ways in which the set of
heads changes; `AppendKeepsOrder` combines them over the cases of
`AppendBlock`, and shows that none aborts; `AppendFilesReceived` and
`AppendFilesMined` apply it to a received and to a mined block,
`ReceivedKeepsTree` and `MinedKeepsTree` keep `TreeInv`, and `ReceiveKeepsIInv`
and `MineKeepsIInv` add the messages.  `Agreement` follows from `BlockAccounting`
and `MainBranchIsHighest`.  For the refinement, `NextIsStepOfOneNode` says what
a step does to the node that takes it and to the others, and `StepLearns` that
this is a `Learn` step of `LongestChain`.

`GBM_proofs` proves the two invariants and the action property of `gbm`, for any
number of cuts and any `Node` that is not empty (`SomeNodeAssumption`:
`deleteOldBlocks()` dereferences the first main branch).  Chains now end where
they were cut, so `TreeOK` becomes `CutTree`, `Retained` and `BlockAccounting`
fail, and `~aborted` must be assumed.  `RunningInv` replaces them:

- `SharedEnd`: all main branches end in one block, genesis or the last cut.  A
  swap keeps it because `findForkBlock()` would have thrown had the new main
  branch not met the old one (`MeetingChains`);
- `KeptOrLow`: a block that no node has in its tree is no higher than any main
  branch.  The heads and orphans that a cleanup drops are such blocks;
- `HandledOrWaiting`: a block that was delivered is among the orphans, or no
  higher than the main branch.  `QuiescentHeights` follows from it.

`CuttingKeepsTree` says what the cut does to all chains, `AppendMeets` that
`appendBlock()` either aborts and changes nothing or files the block (`Filed`),
`ForkBlockFound` that the fold of `findForkBlock()` finds a block, and
`CleanupCuts` which heads and orphans are left.

`SelfishBCManager_proofs` proves the four invariants of `selfish` for any number
of selfish nodes among any `Node` and any `MaxSelfishChainLength`.  `SelfishInv`
adds to `TreeInv`, which the inherited `appendBlock()` keeps as before:

- `SentToAll` and `Undelivered` in place of `BlockAccounting`: two nodes have a
  block only if all have been sent it;
- `TopsMainBranch` and `Leads`: the last two invariants, node by node.

`Sends` is a step as the others see it, and `SendingKeepsSecrets` shows that it
takes no secret from them.  The step that needs all parts together is
`SecretIsNotExtended`: a block that a hiding node receives cannot sit on its
private head, because some other node would know that head.  So the main branch
of a hiding node moves only by a swap, which ends the hiding, and every other
block it links lies beside the main branch, where the patched distance sees it
(`LeadIsPatched`).  A mined block takes no orphan along (`MinedSends`).

`Objects_proofs` proves the six invariants of `objects`.  Each object has an
inductive invariant of its own, which its calls keep, and `ObjectsInv` holds
them side by side.

- `DerivedFieldsFollow`, first half, for any amounts, numbers of slots and
  thresholds of the size field: `Sound` is the property for one transaction.
  Each call patches the length by a difference, and `Changing` says when such a
  patch is right; `PlacedFollows`, `InsertedFollows`, `ErasedFollows` and
  `VacatedFollows` show it for each call, from what the call does to the number
  of filled slots (`CountAround`, `CountInserted`).
- `IndexIsUnspent` and the other half, for any set of transactions, any
  predecessor and any limits: `BlockInv` adds to both that no transaction is in
  two slots, without which removing one of them would be counted twice.
  `FilledHolds` and `EmptiedHolds` treat a transaction that enters and one
  that leaves; the other calls are chains of these, and `RebuiltIsSound` follows the loop
  of `rebuildUtxos()`.  A mined block is within its limit because the miner
  adds up the length that the block will have (`ChosenFits`, `AssembledIsSound`).
- `PaymentBalances`, for any wallet, any shares, any fee rates and any order in
  which the loop draws them.  `PayInv` adds what holds before each turn
  (`InTurn`): the inputs are a beginning of the wallet's outputs and the rest is
  what the call has left (`SpendsBeginning`); the outputs pay the recipients,
  and after them perhaps the change, whose value the loop has yet to settle
  (`PaysOut`).  `AddingChange`, `AddingInput` and `PushedBalances` are its turns.
  Sums must not wrap around: `NoOverflowAssumption` says that all outputs of a
  wallet, and the fee of its longest payment, are below 2^64 satoshis, while
  all bitcoins are about 2.1 * 10^15.  From it follow `NoWrap`, for one more
  input, and `FeeFits`; and what the recipients get is at most the amount
  (`PartsAdd`), because the conversion to an integer leaves several of them
  nothing.
- `PeersStayReachable`, for any `Peer`, `Address` and `Port`.  `PeerInv` says that the map by
  gates has exactly the listed peers (`GatesAreListed`), and each listed peer has a row of its own in
  `peers`, under some address (`ListedHasRow`).  The current address cannot be
  part of it, since the table keeps old ones.  A call for one peer removes only
  rows that end in that peer (`KeyEndsInPeer`), and `updatePeer()` puts back what
  it removes.
- `RatesAddUp`, for lists of any length of rates that are whole numbers of any
  unit (`RatesAgree`, `NetworkInHps`): the sum starts in H/s, and an addition
  goes down to the lower unit, where nothing is cut off (`ToLowerUnit`).
- `HashIsANumber`, for any radix and number of digits that
  `StoredHashAssumption` allows.  The lemmas are about every compact hash whose
  digits are all in front of the point and every expanded one without the sign in
  the highest place (`WholeHash`), among which are the hashes of the run
  (`TriedIsWhole`).  The value of the digits is Horner's scheme
  (`HornerUnfolds`), so the first digit that differs decides (`FirstDecides`).
  Exponent and mantissa, in either form, are those of the number cut off after
  three digits (`HashIsKnown`), so comparing by exponent, by mantissa or by digits
  comes to the same (`ComparesAsNumbers`).  An operator on bits works on the two
  sides of a power of two apart (`OneBit`, `SplitsTwice`), so it works digit by
  digit, also on mantissas and on one that was moved to another exponent
  (`MovedDigits`, `CombinesAsDigits`).

Slots are added up by folds over sets, in an order that the library leaves
open; the second half of `Induction` shows that this order does not matter
(`SumAdds`), what a sum over two sets and over one more element is, and how the
sum over a sequence follows its edits (`SplitAround`).  Its last part has
quotients and remainders, which the solver does not know for a divisor
that is not a number (`DivMod`, `DivideTwice`).  The assumptions on
constants that came with these proofs, all evaluated by TLC, are
`StoredHashAssumption`, that there are finitely
many thresholds and transactions, that a block with nothing but its coinbase is
within the miner's limit (`MinerAssumption`), and the one on overflow.

`ConnectionManager_proofs` proves, for any `Node`, any `Link` that comes in
pairs of opposite links (`LinkAssumption`) and any `MaxPing`, the six
invariants of `ping` and the safety part of its refinement of `PingService`
(`AnswersOnlyWhatIsAsked`).  The inductive invariant, `Inv`, is about a link
and the opposite one:

- `Sound`: `PortNeverStalls` for one port, and that a busy channel has a packet
  on the wire, so that the first packet sent over a link finds it free;
- `Handshake`: `HandshakeOnce` and `Acquainted` say what must not be underway;
  this says what is.  Over a link that is half connected either the version is
  underway, or the peer's verack in return; a version is the first packet on
  its wire, so nothing that arrives before it finds the peer unknown.  Ports
  are no FIFO, but a version is only sent into an empty one;
- `HeldUntilConnected`: until the verack `AppBase` holds the packets of all
  callbacks, then none.  So `notifyApps()` sends exactly the registered packets
  (`PacketsAreCallbacks`), which `Accounted` needs.

Handlers move packets, and only their numbers count: `SubmitAdds`, `PopKeeps`,
`FinishKeeps` and `ArrivalTakesHead` say what each operation of a port does to
the number of packets of a kind, `SendingPorts` and `DeliveringPorts` what a
handler does to both ports, and `VersionStep`, `VerackStep`, `PingStep`,
`PingArrives`, `PongArrives` and `ElapseStep` treat the handlers one by one;
`PairSuffices` takes care of the other links.

`Ledger_proofs` proves the five invariants and the action property of `ledger`
for any `Node`, any number of blocks and of payments, any maturity of coinbases
and any set of nodes that has money at the start.

`NoPaymentLost` comes first.  Wallets, indices and the order inside a block are
folds; where payments are does not depend on them, so `LedgerInv` needs only
`IInv`, the domains of the variables (`LedgerShape`) and the property.  `Moved`
says what a step at a node does to payments: it may make one, which it sends to
all others.  `FollowMoves` shows that a swap returns the payments of blocks that
leave the main branch to the mempool but for those of blocks that join it, also
when a confirmation wakes a generator in the middle of it, and
`MovingKeepsPayments` that every payment is then still on its way, in the
mempool or on the main branch.

The other properties depend on what the folds leave.  The theorems of the
library about folds and induction take operators, which the provers cannot
instantiate, so `Induction` states induction for a set that contains 0 and is
closed under successor, recursion for a base and a function for each step, and
proves that a fold over a sequence is the last of the values on the way
(`Iteration`), that a finite set ordered by a relation has one element of each
rank (`Ranks`), and which elements a flattened sequence has at which places
(`FlattenSeqPlaces`).  With it a whole `appendBlock()` is unrolled into named
functions (`Follows`): the wallets while blocks are taken back, from the tip
down (`Leaving`), the wallets while the outputs of the joining blocks are
confirmed, one by one (`Joining`), the place in that queue where the generator
is woken, if it is (`Ends`), and what the payment made there does
(`Settled`).  `FollowUnfolds` and `FollowSettles` prove that such functions exist
for every step.  Each property is then an induction along them:

- `TypedInv` adds to `LedgerInv` that everything holds what it is declared to
  hold, and gives `LedgerTypeOK`;
- `PoorInv` adds `ConfirmationsWake`.  Taking blocks back makes a poor wallet no
  richer, and a confirmation that leaves something confirmed to spend runs the
  callback, which finds it because the generator asks for at most one
  (`AsksForOne`), and after which the generator no longer waits.  For exactly one this is
  `WaitingMeansPoor` (`OneConfirmationWakes`); for the default of zero the run
  `sleeping_generator` refutes it;
- `FundsInv` adds `NoFundsLost` and what it rests on, `IndexInv`: the index of a
  block lists every output that the blocks of its chain pay to a node, unless one
  of them spends it, and nothing that they do not contain.  `LeavingKeepsFunds`
  shows that an output stays in the wallet while blocks are taken back, unless one
  of them spends it, for when its last confirmation goes the block that contains
  it has yet to leave and adds it again; and `FollowKeepsFunds` that the joining
  blocks and a payment take only what they spend;
- `CountedInv` adds `Counted`: an output is counted in a wallet at most once for
  each block of the main branch whose index lists it.  It bounds counts from
  block to block while old blocks leave and new ones join (`LeavingBounded`,
  `JoiningBounded`), so it holds at the moment when the callback pays, too.  The
  blocks that list an output are no more than its depth (`ConfirmedByDepth`), and
  from this follow `NeverOvercounts` and `MaturityRespected`, even for payments
  in the middle of a reorganisation.

`Retarget_proofs` proves the four invariants of `retarget` for any `Node`, any
number of blocks, any length of a period and any radix.  For
`AdjustmentTimeOpensPeriod`, `RetargetInv` adds to `IInv` and the
property that chains are `Gapless`: there is a block at every height below the
head.  `PeriodStart` is the last multiple of the period (`PeriodStarts`, from
four lemmas about multiples).  `AdjustingKeepsStart` covers the ways in which a
main branch moves.  If no start is among the blocks that joined above the old
head, old and new height lie in the same period, and the remembered time stays
right; otherwise the highest of the starts that joined is at the `PeriodStart` of
the new height, because the new chain is gapless.  `TargetFollowsUncontestedBranch`
follows with one more conjunct, itself (`TargetInv`): where nobody competed for
the start of the period, the remembered time is that of the one block at its
height, whichever node mines.

`TargetChangesByFourAtMost` and `RetargetTypeOK` are about the numbers.
`computeNewDifficulty()` clamps the measured time, multiplies, divides and
rounds to a compact hash, and each step loses something; `RangeInv` carries both
properties, and that every target is positive.  `Scaled` and `FromBigDouble` are bounded by multiples and powers of
the radix alone (induction over the exponent, `InductionUpTo`), so
no property of 256 is used but that it is an even square.  Both theorems have the
hypothesis `[]AdjustmentsInRange`: each target that a node may be about to
compute is one that a compact hash can hold.  The code has no answer for others:
the constructor of a hash throws for a larger number, and for a smaller one
`fromBigDouble()` converts a negative number to an unsigned exponent.  The bound
of four per period cannot exclude them, only the networks of the repository do,
whose targets are far from both ends; in the instance of `retarget` the
hypothesis holds.

Only model-checked: liveness (`EveryBlockIsFiled`, `PaymentEnds` and that of
`PingService`), since liveness and `ENABLED` are beyond the prover.  Every
invariant and every action property of the passing runs is a theorem.
What the documentation promises and a run refutes is no theorem; only
`WaitingMeansPoor` is one, under a hypothesis that the run does not meet.

## Not modelled

- Time: delays, transmission durations, block intervals and hash rates only
  decide which event is next, and every order is allowed.
- Statistics (signals), logging, names, display strings.
- `GMM` and `Blockchain` are stubs; `TimeRecorder` and the listeners observe.
- NED topologies and configurations are data; the runs choose small networks.
- Values, fees and sizes of transactions in `Ledger`, which leaves them to
  `Transaction`, `Block` and `Payment`.
- The value of `networkDifficulty`, a statistic.
- Scripts, addresses and outpoints inside inputs and outputs: they have fixed
  lengths and nothing reads them; the lengths and contents of payloads.
- The gate of a `Peer`, which is set once before the peer joins the table.
- Packets to several peers at once: `AppBase` has them, no application sends one.
- Payload kinds beyond version, verack, ping and pong: nothing sends them.
- The shifts, increments and arithmetic of `Hash`, which nothing calls, and the
  accessors of `BTCValue` and `HashRate` that convert for display.
- `IPAddress`: parsing, formatting and bit operations on addresses, which no
  component uses but to compare them.

## Plan

1. `BlockchainManager`, `LongestChain`, proofs: done.
2. `SelfishBCManager`, `GBM`: checked and proved.
3. `Ledger`: checked and proved.  Next: the supply of money (coinbases of
   abandoned blocks are mined again).
4. `Retarget`, the compact targets of `Hash`: checked, and all but liveness
   proved.
5. `ConnectionManager`, `PortQueue`, `PingService`: checked, and all but liveness
   proved.
6. `Transaction`, `Block`, `Payment`, `PeerTable`, `HashRate`: checked, and all
   but liveness proved.
7. `StoredHash`, `Amount`: checked, the hashes also proved.  Next: `IPAddress`,
   if a component comes to depend on it.
