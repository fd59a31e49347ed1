# Bitcoin-Client in TLA+

TLA+ modules, TLC configurations and TLAPS proofs for the Rust Bitcoin client in
this repository. Paths below are relative to `src/` of the crate
(`src/src/network/worker.rs` and so on in the repository).

## 1. The system

A process is one node. `main.rs` starts these threads and tasks:

| part | state it keeps | operations |
|---|---|---|
| block store, `blockchain/mod.rs` | `blocks` (hash to block and height), `tip`, behind one mutex | `new`, `insert`, `tip`, `all_blocks_in_longest_chain` |
| ledger states, `types/transaction.rs` | `block_state` (block hash to UTXO map), behind a second mutex | `State::new`; the replay in `check_tx_state` (a copy in each worker file) |
| mempool, `types/transaction.rs` | hash to signed transaction, behind a third mutex | insert, remove, look up |
| network workers, `network/worker.rs` (4 by default) | each its own orphan buffer | one handler per message |
| miner, `miner/mod.rs` | operating state, the transactions of the block being hashed | control signals, one nonce per turn of the loop |
| miner worker, `miner/worker.rs` | none | check, insert and announce each finished block |
| transaction generator, `generator/tx_generator.rs` | a private copy of the tip's state | pay on one of the node's own outputs, put it in the mempool, announce it |
| p2p server, `network/server.rs`, `peer.rs` | `peers` (address to write queue) | connect, accept, broadcast, drop; a reader and a writer task per connection |
| HTTP API, `api/mod.rs` | none | start miner and generator, ping, walk the chain |
| Merkle tree, `types/merkle.rs` | the levels of the tree | `new`, `root`, `proof`, `verify` |

The parts interact through the three mutexes (no code path holds two at a
time), through channels (reader tasks to workers, miner to miner worker,
everybody to the server's control channel) and through messages between nodes.
The hard part is that a block is handled in many short critical sections:
whether it is known, whether its parent is, its parent's difficulty, a clone of
the parent's state, the new state, the insertion. Every network worker and the
miner worker run through these at once. Between nodes, messages of one
connection are read in order but handled by several workers.

What makes each part correct:

* block store: one tree, right heights, the tip at a greatest height and moved
  only by a strictly longer branch;
* ledger states: every block of the store has its state, and it is what a
  replay along the branch gives; no output is spent twice, no coin appears;
* workers: no `unwrap` fails (it would poison the mutex and take the other
  threads down), every handler ends, no orphan is forgotten, what is announced
  can be served;
* exchange: what one node stores its peers come to have, and the exchange ends;
* mempool, generator, miner: a transaction is not lost before it is on the
  chain; what is mined is not stale;
* server: one entry in `peers` per live connection, and the dispatcher lives;
* Merkle tree: `proof` and `verify` agree with the root for every leaf.

`PROJECT.json` lists the hazards with the line where each bites.

## 2. Modules

| module | models | state machine |
|---|---|---|
| `Ledger` | transactions, `State::new`, `Output::pass_check`, the loop of `check_tx_state` | no, operators |
| `LedgerProofs` | lemmas on sums and theorems about the replay, used by `NodeProofs` and `TxFlowProofs` | proofs |
| `Blockchain` | what a block hash stands for, `struct Blockchain` | no, operators |
| `LongestChain` | the promise of a node's block store: an atomic tree | abstract specification |
| `Node` | one node's block pipeline at the grain of critical sections | yes |
| `NodeProofs` | theorems about `Node` | proofs |
| `MCNode` | eight blocks for TLC | |
| `Miner` | the miner thread under its control signals, beside `Node`'s threads | yes, extends `Node` |
| `MinerProofs` | theorems about `Miner` | proofs |
| `MCMiner` | nine blocks for TLC | |
| `Gossip` | several nodes exchanging blocks over connections that break, with restarts | yes |
| `GossipProofs` | theorems about `Gossip` | proofs |
| `MCGossip` | five blocks, a pair of nodes and a line of three for TLC | |
| `Readers` | the threads that read `Node`'s chain and states: API walks, the generator | yes, extends `Node` |
| `ReadersProofs` | theorems about `Readers` | proofs |
| `MCReaders` | four blocks for TLC | |
| `Mempool` | the promise of a node's mempool: blocks take their transactions out at once | abstract specification |
| `TxFlow` | a transaction from the generator through mempool and miner into a block | yes, extends `Ledger` |
| `TxFlowProofs` | theorems about `TxFlow` | proofs |
| `MCTxFlow` | three addresses, two kinds of peers' transactions for TLC | |
| `Server` | the P2P server: dispatcher, listener, reader and writer tasks, its callers | yes |
| `ServerProofs` | theorems about `Server` | proofs |
| `MCServer` | two connections, with one or two addresses, for TLC | |
| `Merkle` | the Merkle tree, its proofs and `verify` | operators, and the vectors they are checked on |
| `MerkleProofs` | theorems about `Merkle`, for vectors of any length | proofs |

Definitions commented "mutant of ..." are faulty variants that take the place of
the definition they name when the sensitivity of a property is tested; no
specification uses them.

### Ledger and Blockchain

SHA-256 is injective: a transaction's hash is the transaction, an address is its
key. A block hash is a member of `Hash`, and the constant `BlockOf` gives the
header and content it stands for (`meets` is the verdict of
`hash <= difficulty`), since content never changes under a hash. `blocks` maps the
hashes held to their heights. Sums are taken modulo `U32Bound`, as the release
build does.

### Node

State: `blocks`, `tip`, `block_state` and the queue `finished` are shared;
`orphan_blocks` belongs to a network worker; `pc`, `todo`, `new_blocks`, `n`,
`block`, `state` are the locals of a thread's handler. An action runs from one
lock acquisition to just before the next, so the interleavings of the
behaviours are those of the critical sections. Two look-ups of values that
never change (the parent's difficulty, the parent's stored state) are joined
with the replay in one action.

| `pc` | action | code (`network/worker.rs`) |
|---|---|---|
| recv | `RecvBlocks`, `RecvFinished` | 127-175; `miner/worker.rs` 110 |
| block | `NextBlock`, `Finish` | 175-185; 372-374 |
| parent | `ParentKnown`, `ParentMissing` | 186-193; 277-282 |
| check | `CheckPasses`, `CheckFails` | 195-208, 63-116 |
| put | `PutState` | 119 |
| insert | `InsertBlock` | 209-210 |
| release | `ReleaseOrphan`, `NextNewBlock`, `ReleaseDone` | 228-274 |

`ReadTip` and `Mine` are the miner: the header names a tip that may be old by the
time the block is queued. Peers are the environment: a worker may receive any
payload of `Deliveries` at any time and repeatedly, except that nobody can hold
this node's own block, or build on it, before it is announced. `MaxOrphans` bounds
what the model lets into one buffer; the code has no bound.

### LongestChain

`AddBlock` adds one acceptable block with its state and moves the tip when it is
higher. `Node` implements it under the mapping `ledger` = the part of
`block_state` whose blocks are in the chain: a state is put before its block, and
is not part of the tree until then.

### Miner

Extends `Node` by the life of the miner thread. `Call` is `Handle::start`, `update` and
`exit`, from any thread; `RecvPaused`, `TryRecv` and `Return` are the two ways `miner_loop`
looks at its channel and its end; `MakeHeader`, `NonceGood` and `NonceBad` are one turn.
When the miner returns it drops the sender of the finished blocks, and the miner
worker's `recv().expect()` panics once the queue is empty (`WorkerPanics`). A call of
the Handle after that panics in its caller, so the model has none. Of the three
signals the program itself only sends Start (`ApiMinerStart`, the request
`/miner/start`); `update` and `exit` are public operations of the Handle without a caller
in the repository, and are modelled as such. `sent` and `exit` are history.

### Gossip

Nodes with the handlers of `NewBlockHashes`, `GetBlocks` (all the blocks or no answer)
and `Blocks`, the miner worker's announcements, and the server task that takes
hash lists from `control_chan` and writes them to every peer. A member of `Links` is
one direction of one connection, with the number of the connection between its
two ends; `chan` holds the messages written to it and not yet received, in order.
A handler's reply goes directly to the link its message came from (`Back`), an
announcement through `control_chan`. Checking and inserting one block is one step here;
`Node` shows that to be sound for safety. Blocks are valid where their parent is
known. Ping and Pong change no state and have no action.

The faults are those the code meets:

* `Connect`: the start-up thread goes through the known peers in turn
  (`main.rs` 157-186), and a later one waits for an earlier one. Both ends are
  registered in one step; nothing is sent.
* `Break`: a connection ends. Each end still gets some prefix of what the other
  had written (`Cuts`), replies written later are dropped with a trace
  (`peer.rs` 36-41), and nobody connects again. The two ends notice at once.
* `Restart`: the process ends and is started again. Nothing is on disk: it has the
  genesis block, empty buffers and queues, and dials its known peers anew. Its
  peers keep what they have, and what waits in their workers.

`used`, `before`, `mined`, `breaks` and `restarts` are history; `before` is what the sending
end of a link had when the connection was made, since nothing obliges it to
tell its new peer of that.

### Readers

Extends `Node` by threads that only read. An API request (`ApiReadTip`, `ApiGetTip`,
`WalkBack`, `Respond`; `api/mod.rs` 157-275) takes the mutex anew for the tip, for
the tip's block and for each parent, and for the state at the end; `floor` is where
its loop stops (0 for `longest-chain-tx`, the index asked for with `state`). The
generator reads the tip under one lock and its state under another
(`tx_generator.rs` 213, 218). `tips` is a history variable: the tips there were while
a request ran.

### TxFlow

| action | code |
|---|---|
| `StartGenerator` | the request `/tx-generator/start`, `tx_generator.rs` 166-184; nobody can send it Update or Exit |
| `ReadTip`, `Sign`, `NothingToSpend` | `generator_loop`, `tx_generator.rs` 212-259: `state` is the private copy, carried on after each payment and replaced when the tip is another |
| `MakeHeader`, `NonceFails`, `BlockFound` | `miner_loop`, `miner/mod.rs` 162-209; `transaction` and `to_remove` stay in hand from one nonce to the next |
| `RemoveOne`, `Removed` | 213-217, one lock per transaction |
| `StoreFinished` | `miner/worker.rs` 108-174 |
| `ReceiveBlock`, `ReceiveTransaction` | handlers of `Blocks` (one step, as `Node` justifies) and `Transactions` |
| `ContainsKey`, `GetUnwrap` | `GetTransactions` for one hash, `network/worker.rs` 393-402 |

`poisoned` says that a thread has panicked with the mempool locked; whoever locks
it afterwards panics as well. `NewTransactionHashes` changes no state and has no
action. `signed` and `sent` are history variables.

`TxFlow` implements `Mempool` under the mapping `Pending`: while the miner removes the
transactions of a block it has found, those it has yet to remove no longer count
as pending. The copy it made when it started on the block, many nonces ago, must
then be part of the mempool still, and no larger than a block.

### Server

State: `peers` and the control channel of the dispatcher; per connection its socket,
its two tasks, the length of its write queue and the copies of its handle that
workers hold. `Dispatch...` are the arms of `dispatch_control`; while it waits in
`connect` it receives nothing. `Send` waits while the channel is full. `Remote...` are
the other ends. All tasks run on one executor thread: a panic of any of them
(`DispatchGetNewPeerFails`, `WriterPanics`) stops all, `up = FALSE`.

### Merkle

`TreeList`, `Root`, `Proof` and `Verify` are `new`, `root`, `proof` and `verify`; the hash of two
hashes is their pair. The loops are functions of the level (`Levels`, `Halved`,
`HashedUp`), so that they can be proved about. The state machine only builds the vectors. `RootOfHeight`
is the reference: the textbook recursion by halves. `verify` looks neither at the
length of a proof nor at whether `leaf_size` is that of the tree, so the properties
are about proofs the tree makes; and vectors of different lengths can share a
root, since an odd level repeats its last hash.

## 3. Runs

| run | question | bounds |
|---|---|---|
| `node_safety` | Do two workers and the miner worker keep store and states consistent, and implement `LongestChain`? | 3 threads; own branch a-d, peers' branch b-c-g, a block f of another difficulty; 2 orphans per buffer |
| `miner_control` | Under Start, Update and Exit in any order: how many blocks follow an exit, do miner and miner worker end with nothing lost? And with the one network worker of this run: is its buffer complete, do handlers end, is what is mined announced, is no coin minted? | 3 threads, 3 signals; orphans three deep, a block that overspends, one without proof of work |
| `miner_three_block` | Is every block the miner sends built on the one before, as its unit test asserts? (it is not) | 3 own blocks, two of them on the genesis |
| `node_stranded` | Does the orphan handler keep the README's promise with two workers? (it does not) | 3 threads, blocks b and c |
| `gossip_pair` | Do two miners come to have what the other stored while they were connected, whatever breaks or restarts, can every request be answered, and does the exchange end? | 2 nodes, 1 worker each, 2 blocks mined out of 5, 1 broken connection, 1 restart |
| `gossip_line` | Does a node in the middle relay, when its two workers overtake each other? | 3 nodes in a line, 2 workers each, 2 blocks mined out of 5 |
| `readers` | Do the readers' look-ups succeed, and is each answer one that an atomic read would have given? | 1 worker, the miner worker, 1 request at a time, the generator; 4 blocks, two branches of length 1 and 3 |
| `txflow_safety` | Is what the generator signs valid in any selection? Does the mempool lose only what was mined? Are blocks made on the tip it signed for stored? | 4 blocks, 2 transactions per block |
| `txflow_requests` | Does the `unwrap` of `GetTransactions` hold? (it does not) | the same |
| `server_tasks` | Does a connection that works keep its place in `peers`, do handles of ended writers leave it, and does every `broadcast()` return? | 2 connections, with an address each or with one between them, 2 callers, 2 calls, a channel of 1 |
| `server_accept` | Does the listener accept endlessly? (it does not) | 2 connections |
| `merkle` | Are root, proofs and `verify` those of the textbook tree? | all vectors of up to 9 of two leaves |

Why the bounds are enough: races need two threads with the same block or with a
block and its child, which `MCDeliveries` allows at every pair of labels; a
branch that overtakes another needs a fork with a longer side; an orphan chain
needs three blocks; a stale block needs a transaction already spent on its
branch. In `Gossip` an orphan appears when a link comes up after a block was
announced, when its parent was lost in a restart or with a connection, or when
two workers swap two messages: two blocks suffice for each, and one fault of
each kind meets the other at every point of the exchange. In `miner_control`
three signals allow a Start, an Exit and one before, between or behind them.
`node_safety` is symmetric in the workers, which run the same code. A request of
`readers` walks up to three parents while the tip moves to the other branch and
along it. In `TxFlow` this node comes to own two coins, so that it signs two
payments and signs again after a change of the tip, and blocks of two
transactions leave some in the mempool. `Server` with a channel of one or two
meets the full channel at once; nine leaves pad none to three levels of the
tree. `MaxOrphans`, `MaxSignals`, `MaxMined`, `MaxBreaks`, `MaxRestarts`, `MaxBlocks`, `BlockSize`, `Capacity`, `MaxCalls`, `MaxReceived`, `MaxLeaves` and
`BlockIndex` are the bounds.

Deadlock checking is off: a node whose peers are silent and whose miner finds
nothing, or has returned, has nothing to do, a server whose thread has stopped does nothing, and
the vectors of `Merkle` stop growing.

### What the runs found

`node_stranded`: README "Orphan block handler" says that a processed block
releases the orphans that wait for it. The buffer is a local of each worker
thread (worker.rs:125). Worker 1 handles the message with the parent, worker 2
has buffered the child: nothing releases it. The node lacks the child, although it
asked for and got everything, until a peer happens to announce a descendant. In
`Gossip` this is the difference between `QuietMeansAgreed` (one worker: when nothing is
under way the peer's chain has the block) and `QuietMeansHeard` (any number: its chain
or one of its buffers has).

`miner_three_block`: the test of that name (`miner/mod.rs` 276) asserts that each block
the miner sends has the one before as its parent. The loop takes the parent from
the tip of the shared chain (line 203), which moves only when the miner worker has
inserted the block; until then the miner may find another block on the old tip.

`server_accept`: server.rs:64 calls the listener "the loop that endlessly accept
incoming peers". A connection is accepted by the listener and registered later by
the dispatcher. If it is reset in between, `peer_addr()` fails, `dispatch_control`
returns the error by `?` (line 96), the `unwrap()` at line 53 panics, and the
executor's thread with every task on it ends. The runs of `Server` that pass speak
of the time before that (`up`).

`txflow_requests`: worker.rs:393-400 unwraps what `contains_key()` has found, under
another lock. `miner/mod.rs` 214 may remove it in between; the worker panics with
the mempool locked. No node of this program sends `GetTransactions`
(`NewTransactionHashes` collects the hashes and never asks), so it takes a peer that
does.

When two connections have one address, what `PeersHear` says of a connection whose
address is its own does not hold: the later registration replaces the earlier
handle, and a late `DroppedPeer` of the earlier one removes the later one's.
`WriterPanics` is reached only there. Nothing in the repository says otherwise, so
it is no finding; it takes an address whose former connection this side has not
yet seen to be gone.

### Fairness

`Miner!MinerFairSpec`: weak fairness of the steps of each network worker, of the miner
worker and of the miner's loop. The operating system schedules the threads, a
mutex is held for a bounded time, and a thread's step is enabled until it is
taken; the miner's loop never waits in Run. Nothing obliges a nonce to be good, a
peer to send a block, or anybody to call the Handle. `Gossip!FairSpec`: weak fairness of each node's server task, miner worker
and network workers, on the same grounds: a broken connection or a restart is
never owed, and neither is a connection. `Server!FairSpec`: weak fairness of the
dispatcher and of each writer task, since the executor polls what is ready, and a
connection attempt ends in success or an error; strong fairness of whoever waits
for a place in the channel (a thread in `broadcast()`, a writer that ends), since
it is woken when one comes free and competes for ever only with `main`'s retry,
which sleeps a second each time.

## 4. Proofs

`NodeProofs` holds for any set of workers, any blocks and messages, from the
assumptions named in `Ledger`, `Blockchain` and `Node` (sets are disjoint where
the code's types make them so; `meets` is a Boolean).

The inductive invariant `Inv` adds to the checked invariants:

* `Eligible`: what waits has passed what it will not be asked again. Orphans have
  met their proof of work, finished blocks moreover have their parent in the
  chain and the common difficulty, and `new_blocks` lists stored blocks only; without it
  the step that takes a block out of a buffer would know nothing of it.
* `InHand`: per label, what the thread knows of the block and state it holds. At
  `put` the state in hand is the replay on the state *now* stored for the parent:
  this is where the race on `block_state` is settled, since `StatesReplay` makes
  any second `PutState` under a hash a no-op.

There is one lemma per action (`...Step`), `InitInv` and `InvStep`. From them:
`TypeCorrect`, `ChainConsistent`, `TipConsistent`, `NoUnwrapFails`, `StatesAreReplayed`,
`AnnouncementsBacked`, the step property `TipOnlyMovesUp`, and
`ImplementsLongestChain`, by `InitRefined` and `StepRefined`: only `InsertBlock` of a
new block is a step of the abstract tree.

What is defined by a fold or by recursion over data is proved about with the least
element of a set of naturals (`NatMin`) or induction over such a set (`NatSetInduction`):
a fold is the last of a run of intermediate results (`IsRun`), a recursive function is
shown to exist and to satisfy its equation, and the induction is over the run. On this
rest three more theorems about `Node`:

* `CoinsNeverMinted`, by `StatesBacked`: every stored state holds at most the initial
  offering. `ReplayMintsNothing` (`LedgerProofs`) carries this from a parent to its child:
  a transaction that passes takes as much out of the map as its inputs are worth, and its
  outputs are no more, since neither sum wraps.
* `NeverSpentTwice`: along the branch to a block, whatever its state holds has been spent
  by none of its transactions (`SpentOnce`), and by `ReplaySpendsOnce` a replay that passes
  removes what it spends and never makes it again.
* `OrphansReleased`, under `OneWorker` (`node_stranded` shows that two do not do): an orphan
  whose parent is stored is one the loops have yet to come to (`OrphansWait`). A block that
  is stored is pushed to `new_blocks`, and the counter `n` passes it only when no orphan
  has it as parent.

The first two assume `PlainBlocks`: the transactions name some input and none twice, and
their outputs add up to less than 2^32. The code checks neither, and without it the two are
false: an input named twice counts twice, and outputs that wrap to nothing are covered
by anything. The transactions of this program's generator are of that kind, and
`MCNode` has TLC evaluate the assumption for the blocks of the runs.

`ReadersProofs` adds the readers to that invariant. A reader's step leaves `Node`'s
variables alone; a writer's step never removes a block or a state and never
changes a height (`BlocksGrow`), so what a reader has seen stays true. With
the counter equal to the height of the block in hand, heights that grow by one
and a genesis of height 0, the parent is there as long as the loop goes on:
`ReadersNeverFail`, `WalksKeepHeight` and, of the invariant's types, `ReadersTypeCorrect`.
`AnswersAreAtomic` adds that the blocks a walk has passed, with the one it stands on, are
the upper part of the branch up to a tip of `tips` (`Serving`). A branch of a tree is
determined by its last block and stays what it is when the tree grows, so at the end of the walk
they are that branch; a stored state is the replay along the branch of its block.

`MinerProofs` shows that every step of `Miner` is a step of `Node` or leaves its variables
alone (`StepsOfNode`), so `MinerImplementsNode` carries all of the above over to a miner
under signals. `ExitStopsMining` rests on `ExitCounts`: while the first exit is in the
queue at place p, the blocks sent since it was called, the signals still before it and
the nonce under way together are at most the signals that were before it then, plus
one; each turn of the loop takes a signal before it draws a nonce, so the sum never
grows, and once the exit is taken no nonce follows. `NothingFoundIsLost` follows each
block from the miner to its end (`Tracked`): it is in the queue, in the miner worker's
hands, inserted and to be announced, announced, or its replay fails on its parent's
stored state, which never changes. The worker panics at `recv()` with an empty queue
only (`Ended`), when nothing is in its hands (`MinersTurn`), which leaves the last two.

`GossipProofs` holds for any network, any number of workers, and any number of breaks
and restarts. A restart takes blocks away from a node, so what a message promises can
only be kept of live links: `Carried` says that a link that is up carries hashes its
sender has, or requests for what its receiver has. This needs `Stores` (what a node has
hangs together, what it queued for broadcast or finished it can store), `InHand` (what
a worker still holds of a message is of a live peer's blocks, so that the parent it asks
for is there, since a store is closed under parents) and `Paired` (links come in pairs
and a number is used once, so that a fresh connection carries nothing old). The hashes
`Unknown` picks out of a list are shown to be some of the list by counting ranks
(`UnknownSeq`). From it: `GossipTypeCorrect`, `GossipMessagesBacked`, `GossipAnswerable`.

`GossipQuietMeansHeard` needs more than a bound on what a message may carry: it has to say of every block
stored since a link is up where on its way to the other end it is. `OnItsWay` lists the
places: pushed by a thread, queued for the broadcast, in an announcement, a request or an
answer, in a worker's hands at the other end, stored there, or waiting there for a parent. Since
that parent may itself be older than the link, what is followed is a set of the sender's
blocks closed under this (`Following`): whoever buffers an orphan asks the sender for the parent,
which joins the set. `Caught` says that every live link has such a set with all of `Shared`
in it, each action keeps it (`FollowedStep`), and when nothing is under way only the last two
places are left.

`GossipQuietMeansAgreed` assumes `OneWorker`; with two it is false, for the reason
`node_stranded` shows. An orphan whose parent is stored is one the loops have yet to come to
(`OrphansWait`, which needs `Untold`: a block the miner has found and not yet stored is
nowhere else, and nothing is built on it). So the block of least height in a closed set
cannot be an orphan when all is quiet, its parent being either stored or lower and in the
set (`FollowedStored`): the whole set is stored. `Unbroken` adds that as long as nothing
broke and nobody restarted, every orphan's parent is in some such set.

`ServerProofs` holds for any connections, addresses, callers and capacity of the
channel. Its invariant looks at the signals under way: a connection is asked for or
accepted once (`RegistersOnce`, `AcceptedOnce`, `AskedOnce`), so that registering it cannot
revive an ended one; a `DroppedPeer` has an ended writer of that address behind it
(`DroppedEnded`), so that it takes no handle but of a connection whose address is not
its own. From it: `ServerTypeCorrect`, `ServerPeersHear`, `ServerDeadHandlesLeave`.

`TxFlowProofs` holds for any transactions and blocks of the peers and any block size.
That the miner alone takes transactions out, and has in `to_remove` exactly what it has
in the block until it is found (`InHand`), makes finding a block the abstract step and
each removal a stutter: `ImplementsMempool`, and `TxFlowTypeCorrect`.
`SignedAreIndependent` and `FreshBlocksPass` say of the generator's payments what `signed`
has kept of them: each spends one coin of the tip's state that is this node's own, no
two the same (`Payments`), and since what a payment makes goes to peers, it replaces no
own coin. So in whatever order a selection is replayed, each finds its input as it was
in the tip's state, and passes. They assume `IcoIsNoPayment`, that no payment hashes to the
all-zero name of the initial offering: an injective hash with no preimage found for zero.

`MerkleProofs` holds for vectors of any length. The levels exist, are shorter by half up
to the first of length one, and all below it are even (`Stacked`), so that a sibling is
always there. `EveryProofVerifies` climbs: after k siblings `verify` holds the hash that
the tree has at level k. `PositionsAreBound` descends: two hashes that combine to the same one were
the same on both sides, from the root down to the leaf, whatever the siblings are, if there are as many of
them as the tree has levels. `DataAreBound` descends level by level for two trees of one length.
`LevelsComputeReference` climbs again: a place of level k holds the recursive definition's
root of the block of 2^k data under it, the last block being a partial one and
the padded place a copy of the one before (`Covers`); the height of the tree is the least
with 2^height at least the number of data.

The proofs use the assumptions named in the modules, and nothing else. Only
model-checked: all liveness (`HandlersReturn`, `MinedBlocksAnnounced`, `ExitEndsBoth`,
`Spreads`, `ComesToRest`, `CallsReturn`, `FailedPeersLeave`: fairness is out of the prover's
reach).

## 5. Plan

The core came first: `Ledger`, `Blockchain`, `Node` with its proofs, `LongestChain`
above it; then `Gossip` on top of a node's handlers, `Readers` on top of its locks,
`TxFlow`, `Server` and `Merkle` beside it; then the miner's signals, the abstract mempool,
connections that break and nodes that restart, and the proofs about them: of every
invariant that a passing run checks. Left:

1. Restarts in `Server`: its state when the process on the other end comes back under
   the same address is covered by two connections with one address, that of this
   node's own restart is not.

## 6. Not modelled

Byte-level hashing, signing and serialization, argument parsing, HTTP and JSON.
That the Merkle root in a received header matches its transactions is not checked
by the code, so a hash covers the content by assumption. Transactions are those an
honest node signs: at most 256 outputs, some input and none twice, outputs that do not
wrap (`PlainTx`).
`State::update` and `tx_exist_check` are never called, `SendToPeer` is never sent (its arm
is `unimplemented!()`), and the generator's Update and Exit have nobody who could send
them. The sums of `check_tx_state` wrap in the model as in the code, but the blocks that
are checked carry small values only.
