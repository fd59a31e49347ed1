------------------------------- MODULE TxFlow -------------------------------
(***************************************************************************)
(* The life of a transaction on one node: the generator signs it and puts  *)
(* it in the mempool, the miner copies it into a block and takes it out of *)
(* the mempool when the block is found, the miner worker checks and stores *)
(* the block; peers' transactions and requests reach the same mempool.     *)
(*                                                                         *)
(* Blocks are records here, since what they carry is decided on the way;   *)
(* one is checked and inserted in one step, as module Node justifies, and  *)
(* a block is known by its place in the tree.                              *)
(***************************************************************************)
EXTENDS Ledger

CONSTANTS
  SelfAddr,      \* this node's address
  PeerAddrs,     \* the pair of its peers' addresses
  PeerContents,  \* what blocks of peers may carry, sequences of transactions
  PeerTxs,       \* what peers may send in Transactions messages
  BlockSize,     \* transactions in one block (50 in miner_loop)
  MaxBlocks      \* bound of the model: blocks in the tree

ASSUME TxFlowAssumption ==
  /\ SelfAddr \notin {PeerAddrs[1], PeerAddrs[2]}
  /\ BlockSize \in Nat \ {0}
  /\ MaxBlocks \in Nat
  /\ \A t \in PeerTxs : TypedTx(t)
  /\ \A txs \in PeerContents : AllTyped(txs)

VARIABLES
  tree,          \* the blocks stored, [parent, height, st, states], genesis first
  tip,           \* the place of the tip in it
  mempool,       \* Mempool::trans
  poisoned,      \* a thread has panicked with the mempool locked
  \* the generator
  gen_pc, prev_tip, state,
  signed,        \* history: what it signed since it took the tip's state
  \* the miner
  miner_pc, transaction, to_remove, parent,
  finished,      \* finished_block_chan
  sent,          \* history: the transactions of the blocks it sent
  \* a network worker serving GetTransactions
  looked_up      \* the transaction contains_key() has found, if any

chainVars == <<tree, tip>>
genVars   == <<gen_pc, prev_tip, state, signed>>
minerVars == <<miner_pc, transaction, to_remove, parent, finished, sent>>
vars == <<chainVars, mempool, poisoned, genVars, minerVars, looked_up>>

TypeOK ==
  /\ tip \in DOMAIN tree
  /\ prev_tip \in DOMAIN tree
  /\ parent \in DOMAIN tree
  /\ \A i \in DOMAIN tree : tree[i].parent \in 0 .. i - 1
  /\ poisoned \in BOOLEAN
  /\ gen_pc \in {"paused", "tip", "sign"}
  /\ miner_pc \in {"header", "hash", "remove"}
  /\ Len(transaction) <= BlockSize
  /\ Cardinality(looked_up) <= 1
  /\ \A i \in DOMAIN finished : finished[i].parent \in DOMAIN tree

Init ==
  /\ tree = <<[parent |-> 0, height |-> 0, st |-> <<>>, states |-> InitialState]>>
  /\ tip = 1
  /\ mempool = {}
  /\ poisoned = FALSE
  /\ gen_pc = "paused"
  /\ prev_tip = 1
  /\ state = InitialState
  /\ signed = <<>>
  /\ miner_pc = "header"
  /\ transaction = <<>>
  /\ to_remove = {}
  /\ parent = 1
  /\ finished = <<>>
  /\ sent = {}
  /\ looked_up = {}

(* The check of a block on its parent's state, and its insertion.          *)
Accepts(p, txs) == Replay(tree[p].states, txs).ok

Store(p, txs) ==
  /\ tree' = Append(tree, [parent |-> p, height |-> tree[p].height + 1, st |-> txs,
                           states |-> Replay(tree[p].states, txs).states])
  /\ tip' = IF tree[p].height + 1 > tree[tip].height THEN Len(tree) + 1 ELSE tip

-----------------------------------------------------------------------------
(* The generator waits for the start request of the API; nobody sends it   *)
(* Update or Exit, and another Start changes no more than its pace.        *)
StartGenerator ==
  /\ gen_pc = "paused"
  /\ gen_pc' = "tip"
  /\ UNCHANGED <<chainVars, mempool, poisoned, prev_tip, state, signed, minerVars,
                 looked_up>>

(* The generator's loop.  A tip other than the last one replaces the       *)
(* private state by a copy of the tip's, which never changes once it is    *)
(* there (StatesReplay of module Node).                                    *)
ReadTip ==
  /\ gen_pc = "tip"
  /\ gen_pc' = "sign"
  /\ IF tip = prev_tip
       THEN UNCHANGED <<prev_tip, state, signed>>
       ELSE prev_tip' = tip /\ state' = tree[tip].states /\ signed' = <<>>
  /\ UNCHANGED <<chainVars, mempool, poisoned, minerVars, looked_up>>

(* get_tx_balance takes the first own entry of the private state; the      *)
(* payment goes to the mempool, and the private state is carried on.       *)
OwnCoins == {o \in DOMAIN state : state[o].recipient = SelfAddr}

PaymentOf(o) == SignedPayment(SelfAddr, <<o>>, state[o].value, PeerAddrs)

SignKeepingInput(o) ==   \* mutant of the next: the input stays in the state
  /\ mempool' = mempool \cup {PaymentOf(o)}
  /\ signed' = Append(signed, PaymentOf(o))
  /\ state' = [k \in {o} |-> state[o]] @@ TxApplied(state, PaymentOf(o))

Pay(o) ==
  /\ mempool' = mempool \cup {PaymentOf(o)}
  /\ signed' = Append(signed, PaymentOf(o))
  /\ state' = TxApplied(state, PaymentOf(o))

Sign ==
  /\ ~ poisoned
  /\ gen_pc = "sign"
  /\ gen_pc' = "tip"
  /\ \E o \in OwnCoins : state[o].value > 0 /\ Pay(o)
  /\ UNCHANGED <<chainVars, poisoned, prev_tip, minerVars, looked_up>>

NothingToSpend ==
  /\ gen_pc = "sign"
  /\ gen_pc' = "tip"
  /\ \A o \in OwnCoins : state[o].value = 0
  /\ UNCHANGED <<chainVars, mempool, poisoned, prev_tip, state, signed, minerVars,
                 looked_up>>

-----------------------------------------------------------------------------
(* The miner's loop.  With nothing in hand it copies up to BlockSize       *)
(* entries of the mempool, in the order of the hash map; then it reads the *)
(* tip for the header.                                                     *)
Picks(n) == {s \in SetToAllKPermutations(mempool) : Len(s) = n}

PickSize == IF Cardinality(mempool) < BlockSize THEN Cardinality(mempool) ELSE BlockSize

PickAll ==   \* mutant of the next: no block size
  /\ \E s \in Picks(Cardinality(mempool)) : transaction' = s /\ to_remove' = ToSet(s)

PickOneMore ==   \* mutant of the next: the size is checked between the pushes
  /\ \E s \in Picks(PickSize) :
       /\ transaction' = s
       /\ \E more \in SUBSET (mempool \ ToSet(s)) :
            /\ Cardinality(more) = IF mempool = ToSet(s) THEN 0 ELSE 1
            /\ to_remove' = ToSet(s) \cup more

Pick ==
  /\ \E s \in Picks(PickSize) : transaction' = s /\ to_remove' = ToSet(s)

MakeHeaderPushing ==   \* mutant of the next: pushes to what it has in hand
  /\ miner_pc = "header"
  /\ \E s \in Picks(PickSize) : transaction' = transaction \o s /\ to_remove' = to_remove \cup ToSet(s)
  /\ parent' = tip
  /\ miner_pc' = "hash"
  /\ UNCHANGED <<chainVars, mempool, poisoned, genVars, finished, sent, looked_up>>

MakeHeader ==
  /\ miner_pc = "header"
  /\ to_remove = {} => ~ poisoned
  /\ IF to_remove = {} THEN Pick ELSE UNCHANGED <<transaction, to_remove>>
  /\ parent' = tip
  /\ miner_pc' = "hash"
  /\ UNCHANGED <<chainVars, mempool, poisoned, genVars, finished, sent, looked_up>>

(* Most nonces fail, and the loop starts again with what it has in hand.   *)
NonceFails ==
  /\ miner_pc = "hash"
  /\ miner_pc' = "header"
  /\ UNCHANGED <<chainVars, mempool, poisoned, genVars, transaction, to_remove, parent,
                 finished, sent, looked_up>>

BlockFound ==
  /\ miner_pc = "hash"
  /\ Len(tree) + Len(finished) < MaxBlocks
  /\ finished' = Append(finished, [parent |-> parent, st |-> transaction])
  /\ sent' = sent \cup ToSet(transaction)
  /\ miner_pc' = "remove"
  /\ UNCHANGED <<chainVars, mempool, poisoned, genVars, transaction, to_remove, parent,
                 looked_up>>

(* Every transaction is removed under a lock of its own.                   *)
RemoveOne ==
  /\ ~ poisoned
  /\ miner_pc = "remove"
  /\ \E t \in to_remove : mempool' = mempool \ {t} /\ to_remove' = to_remove \ {t}
  /\ UNCHANGED <<chainVars, poisoned, genVars, miner_pc, transaction, parent, finished,
                 sent, looked_up>>

Removed ==
  /\ miner_pc = "remove"
  /\ to_remove = {}
  /\ transaction' = <<>>
  /\ miner_pc' = "header"
  /\ UNCHANGED <<chainVars, mempool, poisoned, genVars, to_remove, parent, finished,
                 sent, looked_up>>

(* The miner worker stores a finished block or drops it.                   *)
StoreFinished ==
  /\ finished # <<>>
  /\ finished' = Tail(finished)
  /\ LET b == Head(finished)
     IN  IF Accepts(b.parent, b.st) THEN Store(b.parent, b.st) ELSE UNCHANGED chainVars
  /\ UNCHANGED <<mempool, poisoned, genVars, miner_pc, transaction, to_remove, parent,
                 sent, looked_up>>

-----------------------------------------------------------------------------
(* The peers, through the network workers: a block on any block, with      *)
(* transactions other than this node's; Transactions messages, of which    *)
(* those with a good signature are kept; GetTransactions.                  *)
ReceiveBlock(p, txs) ==
  /\ Len(tree) + Len(finished) < MaxBlocks
  /\ Accepts(p, txs)
  /\ Store(p, txs)
  /\ UNCHANGED <<mempool, poisoned, genVars, minerVars, looked_up>>

ReceiveTransaction(t) ==
  /\ ~ poisoned
  /\ t.verified
  /\ mempool' = mempool \cup {t}
  /\ UNCHANGED <<chainVars, poisoned, genVars, minerVars, looked_up>>

(* contains_key under one lock, get().unwrap() under the next.             *)
ContainsKey(t) ==
  /\ ~ poisoned
  /\ looked_up = {}
  /\ t \in mempool
  /\ looked_up' = {t}
  /\ UNCHANGED <<chainVars, mempool, poisoned, genVars, minerVars>>

GetUnwrap ==
  /\ ~ poisoned
  /\ looked_up # {}
  /\ looked_up' = {}
  /\ poisoned' = ~ (looked_up \subseteq mempool)
  /\ UNCHANGED <<chainVars, mempool, genVars, minerVars>>

-----------------------------------------------------------------------------
Next ==
  \/ StartGenerator
  \/ ReadTip
  \/ Sign
  \/ NothingToSpend
  \/ MakeHeader
  \/ NonceFails
  \/ BlockFound
  \/ RemoveOne
  \/ Removed
  \/ StoreFinished
  \/ \E p \in DOMAIN tree, txs \in PeerContents : ReceiveBlock(p, txs)
  \/ \E t \in PeerTxs : ReceiveTransaction(t)
  \/ \E t \in mempool : ContainsKey(t)
  \/ GetUnwrap

Spec == Init /\ [][Next]_vars

-----------------------------------------------------------------------------
(* The miner takes transactions in the order of a hash map and as many as  *)
(* fit.  What the generator has signed since it took over the tip's state  *)
(* makes a valid block on that tip whichever are taken, in whatever order: *)
(* its private state has been carried on as check_tx_state would, and no   *)
(* payment spends what another one made.                                   *)
PendingValidInAnyOrder ==
  /\ \A s \in SetToAllKPermutations(ToSet(signed)) : Accepts(prev_tip, s)
  /\ state = Replay(tree[prev_tip].states, signed).states

(* The abstraction: once the block is found its transactions are no longer *)
(* pending, also those the miner has yet to remove and those it got long   *)
(* before; and nothing else ever leaves.                                   *)
Pending == IF miner_pc = "remove" THEN mempool \ to_remove ELSE mempool

AbstractMempool == INSTANCE Mempool WITH pending <- Pending, mined <- sent

RefinesMempool == AbstractMempool!Spec

(* A block this node finds on the generator's current tip, out of what the *)
(* generator signed for that tip, is not refused.                          *)
FreshBlocksStored ==
  \A i \in DOMAIN finished :
    (finished[i].parent = prev_tip /\ ToSet(finished[i].st) \subseteq ToSet(signed))
      => Accepts(finished[i].parent, finished[i].st)

(* No payment hashes to the all-zero name of the ICO.                      *)
IcoIsNoPayment ==
  \A o, balance : SignedPayment(SelfAddr, <<o>>, balance, PeerAddrs) # IcoHash

(* network/worker.rs:393-399 unwraps what contains_key() has just found.   *)
NeverPoisoned == ~ poisoned
=============================================================================
