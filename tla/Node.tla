-------------------------------- MODULE Node --------------------------------
(***************************************************************************)
(* One node's block pipeline: the network workers (network/worker.rs), the *)
(* miner thread (miner/mod.rs) and the miner worker (miner/worker.rs),     *)
(* which share the Blockchain and the per-block ledger states, each behind *)
(* a mutex of its own.                                                     *)
(*                                                                         *)
(* A thread's action goes from one lock acquisition to just before the     *)
(* next, so every interleaving of the critical sections is a behaviour.    *)
(* Peers are the environment: a worker takes any message of Deliveries     *)
(* whenever it is at recv().                                               *)
(***************************************************************************)
EXTENDS Ledger, Blockchain

CONSTANTS
  Worker,        \* the network worker threads (p2p_workers in main.rs)
  MinerWorker,   \* the miner worker thread
  OwnBlocks,     \* the blocks this node's miner may find; peers find the rest
  Deliveries,    \* the payloads of Blocks messages, sequences over Hash
  None,          \* no block in hand, no state in hand
  MaxOrphans     \* bound of the model: orphans one buffer may hold

ASSUME NodeAssumption ==
  /\ MinerWorker \notin Worker
  /\ OwnBlocks \subseteq Hash
  /\ Deliveries \subseteq Seq(Hash)
  /\ None \notin Hash
  /\ MaxOrphans \in Nat

Thread == Worker \cup {MinerWorker}

VARIABLES
  \* shared by the threads
  blocks,          \* Blockchain::blocks, from hashes to heights
  tip,             \* Blockchain::tip
  block_state,     \* the states after the blocks, from hashes
  finished,        \* finished_block_chan, the miner's queue to its worker
  miner_tip,       \* the tip the miner read for the header it is hashing
  \* a worker's own
  orphan_blocks,   \* its OrphanBuffer
  \* a thread's position and locals
  pc,
  todo,            \* the blocks of the message still to be looked at
  new_blocks,      \* the hashes inserted while handling it
  n,               \* how many of new_blocks have had their orphans released
  block,           \* the block in hand
  state,           \* the state computed for it
  \* history
  mined,           \* the blocks the miner has found
  announced        \* the hashes given to server.broadcast

chainVars  == <<blocks, tip>>
localVars  == <<todo, new_blocks, n>>
vars == <<blocks, tip, block_state, finished, miner_tip, orphan_blocks, pc,
          todo, new_blocks, n, block, state, mined, announced>>

TypeOK ==
  /\ Genesis \in DOMAIN blocks
  /\ DOMAIN blocks \subseteq Hash \cup {Genesis}
  /\ blocks = [h \in DOMAIN blocks |-> blocks[h]]
  /\ \A h \in DOMAIN blocks : blocks[h] \in Nat
  /\ tip \in DOMAIN blocks
  /\ DOMAIN block_state \subseteq Hash \cup {Genesis}
  /\ block_state = [h \in DOMAIN block_state |-> block_state[h]]
  /\ finished \in Seq(OwnBlocks)
  /\ miner_tip \in DOMAIN blocks
  /\ orphan_blocks \in [Worker -> Seq(Hash)]
  /\ pc \in [Thread -> {"recv", "block", "parent", "check", "put", "insert",
                        "release"}]
  /\ todo \in [Thread -> Seq(Hash)]
  /\ new_blocks \in [Thread -> Seq(Hash)]
  /\ n \in [Thread -> Nat]
  /\ \A t \in Thread : n[t] <= Len(new_blocks[t])
  /\ block \in [Thread -> Hash \cup {None}]
  /\ state = [t \in Thread |-> state[t]]
  /\ mined \subseteq OwnBlocks
  /\ announced \subseteq Hash

Init ==
  /\ blocks = NewBlocks
  /\ tip = Genesis
  /\ block_state = [h \in {Genesis} |-> InitialState]
  /\ finished = <<>>
  /\ miner_tip = Genesis
  /\ orphan_blocks = [w \in Worker |-> <<>>]
  /\ pc = [t \in Thread |-> "recv"]
  /\ todo = [t \in Thread |-> <<>>]
  /\ new_blocks = [t \in Thread |-> <<>>]
  /\ n = [t \in Thread |-> 0]
  /\ block = [t \in Thread |-> None]
  /\ state = [t \in Thread |-> None]
  /\ mined = {}
  /\ announced = {}

Goto(t, label) == pc' = [pc EXCEPT ![t] = label]
Take(t, b)     == block' = [block EXCEPT ![t] = b]

-----------------------------------------------------------------------------
(* The miner puts the tip it reads in a header; a nonce that meets the     *)
(* difficulty sends the block into the unbounded channel, whatever the tip *)
(* has become by then.                                                     *)
ReadTip ==
  /\ miner_tip # tip
  /\ miner_tip' = tip
  /\ UNCHANGED <<chainVars, block_state, finished, orphan_blocks, pc, localVars,
                 block, state, mined, announced>>

Mine(b) ==
  /\ b \in OwnBlocks \ mined
  /\ Parent(b) = miner_tip
  /\ Difficulty(b) = MiningDifficulty
  /\ MeetsPow(b)
  /\ finished' = Append(finished, b)
  /\ mined' = mined \cup {b}
  /\ UNCHANGED <<chainVars, block_state, miner_tip, orphan_blocks, pc, localVars,
                 block, state, announced>>

(* The miner worker takes the next finished block.                         *)
RecvFinished ==
  /\ pc[MinerWorker] = "recv"
  /\ finished # <<>>
  /\ finished' = Tail(finished)
  /\ Take(MinerWorker, Head(finished))
  /\ Goto(MinerWorker, "check")
  /\ UNCHANGED <<chainVars, block_state, miner_tip, orphan_blocks,
                 localVars, state, mined, announced>>

(* A worker receives Message::Blocks.  No peer holds a block of this       *)
(* node's miner, or builds on one, before it is announced.                 *)
Published(b) == {b, Parent(b)} \cap OwnBlocks \subseteq announced

RecvBlocks(w, bs) ==
  /\ pc[w] = "recv"
  /\ \A b \in ToSet(bs) : Published(b)
  /\ Len(orphan_blocks[w]) + Len(bs) <= MaxOrphans
  /\ todo' = [todo EXCEPT ![w] = bs]
  /\ Goto(w, "block")
  /\ UNCHANGED <<chainVars, block_state, finished, miner_tip, orphan_blocks,
                 new_blocks, n, block, state, mined, announced>>

(* The proof-of-work check and the look-up of the block's hash: a block    *)
(* that fails or is held already is skipped.                               *)
Wanted(b) == MeetsPow(b) /\ b \notin DOMAIN blocks

NextBlock(w) ==
  /\ pc[w] = "block"
  /\ todo[w] # <<>>
  /\ todo' = [todo EXCEPT ![w] = Tail(@)]
  /\ IF Wanted(Head(todo[w]))
     THEN Take(w, Head(todo[w])) /\ Goto(w, "parent")
     ELSE UNCHANGED <<miner_tip, pc, block>>
  /\ UNCHANGED <<chainVars, block_state, finished, miner_tip, orphan_blocks,
                 new_blocks, n, state, mined, announced>>

(* The parent check.  A block without its parent goes to the end of this   *)
(* worker's orphan buffer (and the parent is requested from the peer).     *)
ParentKnown(w) ==
  /\ pc[w] = "parent"
  /\ Parent(block[w]) \in DOMAIN blocks
  /\ Goto(w, "check")
  /\ UNCHANGED <<chainVars, block_state, finished, miner_tip, orphan_blocks,
                 localVars, block, state, mined, announced>>

ParentMissing(w) ==
  /\ pc[w] = "parent"
  /\ Parent(block[w]) \notin DOMAIN blocks
  /\ orphan_blocks' = [orphan_blocks EXCEPT ![w] = Append(@, block[w])]
  /\ Take(w, None)
  /\ Goto(w, "block")
  /\ UNCHANGED <<chainVars, block_state, finished, miner_tip, localVars,
                 state, mined, announced>>

-----------------------------------------------------------------------------
(* From here a thread holds a block whose parent is in the chain.  Network *)
(* workers compare the difficulties, the miner worker does not.            *)
DifficultyIgnored(t) == TRUE   \* mutant of the next

DifficultyMatches(t) ==
  t = MinerWorker \/ Difficulty(block[t]) = Difficulty(Parent(block[t]))

StateAtTip(b) == block_state[tip]   \* mutant of the next

StateBefore(b) == block_state[Parent(b)]

(* Where a thread goes with the block in hand dealt with.                  *)
AfterBlock(t) == IF t = MinerWorker THEN "block" ELSE "release"

(* check_tx_state up to its last lock: clone the parent's state and replay *)
(* the transactions on it.  Difficulties and stored states never change,   *)
(* so both look-ups are one step.                                          *)
CheckWithoutPut(t) ==   \* mutant of CheckPasses: the state is not stored
  /\ pc[t] = "check"
  /\ DifficultyMatches(t)
  /\ Replay(StateBefore(block[t]), Txs(block[t])).ok
  /\ Goto(t, "insert")
  /\ UNCHANGED <<chainVars, block_state, finished, miner_tip, orphan_blocks,
                 localVars, block, state, mined, announced>>

CheckPasses(t) ==
  /\ pc[t] = "check"
  /\ DifficultyMatches(t)
  /\ LET result == Replay(StateBefore(block[t]), Txs(block[t]))
     IN  /\ result.ok
         /\ state' = [state EXCEPT ![t] = result.states]
  /\ Goto(t, "put")
  /\ UNCHANGED <<chainVars, block_state, finished, miner_tip, orphan_blocks,
                 localVars, block, mined, announced>>

CheckFailsAnnounced(t) ==   \* mutant of CheckFails: push outside the if
  /\ pc[t] = "check"
  /\ DifficultyMatches(t) => ~ Replay(StateBefore(block[t]), Txs(block[t])).ok
  /\ new_blocks' = [new_blocks EXCEPT ![t] = Append(@, block[t])]
  /\ Take(t, None)
  /\ Goto(t, AfterBlock(t))
  /\ UNCHANGED <<chainVars, block_state, finished, miner_tip, orphan_blocks,
                 todo, n, state, mined, announced>>

CheckFails(t) ==
  /\ pc[t] = "check"
  /\ DifficultyMatches(t) => ~ Replay(StateBefore(block[t]), Txs(block[t])).ok
  /\ Take(t, None)
  /\ Goto(t, AfterBlock(t))
  /\ UNCHANGED <<chainVars, block_state, finished, miner_tip, orphan_blocks,
                 localVars, state, mined, announced>>

(* The end of check_tx_state: the state is stored under the block's hash,  *)
(* before the block is in the chain.                                       *)
PutState(t) ==
  /\ pc[t] = "put"
  /\ block_state' = [h \in DOMAIN block_state \cup {block[t]} |->
                       IF h = block[t] THEN state[t] ELSE block_state[h]]
  /\ state' = [state EXCEPT ![t] = None]
  /\ Goto(t, "insert")
  /\ UNCHANGED <<chainVars, finished, miner_tip, orphan_blocks, localVars,
                 block, mined, announced>>

(* Blockchain::insert under its lock, and new_blocks.push.                 *)
InsertPushingTips(t) ==   \* mutant of InsertBlock: only a new tip is pushed
  /\ pc[t] = "insert"
  /\ blocks' = BlocksWith(blocks, block[t])
  /\ tip' = TipWith(blocks, tip, block[t])
  /\ new_blocks' = IF tip' = tip THEN new_blocks
                   ELSE [new_blocks EXCEPT ![t] = Append(@, block[t])]
  /\ Take(t, None)
  /\ Goto(t, AfterBlock(t))
  /\ UNCHANGED <<block_state, finished, miner_tip, orphan_blocks, todo, n,
                 state, mined, announced>>

InsertBlock(t) ==
  /\ pc[t] = "insert"
  /\ blocks' = BlocksWith(blocks, block[t])
  /\ tip' = TipWith(blocks, tip, block[t])
  /\ new_blocks' = [new_blocks EXCEPT ![t] = Append(@, block[t])]
  /\ Take(t, None)
  /\ Goto(t, AfterBlock(t))
  /\ UNCHANGED <<block_state, finished, miner_tip, orphan_blocks, todo, n,
                 state, mined, announced>>

-----------------------------------------------------------------------------
(* The orphan loops.  For new_blocks[n] the buffer is scanned from the     *)
(* front and every orphan whose parent it is is taken out and checked like *)
(* a new block; if it is inserted it is appended to new_blocks itself.     *)
Releasable(w) ==
  {k \in DOMAIN orphan_blocks[w] :
     Parent(orphan_blocks[w][k]) = new_blocks[w][n[w] + 1]}

ReleaseOrphan(w) ==
  /\ pc[w] = "release"
  /\ n[w] < Len(new_blocks[w])
  /\ \E k \in Releasable(w) :
       /\ \A j \in Releasable(w) : k <= j
       /\ Take(w, orphan_blocks[w][k])
       /\ orphan_blocks' = [orphan_blocks EXCEPT ![w] = RemoveAt(@, k)]
  /\ Goto(w, "check")
  /\ UNCHANGED <<chainVars, block_state, finished, miner_tip, localVars,
                 state, mined, announced>>

ReleaseOneLevel(w) ==   \* mutant of NextNewBlock: not iterative
  /\ pc[w] = "release"
  /\ n[w] < Len(new_blocks[w])
  /\ Releasable(w) = {}
  /\ n' = [n EXCEPT ![w] = Len(new_blocks[w])]
  /\ UNCHANGED <<chainVars, block_state, finished, miner_tip, orphan_blocks,
                 pc, todo, new_blocks, block, state, mined, announced>>

ReleaseForever(w) ==   \* mutant of NextNewBlock: n is not incremented
  /\ pc[w] = "release"
  /\ n[w] < Len(new_blocks[w])
  /\ Releasable(w) = {}
  /\ UNCHANGED vars

NextNewBlock(w) ==
  /\ pc[w] = "release"
  /\ n[w] < Len(new_blocks[w])
  /\ Releasable(w) = {}
  /\ n' = [n EXCEPT ![w] = @ + 1]
  /\ UNCHANGED <<chainVars, block_state, finished, miner_tip, orphan_blocks,
                 pc, todo, new_blocks, block, state, mined, announced>>

ReleaseDone(w) ==
  /\ pc[w] = "release"
  /\ n[w] >= Len(new_blocks[w])
  /\ Goto(w, "block")
  /\ UNCHANGED <<chainVars, block_state, finished, miner_tip, orphan_blocks,
                 localVars, block, state, mined, announced>>

(* The message, or the finished block, is dealt with: what was inserted is *)
(* broadcast in one NewBlockHashes, if anything was.                       *)
FinishKeepingN(t) ==   \* mutant of Finish: n lives on
  /\ pc[t] = "block"
  /\ todo[t] = <<>>
  /\ announced' = announced \cup ToSet(new_blocks[t])
  /\ new_blocks' = [new_blocks EXCEPT ![t] = <<>>]
  /\ Goto(t, "recv")
  /\ UNCHANGED <<chainVars, block_state, finished, miner_tip, orphan_blocks,
                 todo, n, block, state, mined>>

Finish(t) ==
  /\ pc[t] = "block"
  /\ todo[t] = <<>>
  /\ announced' = announced \cup ToSet(new_blocks[t])
  /\ new_blocks' = [new_blocks EXCEPT ![t] = <<>>]
  /\ n' = [n EXCEPT ![t] = 0]
  /\ Goto(t, "recv")
  /\ UNCHANGED <<chainVars, block_state, finished, miner_tip, orphan_blocks,
                 todo, block, state, mined>>

-----------------------------------------------------------------------------
CheckAndStore(t) ==
  \/ CheckPasses(t)
  \/ CheckFails(t)
  \/ PutState(t)
  \/ InsertBlock(t)
  \/ Finish(t)

(* What a worker does on its own once it has a message.                    *)
WorkerStep(w) ==
  \/ NextBlock(w)
  \/ ParentKnown(w)
  \/ ParentMissing(w)
  \/ CheckAndStore(w)
  \/ ReleaseOrphan(w)
  \/ NextNewBlock(w)
  \/ ReleaseDone(w)

MinerWorkerStep ==
  \/ RecvFinished
  \/ CheckAndStore(MinerWorker)

Next ==
  \/ ReadTip
  \/ \E b \in Hash : Mine(b)
  \/ \E w \in Worker, bs \in Deliveries : RecvBlocks(w, bs)
  \/ \E w \in Worker : WorkerStep(w)
  \/ MinerWorkerStep

Spec == Init /\ [][Next]_vars
-----------------------------------------------------------------------------
(* Every block of the chain but the genesis has its parent in the chain,   *)
(* one below it, under whatever interleaving of the inserting threads:     *)
(* the unwrap chains of all_blocks_in_longest_chain, of the API's walks    *)
(* and of insert itself rest on it.                                        *)
ChainHangsTogether ==
  /\ blocks[Genesis] = 0
  /\ \A h \in DOMAIN blocks \ {Genesis} :
       /\ Parent(h) \in DOMAIN blocks
       /\ blocks[h] = blocks[Parent(h)] + 1

(* The longest-chain rule of insert survives concurrent insertions.        *)
TipIsLongest == \A h \in DOMAIN blocks : blocks[h] <= blocks[tip]

(* No unwrap() can panic with a mutex held, which would poison it: every   *)
(* block of the chain has its state (block_state.get(parent).unwrap() in   *)
(* check_tx_state, the generator's get(&tip).unwrap()), and a thread about *)
(* to look up a parent finds it.                                           *)
UnwrapsSucceed ==
  /\ DOMAIN blocks \subseteq DOMAIN block_state
  /\ \A t \in Thread :
       pc[t] \in {"check", "put", "insert"} => Parent(block[t]) \in DOMAIN blocks

(* The state stored for a block is its parent's stored state with the      *)
(* block's transactions replayed, though it was computed from a clone and  *)
(* put back under another lock, maybe twice.                               *)
StatesReplay ==
  \A h \in DOMAIN block_state \ {Genesis} :
    /\ Parent(h) \in DOMAIN block_state
    /\ Replay(block_state[Parent(h)], Txs(h)).ok
    /\ block_state[h] = Replay(block_state[Parent(h)], Txs(h)).states

(* A node announces only hashes it can serve: a peer's GetBlocks for them  *)
(* gets no answer at all if one of them is missing.                        *)
AnnouncedAreStored == announced \subseteq DOMAIN blocks

(* No branch spends an outpoint twice, whichever blocks were released out  *)
(* of order and however often a block was inserted.                        *)
Spends(b) == UNION {{<<k, j>> : j \in DOMAIN Txs(b)[k].input} : k \in DOMAIN Txs(b)}

NoDoubleSpend ==
  \A h \in DOMAIN blocks :
    LET path   == PathTo(blocks, h)
        spends == UNION {{<<i>> \o s : s \in Spends(path[i])} : i \in 2 .. Len(path)}
        Spent(s) == Txs(path[s[1]])[s[2]].input[s[3]]
    IN  \A r, s \in spends : Spent(r) = Spent(s) => r = s

(* No coin is minted: whatever blocks a peer sends, no stored state holds  *)
(* more than the initial offering.                                         *)
NoCoinsMinted == \A h \in DOMAIN block_state : Coins(block_state[h]) <= IcoValue

(* Blocks of the transactions that honest nodes sign: the two properties   *)
(* above need it, for check_tx_state accepts an input named twice in one   *)
(* transaction and outputs whose sum wraps.                                *)
PlainBlocks == \A h \in Hash : AllPlain(Txs(h))

(* The tip moves only to a strictly longer branch: at equal heights the    *)
(* block seen first stays, also when a block is inserted twice.            *)
TipMovesUp == [][tip' # tip => blocks'[tip'] > blocks[tip]]_vars

(* The abstraction: chain and states as one atomically growing tree.  A    *)
(* state put before its block is in the chain is not part of it yet.       *)
Abstract == INSTANCE LongestChain
              WITH ledger <- [h \in DOMAIN blocks |-> block_state[h]]

RefinesLongestChain == Abstract!Spec

(* README "Orphan block handler": a processed block releases the orphans   *)
(* that wait for it.  When no thread is busy, no orphan has its parent in  *)
(* the chain.                                                              *)
NoStrandedOrphan ==
  (\A t \in Thread : pc[t] = "recv") =>
    \A w \in Worker : \A b \in ToSet(orphan_blocks[w]) :
      Parent(b) \notin DOMAIN blocks

(* A block the miner found is announced unless its transactions fail on    *)
(* the state of its parent.                                                *)
MinedBlocksAnnounced ==
  \A b \in OwnBlocks :
    (b \in mined /\ Replay(StateBefore(b), Txs(b)).ok) ~> (b \in announced)

(* Every handler comes back to recv(): the orphan loops, whose bound       *)
(* new_blocks grows while they run, terminate.                             *)
HandlersReturn ==
  \A t \in Thread : (pc[t] # "recv") ~> (pc[t] = "recv")
=============================================================================
