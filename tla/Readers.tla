------------------------------ MODULE Readers ------------------------------
(***************************************************************************)
(* The threads that read what module Node writes: the request threads of   *)
(* api/mod.rs and the generator of generator/tx_generator.rs.  Each takes  *)
(* the locks of chain and states anew for every look-up and unwraps what   *)
(* it finds, while the inserting threads go on.                            *)
(***************************************************************************)
EXTENDS Node

CONSTANTS
  Request,       \* the threads of the API, one per HTTP request under way
  BlockIndex     \* the indices asked of /blockchain/state

(* /blockchain/longest-chain-tx walks to the genesis, /blockchain/state to *)
(* the block of an index.                                                  *)
Query == [path : {"longest-chain-tx"}, floor : {0}]
           \cup [path : {"state"}, floor : BlockIndex]

ASSUME ReadersAssumption ==
  /\ BlockIndex \subseteq Nat
  /\ None \notin Query

VARIABLES
  query,       \* the request a thread serves, None between requests
  api_pc,      \* the lock it is about to take
  next_hash,   \* the block it has walked back to
  height,      \* the height read with the tip, counted down
  hashes,      \* the blocks passed, the tip first
  answer,      \* what it responds with
  gen_pc, prev_tip, gen_state,   \* the generator's loop and private state
  tips         \* history: the tips of the chain during the request

walkVars == <<query, api_pc, next_hash, height, hashes, answer>>
genVars  == <<gen_pc, prev_tip, gen_state>>
readersVars == <<vars, walkVars, genVars, tips>>

ReadersTypeOK ==
  /\ TypeOK
  /\ query \in [Request -> Query \cup {None}]
  /\ api_pc \in [Request -> {"idle", "tip", "get", "walk", "done"}]
  /\ next_hash \in [Request -> Hash \cup {Genesis, None}]
  /\ height \in [Request -> Nat]
  /\ hashes \in [Request -> Seq(Hash \cup {Genesis})]
  /\ answer = [r \in Request |-> answer[r]]
  /\ gen_pc \in {"tip", "state"}
  /\ prev_tip \in Hash \cup {Genesis}
  /\ tips \in [Request -> SUBSET (Hash \cup {Genesis})]

ReadersInit ==
  /\ Init
  /\ query = [r \in Request |-> None]
  /\ api_pc = [r \in Request |-> "idle"]
  /\ next_hash = [r \in Request |-> None]
  /\ height = [r \in Request |-> 0]
  /\ hashes = [r \in Request |-> <<>>]
  /\ answer = [r \in Request |-> None]
  /\ gen_pc = "tip"
  /\ prev_tip = Genesis
  /\ gen_state = InitialState
  /\ tips = [r \in Request |-> {}]

-----------------------------------------------------------------------------
(* A request thread.                                                       *)
Receive(r, q) ==
  /\ api_pc[r] = "idle"
  /\ query' = [query EXCEPT ![r] = q]
  /\ api_pc' = [api_pc EXCEPT ![r] = "tip"]
  /\ tips' = [tips EXCEPT ![r] = {tip}]
  /\ UNCHANGED <<vars, next_hash, height, hashes, answer, genVars>>

ApiReadTip(r) ==
  /\ api_pc[r] = "tip"
  /\ next_hash' = [next_hash EXCEPT ![r] = tip]
  /\ api_pc' = [api_pc EXCEPT ![r] = "get"]
  /\ UNCHANGED <<vars, query, height, hashes, answer, genVars, tips>>

(* The tip's block and height, under the next lock.                        *)
ApiGetTip(r) ==
  /\ api_pc[r] = "get"
  /\ height' = [height EXCEPT ![r] = blocks[next_hash[r]]]
  /\ hashes' = [hashes EXCEPT ![r] = <<next_hash[r]>>]
  /\ api_pc' = [api_pc EXCEPT ![r] = "walk"]
  /\ UNCHANGED <<vars, query, next_hash, answer, genVars, tips>>

WalkUncounted(r) ==   \* mutant of the next: the height is not counted down
  /\ api_pc[r] = "walk"
  /\ height[r] > query[r].floor
  /\ next_hash' = [next_hash EXCEPT ![r] = Parent(@)]
  /\ hashes' = [hashes EXCEPT ![r] = Append(@, Parent(next_hash[r]))]
  /\ UNCHANGED <<vars, query, api_pc, height, answer, genVars, tips>>

(* One turn of the while loop: the parent of the block in hand.            *)
WalkBack(r) ==
  /\ api_pc[r] = "walk"
  /\ height[r] > query[r].floor
  /\ next_hash' = [next_hash EXCEPT ![r] = Parent(@)]
  /\ hashes' = [hashes EXCEPT ![r] = Append(@, Parent(next_hash[r]))]
  /\ height' = [height EXCEPT ![r] = @ - 1]
  /\ UNCHANGED <<vars, query, api_pc, answer, genVars, tips>>

(* The walk ends at the floor: the blocks are put in order, or the state   *)
(* of the block reached is looked up.                                      *)
StateOfTip(r) == block_state[tip]   \* mutant of the next

StateReached(r) == block_state[next_hash[r]]

Respond(r) ==
  /\ api_pc[r] = "walk"
  /\ height[r] <= query[r].floor
  /\ answer' = [answer EXCEPT ![r] = IF query[r].path = "state" THEN StateReached(r)
                                     ELSE Reverse(hashes[r])]
  /\ api_pc' = [api_pc EXCEPT ![r] = "done"]
  /\ UNCHANGED <<vars, query, next_hash, height, hashes, genVars, tips>>

Done(r) ==
  /\ api_pc[r] = "done"
  /\ query' = [query EXCEPT ![r] = None]
  /\ api_pc' = [api_pc EXCEPT ![r] = "idle"]
  /\ next_hash' = [next_hash EXCEPT ![r] = None]
  /\ height' = [height EXCEPT ![r] = 0]
  /\ hashes' = [hashes EXCEPT ![r] = <<>>]
  /\ answer' = [answer EXCEPT ![r] = None]
  /\ tips' = [tips EXCEPT ![r] = {}]
  /\ UNCHANGED <<vars, genVars>>

-----------------------------------------------------------------------------
(* The generator compares the tip with the one it last saw, and takes a    *)
(* copy of the new tip's state under another lock.                         *)
GenReadTip ==
  /\ gen_pc = "tip"
  /\ tip # prev_tip
  /\ prev_tip' = tip
  /\ gen_pc' = "state"
  /\ UNCHANGED <<vars, walkVars, gen_state, tips>>

GenReadState ==
  /\ gen_pc = "state"
  /\ gen_state' = block_state[prev_tip]
  /\ gen_pc' = "tip"
  /\ UNCHANGED <<vars, walkVars, prev_tip, tips>>

-----------------------------------------------------------------------------
ApiStep(r) ==
  \/ \E q \in Query : Receive(r, q)
  \/ ApiReadTip(r)
  \/ ApiGetTip(r)
  \/ WalkBack(r)
  \/ Respond(r)
  \/ Done(r)

(* A step of the writers; the requests under way see what tip it leaves.   *)
WriterStep ==
  /\ Next
  /\ tips' = [r \in Request |-> IF query[r] = None THEN tips[r] ELSE tips[r] \cup {tip'}]
  /\ UNCHANGED <<walkVars, genVars>>

ReadersNext ==
  \/ WriterStep
  \/ \E r \in Request : ApiStep(r)
  \/ GenReadTip
  \/ GenReadState

ReadersSpec == ReadersInit /\ [][ReadersNext]_readersVars

-----------------------------------------------------------------------------
(* Every get().unwrap() of a reader finds what it looks for.  The readers  *)
(* hold the mutex while they unwrap: a failure would poison it for all.    *)
LookUpsSucceed ==
  /\ \A r \in Request :
       /\ api_pc[r] = "get" => next_hash[r] \in DOMAIN blocks
       /\ api_pc[r] = "walk" =>
            IF height[r] > query[r].floor
            THEN Parent(next_hash[r]) \in DOMAIN blocks
            ELSE next_hash[r] \in DOMAIN block_state
  /\ gen_pc = "state" => prev_tip \in DOMAIN block_state

(* The count of the walk agrees with the tree: it ends at the floor and    *)
(* never runs past the genesis.                                            *)
WalkKeepsHeight ==
  \A r \in Request :
    api_pc[r] = "walk" => /\ next_hash[r] \in DOMAIN blocks
                          /\ height[r] = blocks[next_hash[r]]

(* The answers are atomic reads: what a request returns was, as a whole,   *)
(* true of one longest chain at some moment between request and response,  *)
(* although tip, blocks and states are read under separate locks.  A state *)
(* is the replay of all the transactions below it; an index beyond the tip *)
(* gives the state at the tip.                                             *)
StateAlong(path, m) ==
  LET after[k \in 1 .. m] ==
        IF k = 1 THEN InitialState ELSE Replay(after[k - 1], Txs(path[k])).states
  IN  after[m]

AnswerAt(q, t) ==
  LET path == PathTo(blocks, t)
  IN  IF q.path = "longest-chain-tx" THEN path
      ELSE StateAlong(path, IF q.floor < Len(path) THEN q.floor + 1 ELSE Len(path))

AnswersWereTrue ==
  \A r \in Request :
    api_pc[r] = "done" => \E t \in tips[r] : answer[r] = AnswerAt(query[r], t)
=============================================================================
