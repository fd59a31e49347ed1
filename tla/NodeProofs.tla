----------------------------- MODULE NodeProofs -----------------------------
(***************************************************************************)
(* Proofs about module Node for any number of workers, any blocks and any  *)
(* messages: the invariants that node_safety checks, the step property of  *)
(* the tip, and that a node implements LongestChain.                       *)
(***************************************************************************)
EXTENDS Node, LedgerProofs, SequenceTheorems

(* The strengthening.  A block that waits in a queue or a buffer has passed *)
(* what it will not be asked again.                                         *)
Eligible ==
  /\ \A h \in DOMAIN blocks : Difficulty(h) = MiningDifficulty
  /\ \A i \in 1 .. Len(finished) :
       /\ Parent(finished[i]) \in DOMAIN blocks
       /\ MeetsPow(finished[i])
       /\ Difficulty(finished[i]) = MiningDifficulty
  /\ \A w \in Worker : \A i \in 1 .. Len(orphan_blocks[w]) : MeetsPow(orphan_blocks[w][i])
  /\ \A t \in Thread : \A i \in 1 .. Len(new_blocks[t]) : new_blocks[t][i] \in DOMAIN blocks

(* What a thread knows of the block and the state in hand at each label.   *)
InHand ==
  \A t \in Thread :
    /\ pc[t] \in {"parent", "check", "put", "insert"} =>
         block[t] \in Hash /\ MeetsPow(block[t])
    /\ pc[t] \in {"check", "put", "insert"} => Parent(block[t]) \in DOMAIN blocks
    /\ pc[t] = "check" /\ t = MinerWorker => Difficulty(block[t]) = MiningDifficulty
    /\ pc[t] \in {"put", "insert"} => Difficulty(block[t]) = MiningDifficulty
    /\ pc[t] = "put" =>
         /\ Replay(block_state[Parent(block[t])], Txs(block[t])).ok
         /\ state[t] = Replay(block_state[Parent(block[t])], Txs(block[t])).states
    /\ pc[t] = "insert" => block[t] \in DOMAIN block_state

StatesKept == DOMAIN blocks \subseteq DOMAIN block_state

Inv ==
  /\ TypeOK
  /\ ChainHangsTogether
  /\ TipIsLongest
  /\ StatesKept
  /\ StatesReplay
  /\ AnnouncedAreStored
  /\ Eligible
  /\ InHand

-----------------------------------------------------------------------------
(* What RemoveAt leaves is a sequence of the same elements.                *)
LEMMA RemoveAtSeq ==
  ASSUME NEW S, NEW s \in Seq(S), NEW k \in 1 .. Len(s)
  PROVE  /\ RemoveAt(s, k) \in Seq(S)
         /\ \A i \in 1 .. Len(RemoveAt(s, k)) :
              \E j \in 1 .. Len(s) : RemoveAt(s, k)[i] = s[j]
<1> DEFINE front == SubSeq(s, 1, k - 1)
           back  == SubSeq(s, k + 1, Len(s))
<1>1. /\ front \in Seq(S) /\ Len(front) = k - 1
      /\ \A i \in 1 .. k - 1 : front[i] = s[i]
  OBVIOUS
<1>2. /\ back \in Seq(S) /\ Len(back) = Len(s) - k
      /\ \A i \in 1 .. Len(s) - k : back[i] = s[i + k]
  OBVIOUS
<1>3. RemoveAt(s, k) = front \o back
  BY DEF RemoveAt
<1> HIDE DEF front, back
<1>4. /\ front \o back \in Seq(S)
      /\ Len(front \o back) = Len(s) - 1
      /\ \A i \in 1 .. Len(s) - 1 :
           (front \o back)[i] = IF i <= k - 1 THEN front[i] ELSE back[i - (k - 1)]
  <2>1. /\ front \o back \in Seq(S)
        /\ Len(front \o back) = Len(front) + Len(back)
        /\ \A i \in 1 .. Len(front) + Len(back) :
             (front \o back)[i] = IF i <= Len(front) THEN front[i]
                                 ELSE back[i - Len(front)]
    BY <1>1, <1>2, ConcatProperties
  <2>2. Len(front) = k - 1 /\ Len(back) = Len(s) - k /\ Len(s) \in Nat
    BY <1>1, <1>2
  <2> QED
    BY <2>1, <2>2
<1>5. ASSUME NEW i \in 1 .. Len(s) - 1
      PROVE  \E j \in 1 .. Len(s) : (front \o back)[i] = s[j]
  <2>1. CASE i <= k - 1
    BY <2>1, <1>1, <1>4
  <2>2. CASE ~ (i <= k - 1)
    <3>1. (front \o back)[i] = back[i - (k - 1)]
      BY <2>2, <1>4
    <3>2. i - (k - 1) \in 1 .. Len(s) - k
      BY <2>2
    <3>3. back[i - (k - 1)] = s[i + 1]
      BY <3>2, <1>2
    <3> QED
      BY <3>1, <3>2, <3>3
  <2> QED
    BY <2>1, <2>2
<1> QED
  BY <1>3, <1>4, <1>5

LEMMA InitInv == Init => Inv
<1> SUFFICES ASSUME Init PROVE Inv
  OBVIOUS
<1> USE NodeAssumption, BlockAssumption DEF Init
<1>1. TypeOK
  BY DEF TypeOK, NewBlocks, Thread
<1>2. ChainHangsTogether /\ TipIsLongest /\ StatesKept
  BY DEF ChainHangsTogether, TipIsLongest, StatesKept, NewBlocks
<1>3. StatesReplay /\ AnnouncedAreStored
  BY DEF StatesReplay, AnnouncedAreStored
<1>4. Eligible /\ InHand
  BY DEF Eligible, InHand, NewBlocks, Difficulty, Thread
<1> QED
  BY <1>1, <1>2, <1>3, <1>4 DEF Inv
-----------------------------------------------------------------------------
(* Most steps leave the store alone; what is said of it alone stays true.  *)
StoreOK ==
  /\ ChainHangsTogether
  /\ TipIsLongest
  /\ StatesKept
  /\ StatesReplay

LEMMA StoreFrame ==
  ASSUME Inv, UNCHANGED <<chainVars, block_state>>
  PROVE  StoreOK'
BY DEF Inv, StoreOK, ChainHangsTogether, TipIsLongest, StatesKept, StatesReplay,
       chainVars

LEMMA ReadTipStep == Inv /\ ReadTip => Inv'
<1> SUFFICES ASSUME Inv, ReadTip PROVE Inv'
  OBVIOUS
<1>1. TypeOK'
  BY DEF Inv, TypeOK, ReadTip, chainVars, localVars
<1>2. StoreOK'
  BY StoreFrame DEF ReadTip
<1>3. AnnouncedAreStored' /\ Eligible' /\ InHand'
  BY DEF Inv, AnnouncedAreStored, Eligible, InHand, ReadTip, chainVars, localVars
<1> QED
  BY <1>1, <1>2, <1>3 DEF Inv, StoreOK

LEMMA MineStep == ASSUME NEW b \in Hash PROVE Inv /\ Mine(b) => Inv'
<1> SUFFICES ASSUME Inv, Mine(b) PROVE Inv'
  OBVIOUS
<1>1. TypeOK'
  BY DEF Inv, TypeOK, Mine, chainVars, localVars
<1>2. StoreOK'
  BY StoreFrame DEF Mine
<1>3. AnnouncedAreStored' /\ InHand'
  BY DEF Inv, AnnouncedAreStored, InHand, Mine, chainVars, localVars
<1>4. Eligible'
  <2>1. \A i \in 1 .. Len(finished') :
          /\ Parent(finished'[i]) \in DOMAIN blocks
          /\ MeetsPow(finished'[i])
          /\ Difficulty(finished'[i]) = MiningDifficulty
    BY DEF Inv, TypeOK, Eligible, Mine
  <2> QED
    BY <2>1 DEF Inv, Eligible, Mine, chainVars, localVars
<1> QED
  BY <1>1, <1>2, <1>3, <1>4 DEF Inv, StoreOK

LEMMA RecvFinishedStep == Inv /\ RecvFinished => Inv'
<1> SUFFICES ASSUME Inv, RecvFinished PROVE Inv'
  OBVIOUS
<1> USE NodeAssumption
<1>0. /\ Head(finished) = finished[1]
      /\ Head(finished) \in OwnBlocks
      /\ Tail(finished) \in Seq(OwnBlocks)
      /\ Len(finished) > 0
      /\ Len(Tail(finished)) = Len(finished) - 1
      /\ \A i \in 1 .. Len(finished) - 1 : Tail(finished)[i] = finished[i + 1]
  BY DEF Inv, TypeOK, RecvFinished
<1>1. TypeOK'
  BY <1>0 DEF Inv, TypeOK, RecvFinished, Take, Goto, chainVars, localVars, Thread
<1>2. StoreOK'
  BY StoreFrame DEF RecvFinished
<1>3. AnnouncedAreStored'
  BY DEF Inv, AnnouncedAreStored, RecvFinished, chainVars
<1>4. Eligible'
  BY <1>0 DEF Inv, TypeOK, Eligible, RecvFinished, chainVars, localVars
<1>5. InHand'
  <2>1. /\ Head(finished) \in Hash
        /\ MeetsPow(Head(finished))
        /\ Parent(Head(finished)) \in DOMAIN blocks
        /\ Difficulty(Head(finished)) = MiningDifficulty
    BY <1>0 DEF Inv, Eligible
  <2>2. /\ pc' = [pc EXCEPT ![MinerWorker] = "check"]
        /\ block' = [block EXCEPT ![MinerWorker] = Head(finished)]
        /\ UNCHANGED <<blocks, block_state, state>>
    BY DEF RecvFinished, Take, Goto, chainVars
  <2> QED
    BY <2>1, <2>2 DEF Inv, TypeOK, InHand, Thread
<1> QED
  BY <1>1, <1>2, <1>3, <1>4, <1>5 DEF Inv, StoreOK

LEMMA RecvBlocksStep ==
  ASSUME NEW w \in Worker, NEW bs \in Deliveries
  PROVE  Inv /\ RecvBlocks(w, bs) => Inv'
<1> SUFFICES ASSUME Inv, RecvBlocks(w, bs) PROVE Inv'
  OBVIOUS
<1> USE NodeAssumption
<1>1. TypeOK'
  BY DEF Inv, TypeOK, RecvBlocks, Goto, chainVars, Thread
<1>2. StoreOK'
  BY StoreFrame DEF RecvBlocks
<1>3. AnnouncedAreStored' /\ Eligible'
  BY DEF Inv, AnnouncedAreStored, Eligible, RecvBlocks, chainVars
<1>4. InHand'
  BY DEF Inv, TypeOK, InHand, RecvBlocks, Goto, chainVars, Thread
<1> QED
  BY <1>1, <1>2, <1>3, <1>4 DEF Inv, StoreOK

LEMMA NextBlockStep == ASSUME NEW w \in Worker PROVE Inv /\ NextBlock(w) => Inv'
<1> SUFFICES ASSUME Inv, NextBlock(w) PROVE Inv'
  OBVIOUS
<1> USE NodeAssumption
<1> DEFINE b == Head(todo[w])
<1>0. /\ b \in Hash /\ Tail(todo[w]) \in Seq(Hash)
      /\ w \in Thread
  BY DEF Inv, TypeOK, NextBlock, Thread
<1>1. /\ todo' = [todo EXCEPT ![w] = Tail(todo[w])]
      /\ UNCHANGED <<blocks, tip, block_state, finished, miner_tip, orphan_blocks,
                     new_blocks, n, state, mined, announced>>
  BY DEF NextBlock, chainVars
<1>2. \/ /\ MeetsPow(b)
         /\ block' = [block EXCEPT ![w] = b]
         /\ pc' = [pc EXCEPT ![w] = "parent"]
      \/ UNCHANGED <<pc, block>>
  BY DEF NextBlock, Wanted, Take, Goto
<1> HIDE DEF b
<1>3. TypeOK'
  <2>1. todo' \in [Thread -> Seq(Hash)]
    BY <1>0, <1>1 DEF Inv, TypeOK
  <2>2. block' \in [Thread -> Hash \cup {None}]
    BY <1>0, <1>2 DEF Inv, TypeOK
  <2>3. pc' \in [Thread -> {"recv", "block", "parent", "check", "put", "insert", "release"}]
    BY <1>2 DEF Inv, TypeOK
  <2> QED
    BY <1>1, <2>1, <2>2, <2>3 DEF Inv, TypeOK
<1>4. StoreOK'
  BY <1>1, StoreFrame DEF chainVars
<1>5. AnnouncedAreStored' /\ Eligible'
  BY <1>1 DEF Inv, AnnouncedAreStored, Eligible
<1>6. InHand'
  <2>1. CASE UNCHANGED <<pc, block>>
    BY <2>1, <1>1 DEF Inv, InHand
  <2>2. CASE MeetsPow(b) /\ block' = [block EXCEPT ![w] = b] /\ pc' = [pc EXCEPT ![w] = "parent"]
    <3>1. pc'[w] = "parent" /\ block'[w] = b
      BY <2>2, <1>0 DEF Inv, TypeOK
    <3>2. \A t \in Thread \ {w} : pc'[t] = pc[t] /\ block'[t] = block[t]
      BY <2>2 DEF Inv, TypeOK
    <3> QED
      BY <2>2, <3>1, <3>2, <1>0, <1>1 DEF Inv, InHand
  <2> QED
    BY <1>2, <2>1, <2>2
<1> QED
  BY <1>3, <1>4, <1>5, <1>6 DEF Inv, StoreOK

LEMMA ParentKnownStep == ASSUME NEW w \in Worker PROVE Inv /\ ParentKnown(w) => Inv'
<1> SUFFICES ASSUME Inv, ParentKnown(w) PROVE Inv'
  OBVIOUS
<1> USE NodeAssumption
<1>1. TypeOK'
  BY DEF Inv, TypeOK, ParentKnown, Goto, chainVars, localVars, Thread
<1>2. StoreOK'
  BY StoreFrame DEF ParentKnown
<1>3. AnnouncedAreStored' /\ Eligible'
  BY DEF Inv, AnnouncedAreStored, Eligible, ParentKnown, chainVars, localVars
<1>4. InHand'
  BY DEF Inv, TypeOK, InHand, ParentKnown, Goto, chainVars, Thread
<1> QED
  BY <1>1, <1>2, <1>3, <1>4 DEF Inv, StoreOK

LEMMA ParentMissingStep == ASSUME NEW w \in Worker PROVE Inv /\ ParentMissing(w) => Inv'
<1> SUFFICES ASSUME Inv, ParentMissing(w) PROVE Inv'
  OBVIOUS
<1> USE NodeAssumption
<1>0. /\ block[w] \in Hash
      /\ MeetsPow(block[w])
  BY DEF Inv, InHand, ParentMissing, Thread
<1>1. TypeOK'
  BY <1>0 DEF Inv, TypeOK, ParentMissing, Take, Goto, chainVars, localVars, Thread
<1>2. StoreOK'
  BY StoreFrame DEF ParentMissing
<1>3. AnnouncedAreStored'
  BY DEF Inv, AnnouncedAreStored, ParentMissing, chainVars
<1>4. Eligible'
  <2>1. \A v \in Worker : \A i \in 1 .. Len(orphan_blocks'[v]) :
          MeetsPow(orphan_blocks'[v][i])
    BY <1>0 DEF Inv, TypeOK, Eligible, ParentMissing
  <2> QED
    BY <2>1 DEF Inv, Eligible, ParentMissing, chainVars, localVars
<1>5. InHand'
  BY DEF Inv, TypeOK, InHand, ParentMissing, Take, Goto, chainVars, Thread
<1> QED
  BY <1>1, <1>2, <1>3, <1>4, <1>5 DEF Inv, StoreOK

LEMMA CheckPassesStep == ASSUME NEW t \in Thread PROVE Inv /\ CheckPasses(t) => Inv'
<1> SUFFICES ASSUME Inv, CheckPasses(t) PROVE Inv'
  OBVIOUS
<1> USE NodeAssumption
<1>1. TypeOK'
  BY DEF Inv, TypeOK, CheckPasses, Goto, chainVars, localVars
<1>2. StoreOK'
  BY StoreFrame DEF CheckPasses
<1>3. AnnouncedAreStored' /\ Eligible'
  BY DEF Inv, AnnouncedAreStored, Eligible, CheckPasses, chainVars, localVars
<1>4. InHand'
  <2>1. Difficulty(block[t]) = MiningDifficulty
    BY DEF Inv, Eligible, InHand, CheckPasses, DifficultyMatches
  <2>2. /\ pc[t] = "check"
        /\ pc' = [pc EXCEPT ![t] = "put"]
        /\ state' = [state EXCEPT
                       ![t] = Replay(block_state[Parent(block[t])], Txs(block[t])).states]
        /\ Replay(block_state[Parent(block[t])], Txs(block[t])).ok
        /\ UNCHANGED <<blocks, block_state, block>>
    BY DEF CheckPasses, StateBefore, Goto, chainVars
  <2> QED
    BY <2>1, <2>2 DEF Inv, TypeOK, InHand
<1> QED
  BY <1>1, <1>2, <1>3, <1>4 DEF Inv, StoreOK

LEMMA CheckFailsStep == ASSUME NEW t \in Thread PROVE Inv /\ CheckFails(t) => Inv'
<1> SUFFICES ASSUME Inv, CheckFails(t) PROVE Inv'
  OBVIOUS
<1> USE NodeAssumption
<1>1. TypeOK'
  BY DEF Inv, TypeOK, CheckFails, AfterBlock, Take, Goto, chainVars, localVars
<1>2. StoreOK'
  BY StoreFrame DEF CheckFails
<1>3. AnnouncedAreStored' /\ Eligible'
  BY DEF Inv, AnnouncedAreStored, Eligible, CheckFails, chainVars, localVars
<1>4. InHand'
  BY DEF Inv, TypeOK, InHand, CheckFails, AfterBlock, Take, Goto, chainVars
<1> QED
  BY <1>1, <1>2, <1>3, <1>4 DEF Inv, StoreOK

(* A thread that stores a state: it is the one the block leads to, so a    *)
(* state another thread stored under the same hash is not changed, and no  *)
(* state that another thread is still working from changes.                *)
LEMMA PutStateStep == ASSUME NEW t \in Thread PROVE Inv /\ PutState(t) => Inv'
<1> SUFFICES ASSUME Inv, PutState(t) PROVE Inv'
  OBVIOUS
<1> USE NodeAssumption
<1> DEFINE b == block[t]
<1>0. /\ b \in Hash /\ Parent(b) \in DOMAIN blocks
      /\ Parent(b) \in DOMAIN block_state
      /\ Replay(block_state[Parent(b)], Txs(b)).ok
      /\ state[t] = Replay(block_state[Parent(b)], Txs(b)).states
      /\ b # Genesis
  BY BlockAssumption DEF Inv, InHand, StatesKept, PutState
<1>1. /\ block_state' = [h \in DOMAIN block_state \cup {b} |->
                           IF h = b THEN state[t] ELSE block_state[h]]
      /\ UNCHANGED <<blocks, tip, finished, miner_tip, orphan_blocks, todo,
                     new_blocks, n, block, mined, announced>>
      /\ pc[t] = "put"
      /\ pc' = [pc EXCEPT ![t] = "insert"]
      /\ state' = [state EXCEPT ![t] = None]
  BY DEF PutState, Goto, chainVars, localVars
<1>2. DOMAIN block_state' = DOMAIN block_state \cup {b}
  BY <1>1
<1>3. \A h \in DOMAIN block_state : block_state'[h] = block_state[h]
  BY <1>0, <1>1 DEF Inv, StatesReplay
<1>4. TypeOK'
  <2>1. /\ DOMAIN block_state' \subseteq Hash \cup {Genesis}
        /\ block_state' = [h \in DOMAIN block_state' |-> block_state'[h]]
    BY <1>0, <1>1, <1>2 DEF Inv, TypeOK
  <2>2. pc' \in [Thread -> {"recv", "block", "parent", "check", "put", "insert", "release"}]
    BY <1>1 DEF Inv, TypeOK
  <2>3. state' = [u \in Thread |-> state'[u]]
    BY <1>1 DEF Inv, TypeOK
  <2> QED
    BY <1>1, <2>1, <2>2, <2>3 DEF Inv, TypeOK
<1>5. ChainHangsTogether' /\ TipIsLongest' /\ StatesKept'
  BY <1>1, <1>2 DEF Inv, ChainHangsTogether, TipIsLongest, StatesKept
<1>6. StatesReplay'
  <2> SUFFICES ASSUME NEW h \in DOMAIN block_state' \ {Genesis}
               PROVE  /\ Parent(h) \in DOMAIN block_state'
                      /\ Replay(block_state'[Parent(h)], Txs(h)).ok
                      /\ block_state'[h] = Replay(block_state'[Parent(h)], Txs(h)).states
    BY DEF StatesReplay
  <2>1. CASE h \in DOMAIN block_state
    BY <2>1, <1>2, <1>3 DEF Inv, StatesReplay
  <2>2. CASE h = b
    BY <2>2, <1>0, <1>1, <1>2, <1>3
  <2> QED
    BY <2>1, <2>2, <1>2
<1>7. AnnouncedAreStored' /\ Eligible'
  BY <1>1 DEF Inv, AnnouncedAreStored, Eligible
<1>8. InHand'
  <2> SUFFICES ASSUME NEW u \in Thread PROVE
        /\ pc'[u] \in {"parent", "check", "put", "insert"} =>
             block[u] \in Hash /\ MeetsPow(block[u])
        /\ pc'[u] \in {"check", "put", "insert"} => Parent(block[u]) \in DOMAIN blocks
        /\ pc'[u] = "check" /\ u = MinerWorker => Difficulty(block[u]) = MiningDifficulty
        /\ pc'[u] \in {"put", "insert"} => Difficulty(block[u]) = MiningDifficulty
        /\ pc'[u] = "put" =>
             /\ Replay(block_state'[Parent(block[u])], Txs(block[u])).ok
             /\ state'[u] = Replay(block_state'[Parent(block[u])], Txs(block[u])).states
        /\ pc'[u] = "insert" => block[u] \in DOMAIN block_state'
    BY <1>1 DEF InHand
  <2>1. CASE u = t
    BY <2>1, <1>0, <1>1, <1>2 DEF Inv, TypeOK, InHand
  <2>2. CASE u # t
    <3>1. pc'[u] = pc[u] /\ state'[u] = state[u]
      BY <2>2, <1>1 DEF Inv, TypeOK
    <3>2. pc[u] = "put" => block_state'[Parent(block[u])] = block_state[Parent(block[u])]
      BY <1>3 DEF Inv, InHand, StatesKept
    <3> QED
      BY <3>1, <3>2, <1>2 DEF Inv, InHand
  <2> QED
    BY <2>1, <2>2
<1> QED
  BY <1>4, <1>5, <1>6, <1>7, <1>8 DEF Inv

(* A thread that inserts: the block's height is one more than its parent's *)
(* whether the block is new or another thread was faster.                  *)
LEMMA InsertBlockStep == ASSUME NEW t \in Thread PROVE Inv /\ InsertBlock(t) => Inv'
<1> SUFFICES ASSUME Inv, InsertBlock(t) PROVE Inv'
  OBVIOUS
<1> USE NodeAssumption
<1> DEFINE b == block[t]
<1>0. /\ b \in Hash /\ Parent(b) \in DOMAIN blocks
      /\ b \in DOMAIN block_state
      /\ Difficulty(b) = MiningDifficulty
      /\ b # Genesis
  BY BlockAssumption DEF Inv, InHand, InsertBlock
<1>1. /\ blocks' = [h \in DOMAIN blocks \cup {b} |->
                      IF h = b THEN blocks[Parent(b)] + 1 ELSE blocks[h]]
      /\ tip' = IF blocks[Parent(b)] + 1 > blocks[tip] THEN b ELSE tip
      /\ new_blocks' = [new_blocks EXCEPT ![t] = Append(@, b)]
      /\ pc[t] = "insert"
      /\ pc' = [pc EXCEPT ![t] = AfterBlock(t)]
      /\ block' = [block EXCEPT ![t] = None]
      /\ UNCHANGED <<block_state, finished, miner_tip, orphan_blocks, todo, n,
                     state, mined, announced>>
  BY DEF InsertBlock, BlocksWith, TipWith, Take, Goto
<1>2. DOMAIN blocks' = DOMAIN blocks \cup {b}
  BY <1>1
<1>3. \A h \in DOMAIN blocks : blocks'[h] = blocks[h]
  BY <1>0, <1>1 DEF Inv, ChainHangsTogether
<1>4. blocks'[b] = blocks[Parent(b)] + 1
  BY <1>1
<1>5. TypeOK'
  <2>1. \A h \in DOMAIN blocks' : blocks'[h] \in Nat
    BY <1>0, <1>2, <1>3, <1>4 DEF Inv, TypeOK
  <2>2. /\ new_blocks' \in [Thread -> Seq(Hash)]
        /\ \A u \in Thread : n'[u] <= Len(new_blocks'[u])
    BY <1>0, <1>1 DEF Inv, TypeOK
  <2>3. pc' \in [Thread -> {"recv", "block", "parent", "check", "put", "insert", "release"}]
    BY <1>1 DEF Inv, TypeOK, AfterBlock
  <2> QED
    BY <1>0, <1>1, <1>2, <2>1, <2>2, <2>3 DEF Inv, TypeOK
<1>6. ChainHangsTogether'
  BY <1>0, <1>2, <1>3, <1>4 DEF Inv, ChainHangsTogether, TypeOK
<1>7. TipIsLongest'
  BY <1>0, <1>1, <1>2, <1>3, <1>4 DEF Inv, TipIsLongest, TypeOK
<1>8. StatesKept' /\ StatesReplay' /\ AnnouncedAreStored'
  BY <1>0, <1>1, <1>2 DEF Inv, StatesKept, StatesReplay, AnnouncedAreStored
<1>9. Eligible'
  <2>1. \A u \in Thread : \A i \in 1 .. Len(new_blocks'[u]) : new_blocks'[u][i] \in DOMAIN blocks'
    <3> SUFFICES ASSUME NEW u \in Thread, NEW i \in 1 .. Len(new_blocks'[u])
                 PROVE  new_blocks'[u][i] \in DOMAIN blocks'
      OBVIOUS
    <3>1. CASE u = t
      <4>1. new_blocks'[u] = Append(new_blocks[u], b) /\ new_blocks[u] \in Seq(Hash)
        BY <3>1, <1>1 DEF Inv, TypeOK
      <4>2. i \in 1 .. Len(new_blocks[u]) \/ new_blocks'[u][i] = b
        BY <4>1, <1>0
      <4>3. i \in 1 .. Len(new_blocks[u]) => new_blocks'[u][i] = new_blocks[u][i]
        BY <4>1, <1>0
      <4> QED
        BY <4>2, <4>3, <1>2 DEF Inv, Eligible
    <3>2. CASE u # t
      <4>1. new_blocks'[u] = new_blocks[u]
        BY <3>2, <1>1 DEF Inv, TypeOK
      <4> QED
        BY <4>1, <1>2 DEF Inv, Eligible
    <3> QED
      BY <3>1, <3>2
  <2> QED
    BY <2>1, <1>0, <1>1, <1>2 DEF Inv, Eligible
<1>10. InHand'
  BY <1>1, <1>2 DEF Inv, TypeOK, InHand, AfterBlock
<1> QED
  BY <1>5, <1>6, <1>7, <1>8, <1>9, <1>10 DEF Inv

LEMMA ReleaseOrphanStep == ASSUME NEW w \in Worker PROVE Inv /\ ReleaseOrphan(w) => Inv'
<1> SUFFICES ASSUME Inv, ReleaseOrphan(w) PROVE Inv'
  OBVIOUS
<1> USE NodeAssumption
<1>0. w \in Thread /\ w # MinerWorker
  BY DEF Thread
<1>1. PICK k \in Releasable(w) :
        /\ block' = [block EXCEPT ![w] = orphan_blocks[w][k]]
        /\ orphan_blocks' = [orphan_blocks EXCEPT ![w] = RemoveAt(@, k)]
  BY DEF ReleaseOrphan, Take
<1>2. /\ pc' = [pc EXCEPT ![w] = "check"]
      /\ UNCHANGED <<blocks, tip, block_state, finished, miner_tip, todo, new_blocks,
                     n, state, mined, announced>>
      /\ n[w] < Len(new_blocks[w])
  BY DEF ReleaseOrphan, Goto, chainVars, localVars
<1>3. /\ orphan_blocks[w] \in Seq(Hash)
      /\ k \in 1 .. Len(orphan_blocks[w])
      /\ Parent(orphan_blocks[w][k]) = new_blocks[w][n[w] + 1]
  BY DEF Releasable, Inv, TypeOK
<1>4. /\ orphan_blocks[w][k] \in Hash
      /\ MeetsPow(orphan_blocks[w][k])
      /\ Parent(orphan_blocks[w][k]) \in DOMAIN blocks
  <2>1. orphan_blocks[w][k] \in Hash
    BY <1>3, ElementOfSeq
  <2>2. MeetsPow(orphan_blocks[w][k])
    BY <1>3 DEF Inv, Eligible
  <2>3. n[w] + 1 \in 1 .. Len(new_blocks[w])
    BY <1>0, <1>2 DEF Inv, TypeOK
  <2>4. new_blocks[w][n[w] + 1] \in DOMAIN blocks
    BY <2>3, <1>0 DEF Inv, Eligible
  <2> QED
    BY <2>1, <2>2, <2>4, <1>3
<1>5. /\ RemoveAt(orphan_blocks[w], k) \in Seq(Hash)
      /\ \A i \in 1 .. Len(RemoveAt(orphan_blocks[w], k)) :
           \E j \in 1 .. Len(orphan_blocks[w]) :
             RemoveAt(orphan_blocks[w], k)[i] = orphan_blocks[w][j]
  <2>1. PICK s \in Seq(Hash) : s = orphan_blocks[w]
    BY <1>3
  <2>2. k \in 1 .. Len(s)
    BY <2>1, <1>3
  <2>3. /\ RemoveAt(s, k) \in Seq(Hash)
        /\ \A i \in 1 .. Len(RemoveAt(s, k)) :
             \E j \in 1 .. Len(s) : RemoveAt(s, k)[i] = s[j]
    BY ONLY <2>2, s \in Seq(Hash), RemoveAtSeq
  <2> QED
    BY <2>1, <2>3
<1>6. TypeOK'
  <2>1. orphan_blocks' \in [Worker -> Seq(Hash)]
    BY <1>1, <1>5 DEF Inv, TypeOK
  <2>2. block' \in [Thread -> Hash \cup {None}]
    BY <1>1, <1>4 DEF Inv, TypeOK
  <2>3. pc' \in [Thread -> {"recv", "block", "parent", "check", "put", "insert", "release"}]
    BY <1>2 DEF Inv, TypeOK
  <2> QED
    BY <1>2, <2>1, <2>2, <2>3 DEF Inv, TypeOK
<1>7. StoreOK'
  BY <1>2, StoreFrame DEF chainVars
<1>8. AnnouncedAreStored'
  BY <1>2 DEF Inv, AnnouncedAreStored
<1>9. Eligible'
  <2>1. \A v \in Worker : \A i \in 1 .. Len(orphan_blocks'[v]) :
          MeetsPow(orphan_blocks'[v][i])
    <3> SUFFICES ASSUME NEW v \in Worker, NEW i \in 1 .. Len(orphan_blocks'[v])
                 PROVE  MeetsPow(orphan_blocks'[v][i])
      OBVIOUS
    <3>1. CASE v = w
      BY <3>1, <1>1, <1>5 DEF Inv, TypeOK, Eligible
    <3>2. CASE v # w
      BY <3>2, <1>1 DEF Inv, TypeOK, Eligible
    <3> QED
      BY <3>1, <3>2
  <2> QED
    BY <2>1, <1>2 DEF Inv, Eligible
<1>10. InHand'
  BY <1>0, <1>1, <1>2, <1>4 DEF Inv, TypeOK, InHand
<1> QED
  BY <1>6, <1>7, <1>8, <1>9, <1>10 DEF Inv, StoreOK

LEMMA NextNewBlockStep == ASSUME NEW w \in Worker PROVE Inv /\ NextNewBlock(w) => Inv'
<1> SUFFICES ASSUME Inv, NextNewBlock(w) PROVE Inv'
  OBVIOUS
<1>1. TypeOK'
  BY DEF Inv, TypeOK, NextNewBlock, chainVars, Thread
<1>2. StoreOK'
  BY StoreFrame DEF NextNewBlock
<1>3. AnnouncedAreStored' /\ Eligible' /\ InHand'
  BY DEF Inv, AnnouncedAreStored, Eligible, InHand, NextNewBlock, chainVars
<1> QED
  BY <1>1, <1>2, <1>3 DEF Inv, StoreOK

LEMMA ReleaseDoneStep == ASSUME NEW w \in Worker PROVE Inv /\ ReleaseDone(w) => Inv'
<1> SUFFICES ASSUME Inv, ReleaseDone(w) PROVE Inv'
  OBVIOUS
<1>1. TypeOK'
  BY DEF Inv, TypeOK, ReleaseDone, Goto, chainVars, localVars
<1>2. StoreOK'
  BY StoreFrame DEF ReleaseDone
<1>3. AnnouncedAreStored' /\ Eligible'
  BY DEF Inv, AnnouncedAreStored, Eligible, ReleaseDone, chainVars, localVars
<1>4. InHand'
  BY DEF Inv, TypeOK, InHand, ReleaseDone, Goto, chainVars
<1> QED
  BY <1>1, <1>2, <1>3, <1>4 DEF Inv, StoreOK

LEMMA FinishStep == ASSUME NEW t \in Thread PROVE Inv /\ Finish(t) => Inv'
<1> SUFFICES ASSUME Inv, Finish(t) PROVE Inv'
  OBVIOUS
<1>1. ToSet(new_blocks[t]) \subseteq DOMAIN blocks /\ ToSet(new_blocks[t]) \subseteq Hash
  <2>1. new_blocks[t] \in Seq(Hash) /\ DOMAIN new_blocks[t] = 1 .. Len(new_blocks[t])
    BY LenProperties DEF Inv, TypeOK
  <2>2. \A i \in 1 .. Len(new_blocks[t]) :
          new_blocks[t][i] \in DOMAIN blocks /\ new_blocks[t][i] \in Hash
    BY <2>1, ElementOfSeq DEF Inv, Eligible
  <2> QED
    BY <2>1, <2>2 DEF ToSet
<1>2. TypeOK'
  BY <1>1 DEF Inv, TypeOK, Finish, Goto, chainVars
<1>3. StoreOK'
  BY StoreFrame DEF Finish
<1>4. AnnouncedAreStored'
  BY <1>1 DEF Inv, AnnouncedAreStored, Finish, chainVars
<1>5. Eligible'
  BY DEF Inv, TypeOK, Eligible, Finish, chainVars
<1>6. InHand'
  BY DEF Inv, TypeOK, InHand, Finish, Goto, chainVars
<1> QED
  BY <1>2, <1>3, <1>4, <1>5, <1>6 DEF Inv, StoreOK

LEMMA StutterStep == Inv /\ UNCHANGED vars => Inv'
<1> SUFFICES ASSUME Inv, UNCHANGED vars PROVE Inv'
  OBVIOUS
<1>1. TypeOK'
  BY DEF Inv, TypeOK, vars
<1>2. StoreOK'
  BY StoreFrame DEF vars, chainVars
<1>3. AnnouncedAreStored' /\ Eligible' /\ InHand'
  BY DEF Inv, AnnouncedAreStored, Eligible, InHand, vars
<1> QED
  BY <1>1, <1>2, <1>3 DEF Inv, StoreOK

LEMMA InvStep == Inv /\ [Next]_vars => Inv'
<1> SUFFICES ASSUME Inv, [Next]_vars PROVE Inv'
  OBVIOUS
<1>1. ASSUME NEW t \in Thread, CheckAndStore(t) PROVE Inv'
  BY <1>1, CheckPassesStep, CheckFailsStep, PutStateStep, InsertBlockStep, FinishStep
     DEF CheckAndStore
<1>2. CASE ReadTip
  BY <1>2, ReadTipStep
<1>3. ASSUME NEW b \in Hash, Mine(b) PROVE Inv'
  BY <1>3, MineStep
<1>4. ASSUME NEW w \in Worker, NEW bs \in Deliveries, RecvBlocks(w, bs) PROVE Inv'
  BY <1>4, RecvBlocksStep
<1>5. ASSUME NEW w \in Worker, WorkerStep(w) PROVE Inv'
  <2>1. w \in Thread
    BY DEF Thread
  <2> QED
    BY <2>1, <1>1, <1>5, NextBlockStep, ParentKnownStep, ParentMissingStep,
       ReleaseOrphanStep, NextNewBlockStep, ReleaseDoneStep DEF WorkerStep
<1>6. CASE MinerWorkerStep
  <2>1. MinerWorker \in Thread
    BY DEF Thread
  <2> QED
    BY <2>1, <1>1, <1>6, RecvFinishedStep DEF MinerWorkerStep
<1>7. CASE UNCHANGED vars
  BY <1>7, StutterStep
<1> QED
  BY <1>2, <1>3, <1>4, <1>5, <1>6, <1>7 DEF Next

-----------------------------------------------------------------------------
(* The shared state keeps its shape, and every index the orphan loops use  *)
(* stays within its vector.                                                *)
THEOREM TypeCorrect == Spec => []TypeOK
<1>1. Inv => TypeOK
  BY DEF Inv
<1> QED
  BY InitInv, InvStep, <1>1, PTL DEF Spec

(* Insertions by any number of threads leave one tree with right heights:  *)
(* Blockchain::insert needs nothing but its own lock.                      *)
THEOREM ChainConsistent == Spec => []ChainHangsTogether
<1>1. Inv => ChainHangsTogether
  BY DEF Inv
<1> QED
  BY InitInv, InvStep, <1>1, PTL DEF Spec

(* And the tip is at a greatest height of that tree.                       *)
THEOREM TipConsistent == Spec => []TipIsLongest
<1>1. Inv => TipIsLongest
  BY DEF Inv
<1> QED
  BY InitInv, InvStep, <1>1, PTL DEF Spec

(* No look-up that worker.rs or tx_generator.rs unwraps can fail.          *)
THEOREM NoUnwrapFails == Spec => []UnwrapsSucceed
<1>1. Inv => UnwrapsSucceed
  BY DEF Inv, UnwrapsSucceed, StatesKept, InHand
<1> QED
  BY InitInv, InvStep, <1>1, PTL DEF Spec

(* The stored states are those a replay along the branch gives, though     *)
(* they were computed on clones without the lock.                          *)
THEOREM StatesAreReplayed == Spec => []StatesReplay
<1>1. Inv => StatesReplay
  BY DEF Inv
<1> QED
  BY InitInv, InvStep, <1>1, PTL DEF Spec

(* The node announces only blocks it can serve.                            *)
THEOREM AnnouncementsBacked == Spec => []AnnouncedAreStored
<1>1. Inv => AnnouncedAreStored
  BY DEF Inv
<1> QED
  BY InitInv, InvStep, <1>1, PTL DEF Spec

(* The tip leaves a branch only for a strictly longer one: a block that    *)
(* two threads insert, or one that ties, does not move it.                 *)
THEOREM TipOnlyMovesUp == Spec => TipMovesUp
<1>1. Inv /\ [Next]_vars => [tip' # tip => blocks'[tip'] > blocks[tip]]_vars
  <2> SUFFICES ASSUME Inv, Next, tip' # tip PROVE blocks'[tip'] > blocks[tip]
    OBVIOUS
  <2>1. PICK t \in Thread : InsertBlock(t)
    BY DEF Next, ReadTip, Mine, RecvBlocks, WorkerStep, MinerWorkerStep, NextBlock,
           ParentKnown, ParentMissing, CheckAndStore, CheckPasses, CheckFails, PutState,
           Finish, ReleaseOrphan, NextNewBlock, ReleaseDone, RecvFinished, chainVars, Thread
  <2>2. tip' = block[t] /\ blocks[Parent(block[t])] + 1 > blocks[tip]
    BY <2>1 DEF InsertBlock, TipWith
  <2>3. blocks'[block[t]] = blocks[Parent(block[t])] + 1
    BY <2>1 DEF InsertBlock, BlocksWith
  <2> QED
    BY <2>2, <2>3
<1> QED
  BY InitInv, InvStep, <1>1, PTL DEF Spec, TipMovesUp

-----------------------------------------------------------------------------
(* Refinement.  Only InsertBlock changes the abstract tree, and only if    *)
(* the block is new; storing a state changes none that is part of it.      *)
ledger == [h \in DOMAIN blocks |-> block_state[h]]
treeVars == <<blocks, tip, ledger>>

LEMMA InitRefined == Init => Abstract!Init
BY DEF Init, Abstract!Init, NewBlocks

LEMMA InsertRefined ==
  ASSUME Inv, NEW t \in Thread, InsertBlock(t)
  PROVE  Abstract!Next \/ UNCHANGED treeVars
<1>b. PICK b \in Hash : b = block[t]
  BY DEF Inv, InHand, InsertBlock
<1>0. /\ b # Genesis /\ MeetsPow(b)
      /\ Parent(b) \in DOMAIN blocks
      /\ b \in DOMAIN block_state
      /\ Difficulty(b) = MiningDifficulty
  BY <1>b, BlockAssumption DEF Inv, InHand, InsertBlock
<1>1. blocks' = BlocksWith(blocks, b) /\ tip' = TipWith(blocks, tip, b)
      /\ block_state' = block_state
  BY <1>b DEF InsertBlock
<1>2. DOMAIN blocks' = DOMAIN blocks \cup {b}
  BY <1>1 DEF BlocksWith
<1>3. CASE b \in DOMAIN blocks
  <2>1. blocks' = blocks
    BY <1>0, <1>1, <1>3 DEF BlocksWith, Inv, TypeOK, ChainHangsTogether
  <2>2. blocks[Parent(b)] + 1 <= blocks[tip]
    BY <1>0, <1>3 DEF Inv, TypeOK, ChainHangsTogether, TipIsLongest
  <2>3. tip' = tip
    BY <1>0, <1>1, <2>2 DEF TipWith, Inv, TypeOK
  <2> QED
    BY <1>1, <2>1, <2>3 DEF treeVars, ledger
<1>4. CASE b \notin DOMAIN blocks
  <2>1. Difficulty(b) = Difficulty(Parent(b))
    BY <1>0 DEF Inv, Eligible
  <2>2. /\ ledger[Parent(b)] = block_state[Parent(b)]
        /\ Replay(ledger[Parent(b)], Txs(b)).ok
        /\ block_state[b] = Replay(ledger[Parent(b)], Txs(b)).states
    BY <1>0 DEF ledger, Inv, StatesReplay
  <2>3. ledger' = [h \in DOMAIN ledger \cup {b} |->
                     IF h = b THEN Replay(ledger[Parent(b)], Txs(b)).states
                     ELSE ledger[h]]
    BY <1>1, <1>2, <1>4, <2>2 DEF ledger
  <2>4. Abstract!AddBlock(b)
    BY <1>0, <1>1, <1>4, <2>1, <2>2, <2>3
       DEF Abstract!AddBlock, Abstract!Acceptable, Abstract!With, ledger, BlocksWith,
           TipWith
  <2> QED
    BY <2>4 DEF Abstract!Next
<1> QED
  BY <1>3, <1>4

LEMMA StepRefined == Inv /\ [Next]_vars => Abstract!Next \/ UNCHANGED treeVars
<1> SUFFICES ASSUME Inv, [Next]_vars PROVE Abstract!Next \/ UNCHANGED treeVars
  OBVIOUS
<1>1. ASSUME NEW t \in Thread, InsertBlock(t) PROVE Abstract!Next \/ UNCHANGED treeVars
  BY <1>1, InsertRefined
<1>2. ASSUME NEW t \in Thread, PutState(t) PROVE UNCHANGED treeVars
  <2>1. block[t] # Genesis /\ block[t] \in Hash
    BY <1>2, BlockAssumption DEF Inv, InHand, PutState
  <2>2. \A h \in DOMAIN blocks : block_state'[h] = block_state[h]
    <3> SUFFICES ASSUME NEW h \in DOMAIN blocks PROVE block_state'[h] = block_state[h]
      OBVIOUS
    <3>1. h \in DOMAIN block_state
      BY DEF Inv, StatesKept
    <3>2. CASE h = block[t]
      BY <1>2, <2>1, <3>1, <3>2 DEF Inv, StatesReplay, InHand, PutState
    <3>3. CASE h # block[t]
      BY <1>2, <3>1, <3>3 DEF PutState
    <3> QED
      BY <3>2, <3>3
  <2>3. UNCHANGED <<blocks, tip>>
    BY <1>2 DEF PutState, chainVars
  <2> QED
    BY <2>2, <2>3 DEF treeVars, ledger
<1>3. CASE UNCHANGED <<blocks, tip, block_state>>
  BY <1>3 DEF treeVars, ledger
<1>4. \/ \E t \in Thread : InsertBlock(t) \/ PutState(t)
      \/ UNCHANGED <<blocks, tip, block_state>>
  BY DEF Next, vars, ReadTip, Mine, RecvBlocks, WorkerStep, MinerWorkerStep, NextBlock,
         ParentKnown, ParentMissing, CheckAndStore, CheckPasses, CheckFails, Finish,
         ReleaseOrphan, NextNewBlock, ReleaseDone, RecvFinished, chainVars, Thread
<1> QED
  BY <1>1, <1>2, <1>3, <1>4

(* However the threads interleave their critical sections, a node behaves  *)
(* as the atomic tree of LongestChain does.                                *)
THEOREM ImplementsLongestChain == Spec => RefinesLongestChain
<1>1. Inv /\ [Next]_vars => [Abstract!Next]_treeVars
  BY StepRefined
<1>2. treeVars = <<blocks, tip, [h \in DOMAIN blocks |-> block_state[h]]>>
  BY DEF treeVars, ledger
<1> QED
  BY InitInv, InvStep, InitRefined, <1>1, PTL
     DEF Spec, RefinesLongestChain, Abstract!Spec, Abstract!vars, treeVars, ledger

-----------------------------------------------------------------------------
(* Coins.  Only PutState stores a state, and what it stores is a replay on *)
(* a stored state, which mints nothing.                                    *)
StatesBacked == \A h \in DOMAIN block_state : Backed(block_state[h], IcoValue)

LEMMA InitBacked == Init => StatesBacked
BY InitialStateBacked DEF Init, StatesBacked

LEMMA OnlyPutStores ==
  ASSUME [Next]_vars
  PROVE  (\E t \in Thread : PutState(t)) \/ block_state' = block_state
BY DEF Next, vars, ReadTip, Mine, RecvBlocks, WorkerStep, MinerWorkerStep, NextBlock,
       ParentKnown, ParentMissing, CheckAndStore, CheckPasses, CheckFails, Finish,
       InsertBlock, ReleaseOrphan, NextNewBlock, ReleaseDone, RecvFinished, Thread

LEMMA StepBackedNode ==
  ASSUME PlainBlocks
  PROVE  Inv /\ StatesBacked /\ [Next]_vars => StatesBacked'
<1> SUFFICES ASSUME Inv, StatesBacked, [Next]_vars PROVE StatesBacked'
  OBVIOUS
<1>1. ASSUME NEW t \in Thread, PutState(t) PROVE StatesBacked'
  <2>1. PICK b \in Hash : b = block[t]
    BY <1>1 DEF Inv, InHand, PutState
  <2>2. PICK before : before = block_state[Parent(b)]
    OBVIOUS
  <2>3. Parent(b) \in DOMAIN block_state /\ state[t] = Replay(before, Txs(b)).states
    BY <1>1, <2>1, <2>2 DEF Inv, InHand, StatesKept, PutState
  <2>4. Backed(before, IcoValue)
    BY <2>2, <2>3 DEF StatesBacked
  <2>5. AllPlain(Txs(b)) /\ IcoValue \in Nat
    BY LedgerAssumption DEF PlainBlocks
  <2>6. Backed(Replay(before, Txs(b)).states, IcoValue)
    BY <2>4, <2>5, ReplayMintsNothing
  <2>7. block_state' = [h \in DOMAIN block_state \cup {b} |->
                          IF h = b THEN state[t] ELSE block_state[h]]
    BY <1>1, <2>1 DEF PutState
  <2> QED
    BY <2>3, <2>6, <2>7 DEF StatesBacked
<1>2. CASE block_state' = block_state
  BY <1>2 DEF StatesBacked
<1> QED
  BY <1>1, <1>2, OnlyPutStores

(* Whatever blocks arrive, in whatever order, no stored state holds more   *)
(* coins than the initial offering, if transactions are plain: no input is *)
(* named twice in one and no sum of outputs wraps.                         *)
THEOREM CoinsNeverMinted ==
  ASSUME PlainBlocks
  PROVE  Spec => []NoCoinsMinted
<1>1. Init => Inv /\ StatesBacked
  BY InitInv, InitBacked
<1>2. Inv /\ StatesBacked /\ [Next]_vars => Inv' /\ StatesBacked'
  BY InvStep, StepBackedNode
<1>3. StatesBacked => NoCoinsMinted
  BY DEF StatesBacked, NoCoinsMinted, Backed
<1> QED
  BY <1>1, <1>2, <1>3, PTL DEF Spec

-----------------------------------------------------------------------------
(* The walk of all_blocks_in_longest_chain: one block per height, each the *)
(* parent of the next, from the genesis to where the walk began.           *)
IsWalk(walk, b, m) ==
  walk = [k \in 0 .. m |->
            IF k = 0 THEN <<b>> ELSE <<Parent(Head(walk[k - 1]))>> \o walk[k - 1]]

LEMMA WalkExists ==
  ASSUME NEW b
  PROVE  \A m \in Nat : \E walk : IsWalk(walk, b, m)
<1> DEFINE N == {m \in Nat : \E walk : IsWalk(walk, b, m)}
<1>1. 0 \in N
  <2>1. IsWalk([k \in 0 .. 0 |-> <<b>>], b, 0)
    BY DEF IsWalk
  <2> QED
    BY <2>1
<1>2. ASSUME NEW m \in Nat, m \in N PROVE m + 1 \in N
  <2>1. PICK walk : IsWalk(walk, b, m)
    BY <1>2
  <2> DEFINE more == [k \in 0 .. m + 1 |->
                        IF k = m + 1 THEN <<Parent(Head(walk[m]))>> \o walk[m] ELSE walk[k]]
  <2>2. ASSUME NEW k \in 0 .. m + 1
        PROVE  more[k] = IF k = 0 THEN <<b>>
                         ELSE <<Parent(Head(more[k - 1]))>> \o more[k - 1]
    <3>1. CASE k = m + 1
      <4>1. k # 0 /\ k - 1 = m /\ m \in 0 .. m + 1 /\ m # m + 1
        BY <3>1
      <4>2. more[k - 1] = walk[m]
        BY <4>1
      <4>3. more[k] = <<Parent(Head(walk[m]))>> \o walk[m]
        BY <3>1
      <4> QED
        BY <4>1, <4>2, <4>3
    <3>2. CASE k # m + 1
      <4>1. k \in 0 .. m /\ more[k] = walk[k] /\ (k # 0 => more[k - 1] = walk[k - 1])
        BY <3>2
      <4>2. walk[k] = IF k = 0 THEN <<b>> ELSE <<Parent(Head(walk[k - 1]))>> \o walk[k - 1]
        BY <4>1, <2>1 DEF IsWalk
      <4> QED
        BY <4>1, <4>2
    <3> QED
      BY <3>1, <3>2
  <2>3. IsWalk(more, b, m + 1)
    BY <2>2 DEF IsWalk
  <2> QED
    BY <2>3
<1>3. Nat \subseteq N
  <2> HIDE DEF N
  <2> QED
    BY <1>1, <1>2, NatSetInduction
<1> QED
  BY <1>3

(* What Inv says of blocks, for any blocks and heights.                    *)
IsTree(chain) ==
  /\ chain[Genesis] = 0
  /\ \A h \in DOMAIN chain : chain[h] \in Nat
  /\ \A h \in DOMAIN chain \ {Genesis} :
       Parent(h) \in DOMAIN chain /\ chain[h] = chain[Parent(h)] + 1

LEMMA InvIsTree == Inv => IsTree(blocks)
BY DEF Inv, TypeOK, ChainHangsTogether, IsTree

(* A branch from a block of height `from` up to a block.                   *)
IsBranch(chain, path, from) ==
  /\ path \in Seq(DOMAIN chain) /\ Len(path) >= 1
  /\ \A i \in 1 .. Len(path) : chain[path[i]] = from + i - 1
  /\ \A i \in 2 .. Len(path) : Parent(path[i]) = path[i - 1]

IsBranchTo(chain, path, from, b) ==
  IsBranch(chain, path, from) /\ path[Len(path)] = b

LEMMA BranchGrows ==
  ASSUME NEW chain, IsTree(chain), NEW b,
         NEW from \in Nat, from > 0, NEW path, IsBranchTo(chain, path, from, b)
  PROVE  IsBranchTo(chain, <<Parent(Head(path))>> \o path, from - 1, b)
<1>1. /\ path \in Seq(DOMAIN chain) /\ Len(path) \in Nat /\ Len(path) >= 1
      /\ \A i \in 1 .. Len(path) : chain[path[i]] = from + i - 1
      /\ \A i \in 2 .. Len(path) : Parent(path[i]) = path[i - 1]
      /\ path[Len(path)] = b
  BY DEF IsBranchTo, IsBranch
<1>2. PICK h \in DOMAIN chain : h = path[1] /\ h = Head(path)
  BY <1>1
<1>3. chain[h] = from /\ h # Genesis
  BY <1>1, <1>2 DEF IsTree
<1>4. Parent(h) \in DOMAIN chain /\ chain[Parent(h)] = from - 1
  BY <1>3 DEF IsTree
<1>5. PICK p \in DOMAIN chain : p = Parent(h)
  BY <1>4
<1>6. PICK more : more = <<p>> \o path
  OBVIOUS
<1>7. /\ more \in Seq(DOMAIN chain) /\ Len(more) = Len(path) + 1 /\ more[1] = p
      /\ \A i \in 2 .. Len(more) : more[i] = path[i - 1]
  BY <1>1, <1>6
<1>8. \A i \in 1 .. Len(more) : chain[more[i]] = (from - 1) + i - 1
  <2> TAKE i \in 1 .. Len(more)
  <2>1. CASE i = 1
    BY <2>1, <1>4, <1>5, <1>7
  <2>2. CASE i # 1
    <3>1. i \in 2 .. Len(more) /\ i - 1 \in 1 .. Len(path)
      BY <2>2, <1>1, <1>7
    <3>2. chain[path[i - 1]] = from + (i - 1) - 1
      BY <3>1, <1>1
    <3> QED
      BY <3>1, <3>2, <1>7
  <2> QED
    BY <2>1, <2>2
<1>9. \A i \in 2 .. Len(more) : Parent(more[i]) = more[i - 1]
  <2> TAKE i \in 2 .. Len(more)
  <2>1. more[i] = path[i - 1]
    BY <1>7
  <2>2. CASE i = 2
    BY <2>1, <2>2, <1>2, <1>5, <1>7
  <2>3. CASE i # 2
    <3>1. i - 1 \in 2 .. Len(path) /\ i - 1 \in 2 .. Len(more)
      BY <2>3, <1>1, <1>7
    <3>2. Parent(path[i - 1]) = path[(i - 1) - 1] /\ more[i - 1] = path[(i - 1) - 1]
      BY <3>1, <1>1, <1>7
    <3> QED
      BY <2>1, <3>2
  <2> QED
    BY <2>2, <2>3
<1>10. Len(more) >= 1
  BY <1>1, <1>7
<1>11. more[Len(more)] = b
  <2>1. Len(more) \in 2 .. Len(more) /\ Len(more) - 1 = Len(path)
    BY <1>1, <1>7
  <2> QED
    BY <2>1, <1>1, <1>7
<1>12. IsBranchTo(chain, more, from - 1, b)
  BY <1>7, <1>8, <1>9, <1>10, <1>11 DEF IsBranchTo, IsBranch
<1> QED
  BY <1>2, <1>5, <1>6, <1>12

LEMMA PathIsBranch ==
  ASSUME NEW chain, IsTree(chain), NEW b \in DOMAIN chain
  PROVE  IsBranchTo(chain, PathTo(chain, b), 0, b)
<1> DEFINE m    == chain[b]
           walk == CHOOSE walk : IsWalk(walk, b, m)
<1>1. m \in Nat
  BY DEF IsTree
<1>2. IsWalk(walk, b, m)
  BY <1>1, WalkExists
<1>3. PathTo(chain, b) = walk[m]
  BY DEF PathTo, IsWalk
<1> HIDE DEF walk
<1>4. ASSUME NEW k \in 0 .. m
      PROVE  walk[k] = IF k = 0 THEN <<b>> ELSE <<Parent(Head(walk[k - 1]))>> \o walk[k - 1]
  BY <1>2 DEF IsWalk
<1> HIDE DEF m
<1> DEFINE N == {k \in Nat : k <= m => IsBranchTo(chain, walk[k], m - k, b)}
<1>5. 0 \in N
  <2>0. 0 \in 0 .. m
    BY <1>1
  <2>1. walk[0] = <<b>>
    BY <1>4, <2>0
  <2>2. IsBranchTo(chain, <<b>>, m, b)
    BY <1>1 DEF IsBranchTo, IsBranch, m
  <2> QED
    BY <1>1, <2>1, <2>2
<1>6. ASSUME NEW k \in Nat, k \in N PROVE k + 1 \in N
  <2> SUFFICES ASSUME k + 1 <= m PROVE IsBranchTo(chain, walk[k + 1], m - (k + 1), b)
    OBVIOUS
  <2>1. IsBranchTo(chain, walk[k], m - k, b)
    BY <1>1, <1>6
  <2>2. k + 1 \in 0 .. m /\ k + 1 # 0 /\ (k + 1) - 1 = k
    BY <1>1
  <2>3. walk[k + 1] = <<Parent(Head(walk[k]))>> \o walk[k]
    BY <1>4, <2>2
  <2>4. m - k \in Nat /\ m - k > 0 /\ (m - k) - 1 = m - (k + 1)
    BY <1>1
  <2> QED
    BY <2>1, <2>3, <2>4, BranchGrows
<1>7. Nat \subseteq N
  <2> HIDE DEF N
  <2> QED
    BY <1>5, <1>6, NatSetInduction
<1>8. m \in N
  BY <1>1, <1>7
<1>9. IsBranchTo(chain, walk[m], m - m, b)
  BY <1>1, <1>8
<1> HIDE DEF N
<1> QED
  BY <1>1, <1>3, <1>9

-----------------------------------------------------------------------------
(* Double spends.  The state of the genesis is never stored again.         *)
GenesisState == Genesis \in DOMAIN block_state /\ block_state[Genesis] = InitialState

LEMMA InitGenesisState == Init => GenesisState
BY DEF Init, GenesisState

LEMMA StepGenesisState == Inv /\ GenesisState /\ [Next]_vars => GenesisState'
<1> SUFFICES ASSUME Inv, GenesisState, [Next]_vars PROVE GenesisState'
  OBVIOUS
<1>1. ASSUME NEW t \in Thread, PutState(t) PROVE GenesisState'
  <2>1. block[t] # Genesis
    BY <1>1, BlockAssumption DEF Inv, InHand, PutState
  <2> QED
    BY <1>1, <2>1 DEF GenesisState, PutState
<1>2. CASE block_state' = block_state
  BY <1>2 DEF GenesisState
<1> QED
  BY <1>1, <1>2, OnlyPutStores

(* The transactions of the first blocks of a branch.                       *)
Used(path, i) == UNION {ToSet(Txs(path[m])) : m \in 2 .. i}

LEMMA NextOnBranch ==
  ASSUME Inv, PlainBlocks, NEW path, IsBranch(blocks, path, 0),
         NEW i \in 2 .. Len(path),
         SpentOnce(Used(path, i - 1), block_state[path[i - 1]])
  PROVE  /\ SpentOnce(Used(path, i), block_state[path[i]])
         /\ \A k \in 1 .. Len(Txs(path[i])) : \E before :
              /\ SpentOnce(Used(path, i - 1) \cup Earlier(Txs(path[i]), k), before)
              /\ TxPasses(before, Txs(path[i])[k])
<1>1. Len(path) \in Nat /\ path \in Seq(DOMAIN blocks)
  BY DEF IsBranch
<1>2. PICK h \in DOMAIN blocks : h = path[i]
  BY <1>1
<1>3. blocks[h] # 0 /\ Parent(h) = path[i - 1]
  BY <1>1, <1>2 DEF IsBranch
<1>4. h # Genesis
  BY <1>3 DEF Inv, ChainHangsTogether
<1>5. h \in Hash /\ h \in DOMAIN block_state
  BY <1>4 DEF Inv, TypeOK, StatesKept
<1>6. PICK utxo : utxo = block_state[path[i - 1]]
  OBVIOUS
<1>7. Replay(utxo, Txs(h)).ok /\ block_state[h] = Replay(utxo, Txs(h)).states
  BY <1>3, <1>4, <1>5, <1>6 DEF Inv, StatesReplay
<1>8. PICK txs : txs = Txs(h)
  OBVIOUS
<1>9. AllPlain(txs)
  BY <1>5, <1>8 DEF PlainBlocks
<1>10. PICK seen : seen = Used(path, i - 1)
  OBVIOUS
<1>11. Used(path, i) = seen \cup ToSet(txs)
  BY <1>1, <1>2, <1>8, <1>10 DEF Used
<1>12. SpentOnce(seen, utxo) /\ Replay(utxo, txs).ok
  BY <1>6, <1>7, <1>8, <1>10
<1>13. /\ SpentOnce(seen \cup ToSet(txs), Replay(utxo, txs).states)
       /\ \A k \in 1 .. Len(txs) : \E before :
            SpentOnce(seen \cup Earlier(txs, k), before) /\ TxPasses(before, txs[k])
  BY <1>9, <1>12, ReplaySpendsOnce
<1>14. SpentOnce(Used(path, i), block_state[path[i]])
  BY <1>2, <1>7, <1>8, <1>11, <1>13
<1> QED
  BY <1>2, <1>8, <1>10, <1>13, <1>14

LEMMA BranchSpendsOnce ==
  ASSUME Inv, GenesisState, PlainBlocks, NEW path, IsBranch(blocks, path, 0)
  PROVE  \A i \in 1 .. Len(path) : SpentOnce(Used(path, i), block_state[path[i]])
<1>1. /\ Len(path) \in Nat /\ Len(path) >= 1 /\ path \in Seq(DOMAIN blocks)
      /\ blocks[path[1]] = 0
  BY DEF IsBranch
<1> DEFINE N == {i \in Nat : i + 1 <= Len(path) =>
                   SpentOnce(Used(path, i + 1), block_state[path[i + 1]])}
<1>2. 0 \in N
  <2>1. PICK h \in DOMAIN blocks : h = path[1]
    BY <1>1
  <2>2. h = Genesis
    <3> SUFFICES ASSUME h # Genesis PROVE FALSE
      OBVIOUS
    <3>1. blocks[h] = blocks[Parent(h)] + 1 /\ Parent(h) \in DOMAIN blocks
      BY DEF Inv, ChainHangsTogether
    <3>2. blocks[Parent(h)] \in Nat
      BY <3>1 DEF Inv, TypeOK
    <3> QED
      BY <1>1, <2>1, <3>1, <3>2
  <2>3. Used(path, 1) = {}
    BY DEF Used
  <2>4. SpentOnce(Used(path, 1), block_state[path[1]])
    BY <2>1, <2>2, <2>3, NothingSpentYet DEF GenesisState
  <2>5. 0 + 1 = 1
    OBVIOUS
  <2>6. SpentOnce(Used(path, 0 + 1), block_state[path[0 + 1]])
    BY <2>4, <2>5
  <2> QED
    BY <2>6
<1>3. ASSUME NEW i \in Nat, i \in N PROVE i + 1 \in N
  <2> SUFFICES ASSUME (i + 1) + 1 <= Len(path)
               PROVE  SpentOnce(Used(path, (i + 1) + 1), block_state[path[(i + 1) + 1]])
    OBVIOUS
  <2>1. PICK j \in 2 .. Len(path) : j = (i + 1) + 1 /\ j - 1 = i + 1
    BY <1>1
  <2>2. SpentOnce(Used(path, i + 1), block_state[path[i + 1]])
    BY <1>1, <1>3
  <2>3. SpentOnce(Used(path, j - 1), block_state[path[j - 1]])
    BY <2>1, <2>2
  <2>4. SpentOnce(Used(path, j), block_state[path[j]])
    BY <2>3, NextOnBranch
  <2> QED
    BY <2>1, <2>4
<1>4. Nat \subseteq N
  <2> HIDE DEF N
  <2> QED
    BY <1>2, <1>3, NatSetInduction
<1> QED
  <2> TAKE i \in 1 .. Len(path)
  <2>1. i - 1 \in Nat /\ (i - 1) + 1 = i /\ i <= Len(path)
    BY <1>1
  <2>2. i - 1 \in N
    <3> HIDE DEF N
    <3> QED
      BY <2>1, <1>4
  <2> QED
    BY <2>1, <2>2

(* Two inputs at different places of a branch are different outpoints: of  *)
(* two transactions the later one passed on a state without what the       *)
(* earlier one had spent.                                                  *)
LEMMA LaterDiffers ==
  ASSUME NEW seen, NEW before, SpentOnce(seen, before),
         NEW s \in seen, NEW j \in DOMAIN s.input,
         NEW st, TxPasses(before, st), NEW l \in DOMAIN st.input
  PROVE  s.input[j] # st.input[l]
<1>1. s.input[j] \notin DOMAIN before
  BY DEF SpentOnce
<1>2. st.input[l] \in DOMAIN before
  BY DEF TxPasses, InputsUnspent
<1> QED
  BY <1>1, <1>2

IsSpend(path, i, k, j) ==
  /\ i \in 2 .. Len(path)
  /\ k \in 1 .. Len(Txs(path[i]))
  /\ j \in DOMAIN Txs(path[i])[k].input

LEMMA PlacesDiffer ==
  ASSUME Inv, GenesisState, PlainBlocks, NEW path, IsBranch(blocks, path, 0),
         NEW i, NEW k, NEW j, IsSpend(path, i, k, j),
         NEW p, NEW q, NEW l, IsSpend(path, p, q, l),
         i < p \/ (i = p /\ k < q)
  PROVE  Txs(path[i])[k].input[j] # Txs(path[p])[q].input[l]
<1>1. /\ Len(path) \in Nat
      /\ i \in 2 .. Len(path) /\ k \in 1 .. Len(Txs(path[i]))
      /\ j \in DOMAIN Txs(path[i])[k].input
      /\ p \in 2 .. Len(path) /\ q \in 1 .. Len(Txs(path[p]))
      /\ l \in DOMAIN Txs(path[p])[q].input
  BY DEF IsSpend, IsBranch
<1>2. p - 1 \in 1 .. Len(path)
  BY <1>1
<1>3. SpentOnce(Used(path, p - 1), block_state[path[p - 1]])
  BY <1>2, BranchSpendsOnce
<1>4. \A m \in 1 .. Len(Txs(path[p])) : \E before :
        /\ SpentOnce(Used(path, p - 1) \cup Earlier(Txs(path[p]), m), before)
        /\ TxPasses(before, Txs(path[p])[m])
  BY <1>1, <1>3, NextOnBranch
<1>5. PICK before :
        /\ SpentOnce(Used(path, p - 1) \cup Earlier(Txs(path[p]), q), before)
        /\ TxPasses(before, Txs(path[p])[q])
  BY <1>1, <1>4
<1>6. PICK seen, s, st :
        /\ seen = Used(path, p - 1) \cup Earlier(Txs(path[p]), q)
        /\ s = Txs(path[i])[k] /\ st = Txs(path[p])[q]
  OBVIOUS
<1>7. s \in seen
  <2>0. PICK h \in DOMAIN blocks : h = path[i] /\ h # Genesis
    <3>1. path \in Seq(DOMAIN blocks) /\ blocks[path[i]] # 0
      BY <1>1 DEF IsBranch
    <3> QED
      BY <1>1, <3>1 DEF Inv, ChainHangsTogether
  <2>1. AllPlain(Txs(h))
    BY <2>0 DEF Inv, TypeOK, PlainBlocks
  <2>2. Txs(h) \in Seq(ToSet(Txs(h)))
    BY <2>1 DEF AllPlain
  <2>3. Len(Txs(h)) \in Nat /\ k \in DOMAIN Txs(h) /\ s = Txs(h)[k]
    BY <1>1, <1>6, <2>0, <2>2
  <2>4. s \in ToSet(Txs(path[i]))
    BY <2>0, <2>3 DEF ToSet
  <2>5. CASE i < p
    <3>1. i \in 2 .. p - 1
      BY <1>1, <2>5
    <3> QED
      BY <1>6, <2>4, <3>1 DEF Used
  <2>6. CASE i = p /\ k < q
    <3>1. k \in 1 .. q - 1
      BY <1>1, <2>0, <2>3, <2>6
    <3> QED
      BY <1>6, <2>6, <3>1 DEF Earlier
  <2> QED
    BY <2>5, <2>6
<1>8. s.input[j] # st.input[l]
  BY <1>1, <1>5, <1>6, <1>7, LaterDiffers
<1> QED
  BY <1>6, <1>8

LEMMA Triple ==
  ASSUME NEW i, NEW k, NEW j
  PROVE  <<i>> \o <<k, j>> = <<i, k, j>>
<1> DEFINE S == {i, k, j}
<1>1. <<i>> \in Seq(S) /\ <<k, j>> \in Seq(S) /\ Len(<<i>>) = 1 /\ Len(<<k, j>>) = 2
  OBVIOUS
<1>2. PICK head \in Seq(S), back \in Seq(S) : head = <<i>> /\ back = <<k, j>>
  BY <1>1
<1>3. /\ head \o back \in Seq(S) /\ Len(head \o back) = 3
      /\ (head \o back)[1] = i /\ (head \o back)[2] = k /\ (head \o back)[3] = j
  BY <1>1, <1>2
<1>4. PICK joined : joined = head \o back
  OBVIOUS
<1>5. joined \in Seq(S) /\ Len(joined) = 3 /\ joined[1] = i /\ joined[2] = k /\ joined[3] = j
  BY <1>3, <1>4
<1>6. <<i, k, j>> \in Seq(S)
  OBVIOUS
<1>7. Len(<<i, k, j>>) = 3 /\ <<i, k, j>>[1] = i /\ <<i, k, j>>[2] = k /\ <<i, k, j>>[3] = j
  OBVIOUS
<1>8. PICK triple : triple = <<i, k, j>>
  OBVIOUS
<1>9. triple \in Seq(S) /\ Len(triple) = 3 /\ triple[1] = i /\ triple[2] = k /\ triple[3] = j
  BY <1>6, <1>7, <1>8
<1>10. \A m \in 1 .. Len(triple) : joined[m] = triple[m]
  <2>1. 1 .. Len(triple) = {1, 2, 3}
    BY <1>9
  <2> QED
    BY <2>1, <1>5, <1>9
<1>11. joined = triple
  BY <1>5, <1>9, <1>10, SeqEqual
<1> QED
  BY <1>2, <1>4, <1>8, <1>11

SpendsAlong(path) == UNION {{<<i>> \o s : s \in Spends(path[i])} : i \in 2 .. Len(path)}

IsPlace(path, r) ==
  \E i \in 2 .. Len(path) : \E k \in DOMAIN Txs(path[i]) :
    \E j \in DOMAIN Txs(path[i])[k].input : r = <<i, k, j>>

LEMMA SpendsOf == ASSUME NEW path, NEW r \in SpendsAlong(path) PROVE IsPlace(path, r)
<1>1. PICK i \in 2 .. Len(path) : r \in {<<i>> \o s : s \in Spends(path[i])}
  BY DEF SpendsAlong
<1>2. PICK s \in Spends(path[i]) : r = <<i>> \o s
  BY <1>1
<1>3. PICK k \in DOMAIN Txs(path[i]) : s \in {<<k, j>> : j \in DOMAIN Txs(path[i])[k].input}
  BY DEF Spends
<1>4. PICK j \in DOMAIN Txs(path[i])[k].input : s = <<k, j>>
  BY <1>3
<1>5. r = <<i, k, j>>
  BY <1>2, <1>4, Triple
<1> QED
  BY <1>5 DEF IsPlace

LEMMA BranchHasPlainTxs ==
  ASSUME Inv, PlainBlocks, NEW path, IsBranch(blocks, path, 0), NEW i \in 2 .. Len(path)
  PROVE  AllPlain(Txs(path[i]))
<1>1. path \in Seq(DOMAIN blocks) /\ blocks[path[i]] = i - 1
  BY DEF IsBranch
<1>2. PICK h \in DOMAIN blocks : h = path[i] /\ h # Genesis
  BY <1>1 DEF Inv, ChainHangsTogether
<1> QED
  BY <1>2 DEF Inv, TypeOK, PlainBlocks

SpentAt(path, r) == Txs(path[r[1]])[r[2]].input[r[3]]

SpentOnceAlong(path) ==
  \A r, s \in SpendsAlong(path) : SpentAt(path, r) = SpentAt(path, s) => r = s

LEMMA BranchHasNoDoubleSpend ==
  ASSUME Inv, GenesisState, PlainBlocks, NEW path, IsBranch(blocks, path, 0)
  PROVE  SpentOnceAlong(path)
<1> SUFFICES ASSUME NEW r \in SpendsAlong(path), NEW s \in SpendsAlong(path),
                    SpentAt(path, r) = SpentAt(path, s)
             PROVE  r = s
  BY DEF SpentOnceAlong
<1>1. PICK i \in 2 .. Len(path) : \E k \in DOMAIN Txs(path[i]) :
             \E j \in DOMAIN Txs(path[i])[k].input : r = <<i, k, j>>
  BY SpendsOf DEF IsPlace
<1>2. PICK k \in DOMAIN Txs(path[i]) : \E j \in DOMAIN Txs(path[i])[k].input : r = <<i, k, j>>
  BY <1>1
<1>3. PICK j \in DOMAIN Txs(path[i])[k].input : r = <<i, k, j>>
  BY <1>2
<1>4. PICK p \in 2 .. Len(path) : \E q \in DOMAIN Txs(path[p]) :
             \E l \in DOMAIN Txs(path[p])[q].input : s = <<p, q, l>>
  BY SpendsOf DEF IsPlace
<1>5. PICK q \in DOMAIN Txs(path[p]) : \E l \in DOMAIN Txs(path[p])[q].input : s = <<p, q, l>>
  BY <1>4
<1>6. PICK l \in DOMAIN Txs(path[p])[q].input : s = <<p, q, l>>
  BY <1>5
<1>7. Txs(path[i])[k].input[j] = Txs(path[p])[q].input[l]
  BY <1>3, <1>6 DEF SpentAt
<1>8. AllPlain(Txs(path[i])) /\ AllPlain(Txs(path[p]))
  BY BranchHasPlainTxs
<1>9. k \in 1 .. Len(Txs(path[i])) /\ q \in 1 .. Len(Txs(path[p]))
  BY <1>8 DEF AllPlain
<1>10. IsSpend(path, i, k, j) /\ IsSpend(path, p, q, l)
  BY <1>9 DEF IsSpend
<1>11. ~ (i < p \/ (i = p /\ k < q)) /\ ~ (p < i \/ (p = i /\ q < k))
  BY <1>7, <1>10, PlacesDiffer
<1>12. i = p /\ k = q
  BY <1>9, <1>11
<1>13. PlainTx(Txs(path[i])[k])
  BY <1>8 DEF AllPlain
<1>14. j = l
  BY <1>7, <1>12, <1>13 DEF PlainTx
<1> QED
  BY <1>3, <1>6, <1>12, <1>14

(* No branch of the tree spends an outpoint twice, whatever was inserted   *)
(* by which thread and in which order, if transactions are plain.          *)
THEOREM NeverSpentTwice ==
  ASSUME PlainBlocks
  PROVE  Spec => []NoDoubleSpend
<1>1. Inv /\ GenesisState => NoDoubleSpend
  <2> SUFFICES ASSUME Inv, GenesisState PROVE NoDoubleSpend
    OBVIOUS
  <2>1. \A h \in DOMAIN blocks : IsBranch(blocks, PathTo(blocks, h), 0)
    BY InvIsTree, PathIsBranch DEF IsBranchTo
  <2>2. \A h \in DOMAIN blocks : SpentOnceAlong(PathTo(blocks, h))
    BY <2>1, BranchHasNoDoubleSpend
  <2> QED
    BY <2>2 DEF NoDoubleSpend, SpentOnceAlong, SpendsAlong, SpentAt
<1>2. Init => Inv /\ GenesisState
  BY InitInv, InitGenesisState
<1>3. Inv /\ GenesisState /\ [Next]_vars => Inv' /\ GenesisState'
  BY InvStep, StepGenesisState
<1> QED
  BY <1>1, <1>2, <1>3, PTL DEF Spec

-----------------------------------------------------------------------------
(* Orphans.  The miner worker inserts this node's blocks only, and nobody  *)
(* sends a child of one before it is announced: the blocks an orphan waits *)
(* for are stored by network workers.                                      *)
OwnInHand ==
  pc[MinerWorker] \in {"check", "put", "insert"} => block[MinerWorker] \in OwnBlocks

OfPeers(b) == Parent(b) \in OwnBlocks => Parent(b) \in announced

FromPeers(w) ==
  /\ \A i \in 1 .. Len(todo[w]) : OfPeers(todo[w][i])
  /\ pc[w] = "parent" => OfPeers(block[w])
  /\ \A i \in 1 .. Len(orphan_blocks[w]) : Parent(orphan_blocks[w][i]) \notin OwnBlocks

(* An orphan whose parent is stored is one the loops have yet to come to.  *)
Awaited(w, b) == \E i \in n[w] + 1 .. Len(new_blocks[w]) : new_blocks[w][i] = b

OrphansWait(w) ==
  /\ pc[w] \in {"recv", "block", "parent"} => n[w] >= Len(new_blocks[w])
  /\ \A i \in 1 .. Len(orphan_blocks[w]) :
       LET b == Parent(orphan_blocks[w][i]) IN b \in DOMAIN blocks => Awaited(w, b)

OrphanInv == OwnInHand /\ \A w \in Worker : FromPeers(w) /\ OrphansWait(w)

LEMMA InitOrphanInv == Init => OrphanInv
<1> SUFFICES ASSUME Init PROVE OrphanInv
  OBVIOUS
<1>1. OwnInHand
  BY DEF Init, OwnInHand, Thread
<1>2. ASSUME NEW w \in Worker PROVE FromPeers(w) /\ OrphansWait(w)
  BY DEF Init, FromPeers, OrphansWait, Thread
<1> QED
  BY <1>1, <1>2 DEF OrphanInv

LEMMA OwnInHandStep == Inv /\ OwnInHand /\ [Next]_vars => OwnInHand'
<1> SUFFICES ASSUME Inv, OwnInHand, [Next]_vars PROVE OwnInHand'
  OBVIOUS
<1> USE NodeAssumption
<1>1. MinerWorker \in Thread /\ MinerWorker \notin Worker
  BY DEF Thread
<1>2. CASE RecvFinished
  <2>1. Head(finished) \in OwnBlocks
    BY <1>2 DEF Inv, TypeOK, RecvFinished
  <2> QED
    BY <1>1, <1>2, <2>1 DEF Inv, TypeOK, OwnInHand, RecvFinished, Take, Goto
<1>3. CASE CheckAndStore(MinerWorker)
  BY <1>1, <1>3 DEF Inv, TypeOK, OwnInHand, CheckAndStore, CheckPasses, CheckFails,
                    PutState, InsertBlock, Finish, AfterBlock, Take, Goto, localVars
<1>4. CASE UNCHANGED <<pc[MinerWorker], block[MinerWorker]>>
  BY <1>4 DEF OwnInHand
<1>5. ASSUME NEW w \in Worker, WorkerStep(w)
      PROVE  UNCHANGED <<pc[MinerWorker], block[MinerWorker]>>
  BY <1>1, <1>5 DEF Inv, TypeOK, WorkerStep, CheckAndStore, CheckPasses, CheckFails,
       PutState, InsertBlock, Finish, NextBlock, ParentKnown, ParentMissing, ReleaseOrphan,
       NextNewBlock, ReleaseDone, Take, Goto
<1>6. ASSUME NEW w \in Worker, NEW bs \in Deliveries, RecvBlocks(w, bs)
      PROVE  UNCHANGED <<pc[MinerWorker], block[MinerWorker]>>
  BY <1>1, <1>6 DEF Inv, TypeOK, RecvBlocks, Goto
<1>7. CASE ReadTip \/ (\E b \in Hash : Mine(b)) \/ UNCHANGED vars
  BY <1>7, <1>4 DEF ReadTip, Mine, vars
<1> QED
  BY <1>2, <1>3, <1>4, <1>5, <1>6, <1>7 DEF Next, MinerWorkerStep

(* What leaves a worker's locals and the chain alone.                      *)
LEMMA OrphanFrame ==
  ASSUME NEW w \in Worker, FromPeers(w), OrphansWait(w),
         UNCHANGED <<todo[w], pc[w], block[w], orphan_blocks[w], new_blocks[w], n[w], blocks>>,
         announced \subseteq announced'
  PROVE  FromPeers(w)' /\ OrphansWait(w)'
<1>1. FromPeers(w)'
  BY DEF FromPeers, OfPeers
<1>2. OrphansWait(w)'
  BY DEF OrphansWait, Awaited
<1> QED
  BY <1>1, <1>2

LEMMA OrphanRecv ==
  ASSUME Inv, NEW w \in Worker, FromPeers(w), OrphansWait(w), NEW bs \in Deliveries,
         RecvBlocks(w, bs)
  PROVE  FromPeers(w)' /\ OrphansWait(w)'
<1> USE NodeAssumption
<1>1. w \in Thread /\ bs \in Seq(Hash)
  BY DEF Thread
<1>2. /\ todo'[w] = bs /\ pc[w] = "recv" /\ pc'[w] = "block"
      /\ UNCHANGED <<block, orphan_blocks, new_blocks, n, blocks, announced>>
  BY <1>1 DEF RecvBlocks, Goto, Inv, TypeOK, chainVars
<1>3. \A i \in 1 .. Len(bs) : OfPeers(bs[i])
  <2> TAKE i \in 1 .. Len(bs)
  <2>1. bs[i] \in ToSet(bs)
    BY <1>1 DEF ToSet
  <2>2. Published(bs[i])
    BY <2>1 DEF RecvBlocks
  <2> QED
    BY <2>2 DEF Published, OfPeers
<1>4. FromPeers(w)'
  BY <1>2, <1>3 DEF FromPeers, OfPeers
<1>5. OrphansWait(w)'
  BY <1>2 DEF OrphansWait, Awaited
<1> QED
  BY <1>4, <1>5

LEMMA OrphanNextBlock ==
  ASSUME Inv, NEW w \in Worker, FromPeers(w), OrphansWait(w), NextBlock(w)
  PROVE  FromPeers(w)' /\ OrphansWait(w)'
<1>1. w \in Thread /\ todo[w] \in Seq(Hash) /\ todo[w] # <<>>
  BY DEF Thread, Inv, TypeOK, NextBlock
<1>2. PICK rest : rest = todo[w]
  OBVIOUS
<1>3. /\ rest \in Seq(Hash) /\ Len(rest) > 0 /\ Head(rest) = rest[1]
      /\ Len(Tail(rest)) = Len(rest) - 1
      /\ \A i \in 1 .. Len(rest) - 1 : Tail(rest)[i] = rest[i + 1]
  BY <1>1, <1>2
<1>4. /\ todo'[w] = Tail(rest) /\ pc[w] = "block"
      /\ \/ pc'[w] = "parent" /\ block'[w] = Head(rest)
         \/ pc'[w] = "block"
      /\ UNCHANGED <<orphan_blocks, new_blocks, n, blocks, announced>>
  BY <1>1, <1>2 DEF NextBlock, Take, Goto, Inv, TypeOK, chainVars
<1>5. \A i \in 1 .. Len(rest) : OfPeers(rest[i])
  BY <1>2 DEF FromPeers
<1>6. FromPeers(w)'
  <2>1. \A i \in 1 .. Len(Tail(rest)) : OfPeers(Tail(rest)[i])
    BY <1>3, <1>5
  <2>2. OfPeers(Head(rest))
    BY <1>3, <1>5
  <2>3. pc'[w] = "parent" => OfPeers(block'[w])
    BY <1>4, <2>2
  <2>4. \A b : OfPeers(b)' <=> OfPeers(b)
    BY <1>4 DEF OfPeers
  <2> QED
    BY <1>4, <2>1, <2>3, <2>4 DEF FromPeers
<1>7. OrphansWait(w)'
  BY <1>4 DEF OrphansWait, Awaited
<1> QED
  BY <1>6, <1>7

LEMMA OrphanKept ==
  ASSUME Inv, NEW w \in Worker, FromPeers(w), OrphansWait(w), ParentMissing(w)
  PROVE  FromPeers(w)' /\ OrphansWait(w)'
<1>1. w \in Thread /\ orphan_blocks[w] \in Seq(Hash) /\ block[w] \in Hash
  BY DEF Thread, Inv, TypeOK, InHand, ParentMissing
<1>2. PICK orphans, b : orphans = orphan_blocks[w] /\ b = block[w]
  OBVIOUS
<1>3. /\ orphan_blocks'[w] = Append(orphans, b)
      /\ pc[w] = "parent" /\ pc'[w] = "block" /\ Parent(b) \notin DOMAIN blocks
      /\ UNCHANGED <<todo, new_blocks, n, blocks, announced>>
  BY <1>1, <1>2 DEF ParentMissing, Take, Goto, Inv, TypeOK, chainVars, localVars
<1>4. Len(Append(orphans, b)) = Len(orphans) + 1 /\ Len(orphans) \in Nat
      /\ Append(orphans, b)[Len(orphans) + 1] = b
      /\ \A i \in 1 .. Len(orphans) : Append(orphans, b)[i] = orphans[i]
  BY <1>1, <1>2
<1>5. Parent(b) \notin OwnBlocks
  BY <1>2, <1>3 DEF FromPeers, OfPeers, Inv, AnnouncedAreStored
<1>6. FromPeers(w)'
  <2>1. \A i \in 1 .. Len(orphans) + 1 : Parent(Append(orphans, b)[i]) \notin OwnBlocks
    BY <1>2, <1>4, <1>5 DEF FromPeers
  <2>2. \A i \in 1 .. Len(orphan_blocks'[w]) : Parent(orphan_blocks'[w][i]) \notin OwnBlocks
    BY <1>3, <1>4, <2>1
  <2> QED
    BY <1>3, <2>2 DEF FromPeers, OfPeers
<1>7. OrphansWait(w)'
  <2>2. \A i \in 1 .. Len(orphans) + 1 :
          Parent(Append(orphans, b)[i]) \in DOMAIN blocks
            => Awaited(w, Parent(Append(orphans, b)[i]))
    BY <1>2, <1>3, <1>4 DEF OrphansWait
  <2>3. \A i \in 1 .. Len(orphan_blocks'[w]) :
          Parent(orphan_blocks'[w][i]) \in DOMAIN blocks'
            => Awaited(w, Parent(orphan_blocks'[w][i]))
    BY <1>3, <1>4, <2>2
  <2> QED
    BY <1>3, <2>3 DEF OrphansWait, Awaited
<1> QED
  BY <1>6, <1>7

LEMMA OrphanReleased ==
  ASSUME Inv, NEW w \in Worker, FromPeers(w), OrphansWait(w), ReleaseOrphan(w)
  PROVE  FromPeers(w)' /\ OrphansWait(w)'
<1>1. w \in Thread /\ orphan_blocks[w] \in Seq(Hash)
  BY DEF Thread, Inv, TypeOK
<1>2. PICK k \in Releasable(w) : orphan_blocks' = [orphan_blocks EXCEPT ![w] = RemoveAt(@, k)]
  BY DEF ReleaseOrphan
<1>3. PICK orphans : orphans = orphan_blocks[w]
  OBVIOUS
<1>4. k \in 1 .. Len(orphans)
  BY <1>1, <1>2, <1>3 DEF Releasable
<1>5. /\ orphan_blocks'[w] = RemoveAt(orphans, k)
      /\ pc[w] = "release" /\ pc'[w] = "check"
      /\ UNCHANGED <<todo, new_blocks, n, blocks, announced>>
  BY <1>1, <1>2, <1>3 DEF ReleaseOrphan, Goto, Inv, TypeOK, chainVars, localVars
<1>6. \A i \in 1 .. Len(RemoveAt(orphans, k)) :
        \E j \in 1 .. Len(orphans) : RemoveAt(orphans, k)[i] = orphans[j]
  BY <1>1, <1>3, <1>4, RemoveAtSeq
<1>7. FromPeers(w)'
  <2>1. \A i \in 1 .. Len(orphan_blocks'[w]) : Parent(orphan_blocks'[w][i]) \notin OwnBlocks
    BY <1>3, <1>5, <1>6 DEF FromPeers
  <2> QED
    BY <1>5, <2>1 DEF FromPeers, OfPeers
<1>8. OrphansWait(w)'
  <2>2. \A i \in 1 .. Len(orphan_blocks'[w]) :
          Parent(orphan_blocks'[w][i]) \in DOMAIN blocks'
            => Awaited(w, Parent(orphan_blocks'[w][i]))
    BY <1>3, <1>5, <1>6 DEF OrphansWait
  <2> QED
    BY <1>5, <2>2 DEF OrphansWait, Awaited
<1> QED
  BY <1>7, <1>8

LEMMA OrphanInsert ==
  ASSUME Inv, NEW w \in Worker, FromPeers(w), OrphansWait(w), InsertBlock(w)
  PROVE  FromPeers(w)' /\ OrphansWait(w)'
<1> USE NodeAssumption
<1>1. /\ w \in Thread /\ w # MinerWorker /\ block[w] \in Hash
      /\ new_blocks[w] \in Seq(Hash) /\ n[w] \in Nat /\ n[w] <= Len(new_blocks[w])
  BY DEF Thread, Inv, TypeOK, InHand, InsertBlock
<1>2. PICK inserted, b : inserted = new_blocks[w] /\ b = block[w]
  OBVIOUS
<1>3. /\ new_blocks'[w] = Append(inserted, b) /\ DOMAIN blocks' = DOMAIN blocks \cup {b}
      /\ pc'[w] = "release"
      /\ UNCHANGED <<todo, orphan_blocks, n, announced>>
  BY <1>1, <1>2 DEF InsertBlock, BlocksWith, AfterBlock, Goto, Inv, TypeOK
<1>4. /\ Len(inserted) \in Nat /\ Len(Append(inserted, b)) = Len(inserted) + 1
      /\ Append(inserted, b)[Len(inserted) + 1] = b
      /\ \A i \in 1 .. Len(inserted) : Append(inserted, b)[i] = inserted[i]
  BY <1>1, <1>2
<1>5. FromPeers(w)'
  BY <1>3 DEF FromPeers, OfPeers
<1>6. ASSUME NEW i \in 1 .. Len(orphan_blocks[w]), NEW c, c = Parent(orphan_blocks[w][i]),
             c \in DOMAIN blocks'
      PROVE  Awaited(w, c)'
  <2>1. CASE c = b
    <3>1. Len(inserted) + 1 \in n[w] + 1 .. Len(Append(inserted, b))
      BY <1>1, <1>2, <1>4
    <3> QED
      BY <2>1, <3>1, <1>3, <1>4 DEF Awaited
  <2>2. CASE c \in DOMAIN blocks
    <3>1. Awaited(w, c)
      BY <1>6, <2>2 DEF OrphansWait
    <3>2. PICK j \in n[w] + 1 .. Len(inserted) : inserted[j] = c
      BY <3>1, <1>2 DEF Awaited
    <3>3. /\ j \in n[w] + 1 .. Len(Append(inserted, b))
          /\ j \in 1 .. Len(inserted)
      BY <1>1, <1>4
    <3> QED
      BY <3>2, <3>3, <1>3, <1>4 DEF Awaited
  <2> QED
    BY <2>1, <2>2, <1>3, <1>6
<1>7. OrphansWait(w)'
  BY <1>3, <1>6 DEF OrphansWait
<1> QED
  BY <1>5, <1>7

(* A block of this node is no orphan's parent.                             *)
LEMMA OrphanMinerInsert ==
  ASSUME Inv, OwnInHand, NEW w \in Worker, FromPeers(w), OrphansWait(w),
         InsertBlock(MinerWorker)
  PROVE  FromPeers(w)' /\ OrphansWait(w)'
<1> USE NodeAssumption
<1>1. /\ w \in Thread /\ MinerWorker \in Thread /\ w # MinerWorker
      /\ block[MinerWorker] \in OwnBlocks
  BY DEF Thread, OwnInHand, InsertBlock
<1>2. /\ DOMAIN blocks' = DOMAIN blocks \cup {block[MinerWorker]}
      /\ UNCHANGED <<todo, orphan_blocks, n, announced>>
      /\ UNCHANGED <<pc[w], block[w], new_blocks[w]>>
  BY <1>1 DEF InsertBlock, BlocksWith, Take, Goto, Inv, TypeOK
<1>3. FromPeers(w)'
  BY <1>2 DEF FromPeers, OfPeers
<1>4. OrphansWait(w)'
  <2>1. \A i \in 1 .. Len(orphan_blocks[w]) :
          Parent(orphan_blocks[w][i]) \in DOMAIN blocks'
            => Parent(orphan_blocks[w][i]) \in DOMAIN blocks
    BY <1>1, <1>2 DEF FromPeers
  <2> QED
    BY <1>2, <2>1 DEF OrphansWait, Awaited
<1> QED
  BY <1>3, <1>4

(* The loops go on to the next new block when no orphan awaits this one.   *)
LEMMA OrphanNextNew ==
  ASSUME Inv, NEW w \in Worker, FromPeers(w), OrphansWait(w), NextNewBlock(w)
  PROVE  FromPeers(w)' /\ OrphansWait(w)'
<1>1. /\ w \in Thread /\ n[w] \in Nat /\ n[w] < Len(new_blocks[w])
      /\ orphan_blocks[w] \in Seq(Hash) /\ new_blocks[w] \in Seq(Hash)
  BY DEF Thread, Inv, TypeOK, NextNewBlock
<1>2. /\ n'[w] = n[w] + 1 /\ pc[w] = "release" /\ Releasable(w) = {}
      /\ UNCHANGED <<todo, pc, block, orphan_blocks, new_blocks, blocks, announced>>
  BY <1>1 DEF NextNewBlock, Inv, TypeOK, chainVars
<1>3. FromPeers(w)'
  BY <1>2 DEF FromPeers, OfPeers
<1>4. ASSUME NEW i \in 1 .. Len(orphan_blocks[w]), NEW c, c = Parent(orphan_blocks[w][i]),
             Awaited(w, c)
      PROVE  Awaited(w, c)'
  <2>1. PICK j \in n[w] + 1 .. Len(new_blocks[w]) : new_blocks[w][j] = c
    BY <1>4 DEF Awaited
  <2>2. j # n[w] + 1
    <3>1. i \in DOMAIN orphan_blocks[w]
      BY <1>1
    <3> QED
      BY <1>2, <1>4, <2>1, <3>1 DEF Releasable
  <2>3. j \in n'[w] + 1 .. Len(new_blocks[w])
    BY <1>1, <1>2, <2>2
  <2> QED
    BY <1>2, <2>1, <2>3 DEF Awaited
<1>5. OrphansWait(w)'
  BY <1>2, <1>4 DEF OrphansWait
<1> QED
  BY <1>3, <1>5

LEMMA OrphanRest ==
  ASSUME Inv, NEW w \in Worker, FromPeers(w), OrphansWait(w),
         \/ ParentKnown(w) \/ CheckPasses(w) \/ CheckFails(w)
         \/ PutState(w) \/ ReleaseDone(w) \/ Finish(w)
  PROVE  FromPeers(w)' /\ OrphansWait(w)'
<1> USE NodeAssumption
<1>1. /\ w \in Thread /\ w # MinerWorker /\ n[w] \in Nat
      /\ new_blocks[w] \in Seq(Hash) /\ orphan_blocks[w] \in Seq(Hash)
  BY DEF Thread, Inv, TypeOK
<1>2. CASE ParentKnown(w) \/ CheckPasses(w) \/ CheckFails(w) \/ PutState(w)
  <2>1. /\ UNCHANGED <<todo, orphan_blocks, new_blocks, n, blocks, announced>>
        /\ pc'[w] \in {"check", "put", "release", "insert"}
    BY <1>1, <1>2 DEF ParentKnown, CheckPasses, CheckFails, PutState, AfterBlock, Goto,
                      Inv, TypeOK, chainVars, localVars
  <2> QED
    BY <2>1 DEF FromPeers, OfPeers, OrphansWait, Awaited
<1>3. CASE ReleaseDone(w)
  <2>1. /\ UNCHANGED <<todo, orphan_blocks, new_blocks, n, blocks, announced>>
        /\ pc'[w] = "block" /\ n[w] >= Len(new_blocks[w])
    BY <1>1, <1>3 DEF ReleaseDone, Goto, Inv, TypeOK, chainVars, localVars
  <2> QED
    BY <2>1 DEF FromPeers, OfPeers, OrphansWait, Awaited
<1>4. CASE Finish(w)
  <2>1. /\ UNCHANGED <<todo, orphan_blocks, blocks>> /\ announced \subseteq announced'
        /\ pc[w] = "block" /\ pc'[w] = "recv"
        /\ n'[w] = 0 /\ new_blocks'[w] = <<>>
    BY <1>1, <1>4 DEF Finish, Goto, Inv, TypeOK, chainVars
  <2>2. \A c : ~ Awaited(w, c)
    BY <1>1, <2>1 DEF OrphansWait, Awaited
  <2>3. OrphansWait(w)'
    BY <2>1, <2>2 DEF OrphansWait
  <2> QED
    BY <2>1, <2>3 DEF FromPeers, OfPeers
<1> QED
  BY <1>2, <1>3, <1>4

OneWorker == \A v, w \in Worker : v = w

LEMMA OrphanInvStep ==
  ASSUME OneWorker
  PROVE  Inv /\ OrphanInv /\ [Next]_vars => OrphanInv'
<1> SUFFICES ASSUME Inv, OrphanInv, [Next]_vars PROVE OrphanInv'
  OBVIOUS
<1>1. OwnInHand'
  BY OwnInHandStep DEF OrphanInv
<1>2. ASSUME NEW w \in Worker PROVE FromPeers(w)' /\ OrphansWait(w)'
  <2> USE NodeAssumption
  <2>0. /\ FromPeers(w) /\ OrphansWait(w) /\ OwnInHand
        /\ w \in Thread /\ MinerWorker \in Thread /\ w # MinerWorker
    BY DEF OrphanInv, Thread
  <2>1. CASE \E v \in Worker, bs \in Deliveries : RecvBlocks(v, bs)
    BY <2>0, <2>1, OrphanRecv DEF OneWorker
  <2>2. CASE \E v \in Worker : WorkerStep(v)
    <3>1. WorkerStep(w)
      BY <2>2 DEF OneWorker
    <3> QED
      BY <2>0, <3>1, OrphanNextBlock, OrphanKept, OrphanReleased, OrphanInsert,
         OrphanNextNew, OrphanRest DEF WorkerStep, CheckAndStore
  <2>3. CASE InsertBlock(MinerWorker)
    BY <2>0, <2>3, OrphanMinerInsert
  <2>4. CASE \/ ReadTip \/ (\E b \in Hash : Mine(b)) \/ RecvFinished \/ UNCHANGED vars
             \/ CheckPasses(MinerWorker) \/ CheckFails(MinerWorker)
             \/ PutState(MinerWorker) \/ Finish(MinerWorker)
    <3>1. UNCHANGED <<todo[w], pc[w], block[w], orphan_blocks[w], new_blocks[w], n[w], blocks>>
      BY <2>0, <2>4 DEF ReadTip, Mine, RecvFinished, vars, CheckPasses, CheckFails,
           PutState, Finish, Take, Goto, Inv, TypeOK, chainVars, localVars
    <3>2. announced \subseteq announced'
      BY <2>4 DEF ReadTip, Mine, RecvFinished, vars, CheckPasses, CheckFails, PutState,
           Finish
    <3> QED
      BY <2>0, <3>1, <3>2, OrphanFrame
  <2> QED
    BY <2>1, <2>2, <2>3, <2>4 DEF Next, MinerWorkerStep, CheckAndStore
<1> QED
  BY <1>1, <1>2 DEF OrphanInv

(* With one network worker the orphan loops keep the promise of the README *)
(* for any blocks and messages: between messages no orphan has its parent  *)
(* in the chain, however deep orphans wait for orphans and whatever the    *)
(* miner worker inserts beside them.                                       *)
THEOREM OrphansReleased ==
  ASSUME OneWorker
  PROVE  Spec => []NoStrandedOrphan
<1>1. Inv /\ OrphanInv => NoStrandedOrphan
  <2> SUFFICES ASSUME Inv, OrphanInv, \A t \in Thread : pc[t] = "recv",
                      NEW w \in Worker, NEW b \in ToSet(orphan_blocks[w])
               PROVE  Parent(b) \notin DOMAIN blocks
    BY DEF NoStrandedOrphan
  <2>1. /\ pc[w] = "recv" /\ OrphansWait(w) /\ orphan_blocks[w] \in Seq(Hash)
        /\ n[w] \in Nat /\ Len(new_blocks[w]) \in Nat
    BY DEF Thread, OrphanInv, Inv, TypeOK
  <2>2. PICK i \in 1 .. Len(orphan_blocks[w]) : b = orphan_blocks[w][i]
    BY <2>1 DEF ToSet
  <2>3. \A c : ~ Awaited(w, c)
    BY <2>1 DEF OrphansWait, Awaited
  <2> QED
    BY <2>1, <2>2, <2>3 DEF OrphansWait
<1>2. Init => Inv /\ OrphanInv
  BY InitInv, InitOrphanInv
<1>3. Inv /\ OrphanInv /\ [Next]_vars => Inv' /\ OrphanInv'
  BY InvStep, OrphanInvStep
<1> QED
  BY <1>1, <1>2, <1>3, PTL DEF Spec
=============================================================================
