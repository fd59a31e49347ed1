--------------------------- MODULE ReadersProofs ---------------------------
(***************************************************************************)
(* Proofs about module Readers, for any number of requests, workers,       *)
(* blocks and messages: no look-up of a reader fails, and every answer is  *)
(* one that a reading at one moment could have given.  The argument is     *)
(* that the writers keep Inv of NodeProofs and only ever add to the chain, *)
(* so what a reader has seen stays there with its height.                  *)
(***************************************************************************)
EXTENDS Readers, NodeProofs

(* What a reader knows of the block it has come to.                        *)
Walking ==
  \A r \in Request :
    /\ api_pc[r] = "get" => next_hash[r] \in DOMAIN blocks
    /\ api_pc[r] = "walk" => /\ query[r] \in Query
                             /\ next_hash[r] \in DOMAIN blocks
                             /\ height[r] = blocks[next_hash[r]]
    /\ api_pc[r] = "tip" => query[r] \in Query
    /\ api_pc[r] = "get" => query[r] \in Query

GenWatching == prev_tip \in DOMAIN blocks

ReadersInv ==
  /\ Inv
  /\ ReadersTypeOK
  /\ Walking
  /\ GenWatching

-----------------------------------------------------------------------------
(* The chain only grows, and no height ever changes.                       *)
LEMMA BlocksGrow ==
  Inv /\ [Next]_vars => /\ DOMAIN blocks \subseteq DOMAIN blocks'
                        /\ \A h \in DOMAIN blocks : blocks'[h] = blocks[h]
<1> SUFFICES ASSUME Inv, [Next]_vars
             PROVE  /\ DOMAIN blocks \subseteq DOMAIN blocks'
                    /\ \A h \in DOMAIN blocks : blocks'[h] = blocks[h]
  OBVIOUS
<1>1. ASSUME NEW t \in Thread, InsertBlock(t)
      PROVE  /\ DOMAIN blocks \subseteq DOMAIN blocks'
             /\ \A h \in DOMAIN blocks : blocks'[h] = blocks[h]
  <2>1. block[t] # Genesis
    BY <1>1, BlockAssumption DEF Inv, InHand, InsertBlock
  <2>2. blocks' = [h \in DOMAIN blocks \cup {block[t]} |->
                     IF h = block[t] THEN blocks[Parent(block[t])] + 1 ELSE blocks[h]]
    BY <1>1 DEF InsertBlock, BlocksWith
  <2>3. block[t] \in DOMAIN blocks => blocks[block[t]] = blocks[Parent(block[t])] + 1
    BY <2>1 DEF Inv, ChainHangsTogether
  <2> QED
    BY <2>2, <2>3
<1>2. \/ \E t \in Thread : InsertBlock(t)
      \/ UNCHANGED blocks
  BY DEF Next, vars, ReadTip, Mine, RecvBlocks, WorkerStep, MinerWorkerStep, NextBlock,
         ParentKnown, ParentMissing, CheckAndStore, CheckPasses, CheckFails, Finish,
         PutState, ReleaseOrphan, NextNewBlock, ReleaseDone, RecvFinished, chainVars,
         Thread
<1> QED
  BY <1>1, <1>2

(* The floors of the queries are block indices.                            *)
LEMMA QueryFloor == \A q \in Query : q.floor \in Nat
<1>1. \A q \in [path : {"longest-chain-tx"}, floor : {0}] : q.floor = 0
  OBVIOUS
<1>2. \A q \in [path : {"state"}, floor : BlockIndex] : q.floor \in BlockIndex
  OBVIOUS
<1>3. ASSUME NEW q \in Query PROVE q.floor \in Nat
  <2>1. CASE q \in [path : {"longest-chain-tx"}, floor : {0}]
    BY <1>1, <2>1
  <2>2. CASE q \in [path : {"state"}, floor : BlockIndex]
    BY <1>2, <2>2, ReadersAssumption
  <2> QED
    BY <2>1, <2>2 DEF Query
<1> QED
  BY <1>3

LEMMA ReadersInitInv == ReadersInit => ReadersInv
<1> SUFFICES ASSUME ReadersInit PROVE ReadersInv
  OBVIOUS
<1>1. Inv
  BY InitInv DEF ReadersInit
<1>2. Walking /\ GenWatching
  BY DEF ReadersInit, Walking, GenWatching, Init, NewBlocks
<1>3. ReadersTypeOK
  BY <1>1 DEF ReadersInit, ReadersTypeOK, Inv
<1> QED
  BY <1>1, <1>2, <1>3 DEF ReadersInv

-----------------------------------------------------------------------------
LEMMA WriterStepInv == ReadersInv /\ WriterStep => ReadersInv'
<1> SUFFICES ASSUME ReadersInv, WriterStep PROVE ReadersInv'
  OBVIOUS
<1>1. Inv'
  BY InvStep DEF ReadersInv, WriterStep
<1>2. /\ DOMAIN blocks \subseteq DOMAIN blocks'
      /\ \A h \in DOMAIN blocks : blocks'[h] = blocks[h]
  BY BlocksGrow DEF ReadersInv, WriterStep
<1>3. Walking' /\ GenWatching'
  BY <1>2 DEF ReadersInv, Walking, GenWatching, WriterStep, walkVars, genVars
<1>4. tip' \in Hash \cup {Genesis}
  BY <1>1 DEF Inv, TypeOK
<1>5. ReadersTypeOK'
  <2>1. TypeOK'
    BY <1>1 DEF Inv
  <2>2. tips' \in [Request -> SUBSET (Hash \cup {Genesis})]
    BY <1>4 DEF ReadersInv, ReadersTypeOK, WriterStep
  <2> QED
    BY <2>1, <2>2 DEF ReadersInv, ReadersTypeOK, WriterStep, walkVars, genVars
<1> QED
  BY <1>1, <1>3, <1>5 DEF ReadersInv

(* A reader changes nothing the writers use.                               *)
LEMMA NodeFrame ==
  ASSUME ReadersInv, UNCHANGED vars
  PROVE  Inv' /\ TypeOK' /\ UNCHANGED <<blocks, block_state, tip>>
<1>1. UNCHANGED <<blocks, block_state, tip>>
  BY DEF vars
<1>2. Inv'
  BY InvStep DEF ReadersInv
<1> QED
  BY <1>1, <1>2 DEF Inv

LEMMA ReceiveInv ==
  ASSUME NEW r \in Request, NEW q \in Query
  PROVE  ReadersInv /\ Receive(r, q) => ReadersInv'
<1> SUFFICES ASSUME ReadersInv, Receive(r, q) PROVE ReadersInv'
  OBVIOUS
<1>1. Inv' /\ TypeOK' /\ UNCHANGED <<blocks, block_state, tip>>
  BY NodeFrame DEF Receive
<1>2. tip \in Hash \cup {Genesis}
  BY DEF ReadersInv, Inv, TypeOK
<1>3. ReadersTypeOK'
  BY <1>1, <1>2 DEF ReadersInv, ReadersTypeOK, Receive, genVars
<1>4. Walking' /\ GenWatching'
  BY <1>1 DEF ReadersInv, ReadersTypeOK, Walking, GenWatching, Receive, genVars
<1> QED
  BY <1>1, <1>3, <1>4 DEF ReadersInv

LEMMA ApiReadTipInv ==
  ASSUME NEW r \in Request PROVE ReadersInv /\ ApiReadTip(r) => ReadersInv'
<1> SUFFICES ASSUME ReadersInv, ApiReadTip(r) PROVE ReadersInv'
  OBVIOUS
<1>1. Inv' /\ TypeOK' /\ UNCHANGED <<blocks, block_state, tip>>
  BY NodeFrame DEF ApiReadTip
<1>2. tip \in DOMAIN blocks /\ tip \in Hash \cup {Genesis}
  BY DEF ReadersInv, Inv, TypeOK
<1>3. ReadersTypeOK'
  BY <1>1, <1>2 DEF ReadersInv, ReadersTypeOK, ApiReadTip, genVars
<1>4. Walking' /\ GenWatching'
  BY <1>1, <1>2 DEF ReadersInv, ReadersTypeOK, Walking, GenWatching, ApiReadTip, genVars
<1> QED
  BY <1>1, <1>3, <1>4 DEF ReadersInv

LEMMA ApiGetTipInv ==
  ASSUME NEW r \in Request PROVE ReadersInv /\ ApiGetTip(r) => ReadersInv'
<1> SUFFICES ASSUME ReadersInv, ApiGetTip(r) PROVE ReadersInv'
  OBVIOUS
<1>1. Inv' /\ TypeOK' /\ UNCHANGED <<blocks, block_state, tip>>
  BY NodeFrame DEF ApiGetTip
<1>2. /\ next_hash[r] \in DOMAIN blocks
      /\ blocks[next_hash[r]] \in Nat
      /\ next_hash[r] \in Hash \cup {Genesis}
  BY DEF ReadersInv, Walking, ApiGetTip, Inv, TypeOK
<1>3. ReadersTypeOK'
  <2>1. <<next_hash[r]>> \in Seq(Hash \cup {Genesis})
    BY <1>2
  <2> QED
    BY <1>1, <1>2, <2>1 DEF ReadersInv, ReadersTypeOK, ApiGetTip, genVars
<1>4. Walking' /\ GenWatching'
  BY <1>1, <1>2 DEF ReadersInv, ReadersTypeOK, Walking, GenWatching, ApiGetTip, genVars
<1> QED
  BY <1>1, <1>3, <1>4 DEF ReadersInv

(* Above the floor the block in hand is not the genesis, so its parent is  *)
(* in the chain, one below it.                                             *)
LEMMA WalkBackInv ==
  ASSUME NEW r \in Request PROVE ReadersInv /\ WalkBack(r) => ReadersInv'
<1> SUFFICES ASSUME ReadersInv, WalkBack(r) PROVE ReadersInv'
  OBVIOUS
<1> DEFINE parent == Parent(next_hash[r])
<1>1. Inv' /\ TypeOK' /\ UNCHANGED <<blocks, block_state, tip>>
  BY NodeFrame DEF WalkBack
<1>2. /\ next_hash[r] \in DOMAIN blocks
      /\ height[r] = blocks[next_hash[r]]
      /\ query[r].floor \in Nat
      /\ height[r] > query[r].floor
  BY QueryFloor DEF ReadersInv, Walking, WalkBack
<1>3. next_hash[r] # Genesis
  BY <1>2 DEF ReadersInv, Inv, ChainHangsTogether
<1>4. /\ parent \in DOMAIN blocks
      /\ blocks[next_hash[r]] = blocks[parent] + 1
  BY <1>2, <1>3 DEF ReadersInv, Inv, ChainHangsTogether
<1>5. blocks[parent] \in Nat /\ parent \in Hash \cup {Genesis}
  BY <1>4 DEF ReadersInv, Inv, TypeOK
<1>6. height[r] - 1 = blocks[parent]
  BY <1>2, <1>4, <1>5
<1> HIDE DEF parent
<1>7. /\ next_hash' = [next_hash EXCEPT ![r] = parent]
      /\ hashes' = [hashes EXCEPT ![r] = Append(@, parent)]
      /\ height' = [height EXCEPT ![r] = blocks[parent]]
      /\ UNCHANGED <<vars, query, api_pc, answer, genVars, tips>>
  BY <1>6 DEF WalkBack, ReadersInv, ReadersTypeOK, parent
<1>8. ReadersTypeOK'
  <2>1. Append(hashes[r], parent) \in Seq(Hash \cup {Genesis})
    BY <1>5 DEF ReadersInv, ReadersTypeOK
  <2> QED
    BY <1>1, <1>5, <1>7, <2>1 DEF ReadersInv, ReadersTypeOK, genVars
<1>9. Walking' /\ GenWatching'
  BY <1>1, <1>4, <1>7 DEF ReadersInv, ReadersTypeOK, Walking, GenWatching, genVars,
                          WalkBack
<1> QED
  BY <1>1, <1>8, <1>9 DEF ReadersInv

LEMMA RespondInv ==
  ASSUME NEW r \in Request
  PROVE  ReadersInv /\ (Respond(r) \/ Done(r)) => ReadersInv'
<1> SUFFICES ASSUME ReadersInv, Respond(r) \/ Done(r) PROVE ReadersInv'
  OBVIOUS
<1>1. Inv' /\ TypeOK' /\ UNCHANGED <<blocks, block_state, tip>>
  BY NodeFrame DEF Respond, Done
<1>2. ReadersTypeOK'
  <2>1. CASE Respond(r)
    BY <1>1, <2>1 DEF ReadersInv, ReadersTypeOK, Respond, genVars
  <2>2. CASE Done(r)
    <3>1. <<>> \in Seq(Hash \cup {Genesis})
      OBVIOUS
    <3> QED
      BY <1>1, <2>2, <3>1 DEF ReadersInv, ReadersTypeOK, Done, genVars
  <2> QED
    BY <2>1, <2>2
<1>3. Walking' /\ GenWatching'
  BY <1>1 DEF ReadersInv, ReadersTypeOK, Walking, GenWatching, Respond, Done, genVars
<1> QED
  BY <1>1, <1>2, <1>3 DEF ReadersInv

LEMMA GeneratorInv == ReadersInv /\ (GenReadTip \/ GenReadState) => ReadersInv'
<1> SUFFICES ASSUME ReadersInv, GenReadTip \/ GenReadState PROVE ReadersInv'
  OBVIOUS
<1>1. Inv' /\ TypeOK' /\ UNCHANGED <<blocks, block_state, tip>>
  BY NodeFrame DEF GenReadTip, GenReadState
<1>2. tip \in DOMAIN blocks /\ tip \in Hash \cup {Genesis}
  BY DEF ReadersInv, Inv, TypeOK
<1>3. ReadersTypeOK'
  BY <1>1, <1>2 DEF ReadersInv, ReadersTypeOK, GenReadTip, GenReadState, walkVars
<1>4. Walking' /\ GenWatching'
  BY <1>1, <1>2 DEF ReadersInv, Walking, GenWatching, GenReadTip, GenReadState, walkVars
<1> QED
  BY <1>1, <1>3, <1>4 DEF ReadersInv

LEMMA ReadersInvStep == ReadersInv /\ [ReadersNext]_readersVars => ReadersInv'
<1> SUFFICES ASSUME ReadersInv, [ReadersNext]_readersVars PROVE ReadersInv'
  OBVIOUS
<1>1. CASE WriterStep
  BY <1>1, WriterStepInv
<1>2. ASSUME NEW r \in Request, ApiStep(r) PROVE ReadersInv'
  BY <1>2, ReceiveInv, ApiReadTipInv, ApiGetTipInv, WalkBackInv, RespondInv DEF ApiStep
<1>3. CASE GenReadTip \/ GenReadState
  BY <1>3, GeneratorInv
<1>4. CASE UNCHANGED readersVars
  <2>1. Inv' /\ TypeOK' /\ UNCHANGED <<blocks, block_state, tip>>
    BY <1>4, NodeFrame DEF readersVars
  <2>2. ReadersTypeOK' /\ Walking' /\ GenWatching'
    BY <1>4, <2>1 DEF ReadersInv, ReadersTypeOK, Walking, GenWatching, readersVars,
                      walkVars, genVars
  <2> QED
    BY <2>1, <2>2 DEF ReadersInv
<1> QED
  BY <1>1, <1>2, <1>3, <1>4 DEF ReadersNext

-----------------------------------------------------------------------------
(* No look-up of the API's walks or of the generator fails, so no reader   *)
(* panics with a mutex held, however many of them run.                     *)
THEOREM ReadersNeverFail == ReadersSpec => []LookUpsSucceed
<1>1. ReadersInv => LookUpsSucceed
  <2> SUFFICES ASSUME ReadersInv PROVE LookUpsSucceed
    OBVIOUS
  <2>1. DOMAIN blocks \subseteq DOMAIN block_state
    BY DEF ReadersInv, Inv, StatesKept
  <2>2. ASSUME NEW r \in Request, api_pc[r] = "walk", height[r] > query[r].floor
        PROVE  Parent(next_hash[r]) \in DOMAIN blocks
    <3>1. /\ next_hash[r] \in DOMAIN blocks
          /\ blocks[next_hash[r]] > query[r].floor
          /\ query[r].floor \in Nat
      BY <2>2, QueryFloor DEF ReadersInv, Walking
    <3>2. next_hash[r] # Genesis
      BY <3>1 DEF ReadersInv, Inv, ChainHangsTogether
    <3> QED
      BY <3>1, <3>2 DEF ReadersInv, Inv, ChainHangsTogether
  <2> QED
    BY <2>1, <2>2 DEF LookUpsSucceed, ReadersInv, Walking, GenWatching
<1> QED
  BY ReadersInitInv, ReadersInvStep, <1>1, PTL DEF ReadersSpec

(* The readers' locals keep their shape.                                   *)
THEOREM ReadersTypeCorrect == ReadersSpec => []ReadersTypeOK
<1>1. ReadersInv => ReadersTypeOK
  BY DEF ReadersInv
<1> QED
  BY ReadersInitInv, ReadersInvStep, <1>1, PTL DEF ReadersSpec

(* The height counted down is the height of the block reached, so a walk   *)
(* ends exactly at the index asked for, or at the genesis.                 *)
THEOREM WalksKeepHeight == ReadersSpec => []WalkKeepsHeight
<1>1. ReadersInv => WalkKeepsHeight
  BY DEF ReadersInv, Walking, WalkKeepsHeight
<1> QED
  BY ReadersInitInv, ReadersInvStep, <1>1, PTL DEF ReadersSpec

-----------------------------------------------------------------------------
(* Branches.  A block has one branch above a given height, and growth of   *)
(* the chain leaves the branches there are.                                *)
Aligned(p, q, from) ==
  Len(q) = from + Len(p) /\ \A i \in 1 .. Len(p) : p[i] = q[from + i]

LEMMA BranchesAgree ==
  ASSUME NEW chain, NEW b, NEW from \in Nat, NEW p, NEW q,
         IsBranchTo(chain, p, from, b), IsBranchTo(chain, q, 0, b)
  PROVE  Aligned(p, q, from)
<1>1. /\ p \in Seq(DOMAIN chain) /\ Len(p) \in Nat /\ Len(p) >= 1
      /\ \A i \in 1 .. Len(p) : chain[p[i]] = from + i - 1
      /\ \A i \in 2 .. Len(p) : Parent(p[i]) = p[i - 1]
      /\ p[Len(p)] = b
  BY DEF IsBranchTo, IsBranch
<1>2. /\ q \in Seq(DOMAIN chain) /\ Len(q) \in Nat /\ Len(q) >= 1
      /\ \A i \in 1 .. Len(q) : chain[q[i]] = 0 + i - 1
      /\ \A i \in 2 .. Len(q) : Parent(q[i]) = q[i - 1]
      /\ q[Len(q)] = b
  BY DEF IsBranchTo, IsBranch
<1>3. Len(q) = from + Len(p)
  <2>1. chain[b] = from + Len(p) - 1
    <3>1. Len(p) \in 1 .. Len(p)
      BY <1>1
    <3> QED
      BY <3>1, <1>1
  <2>2. chain[b] = 0 + Len(q) - 1
    <3>1. Len(q) \in 1 .. Len(q)
      BY <1>2
    <3> QED
      BY <3>1, <1>2
  <2> QED
    BY <2>1, <2>2, <1>1, <1>2
<1> DEFINE N == {j \in Nat : j < Len(p) => p[Len(p) - j] = q[Len(q) - j]}
<1>4. 0 \in N
  BY <1>1, <1>2
<1>5. ASSUME NEW j \in Nat, j \in N PROVE j + 1 \in N
  <2> SUFFICES ASSUME j + 1 < Len(p) PROVE p[Len(p) - (j + 1)] = q[Len(q) - (j + 1)]
    OBVIOUS
  <2>1. /\ Len(p) - j \in 2 .. Len(p) /\ (Len(p) - j) - 1 = Len(p) - (j + 1)
        /\ Len(q) - j \in 2 .. Len(q) /\ (Len(q) - j) - 1 = Len(q) - (j + 1)
    BY <1>1, <1>2, <1>3
  <2>2. p[Len(p) - j] = q[Len(q) - j]
    BY <1>1, <1>5
  <2>3. Parent(p[Len(p) - j]) = p[(Len(p) - j) - 1]
    BY <1>1, <2>1
  <2>4. Parent(q[Len(q) - j]) = q[(Len(q) - j) - 1]
    BY <1>2, <2>1
  <2> QED
    BY <2>1, <2>2, <2>3, <2>4
<1>6. Nat \subseteq N
  <2> HIDE DEF N
  <2> QED
    BY <1>4, <1>5, NatSetInduction
<1>7. ASSUME NEW i \in 1 .. Len(p) PROVE p[i] = q[from + i]
  <2>0. Len(p) - i \in Nat /\ Len(p) - i < Len(p)
    BY <1>1
  <2>1. Len(p) - i \in N
    <3> HIDE DEF N
    <3> QED
      BY <1>6, <2>0
  <2>2. p[Len(p) - (Len(p) - i)] = q[Len(q) - (Len(p) - i)]
    BY <2>0, <2>1
  <2>3. Len(p) - (Len(p) - i) = i /\ Len(q) - (Len(p) - i) = from + i
    BY <1>1, <1>3
  <2> QED
    BY <2>2, <2>3
<1> QED
  BY <1>3, <1>7 DEF Aligned

LEMMA BranchKept ==
  ASSUME NEW chain, NEW more, DOMAIN chain \subseteq DOMAIN more,
         \A h \in DOMAIN chain : more[h] = chain[h],
         NEW b, NEW from, NEW p, IsBranchTo(chain, p, from, b)
  PROVE  IsBranchTo(more, p, from, b)
<1>1. p \in Seq(DOMAIN chain)
  BY DEF IsBranchTo, IsBranch
<1>2. p \in Seq(DOMAIN more) /\ \A i \in 1 .. Len(p) : more[p[i]] = chain[p[i]]
  BY <1>1
<1> QED
  BY <1>2 DEF IsBranchTo, IsBranch

LEMMA PathKept ==
  ASSUME NEW chain, NEW more, DOMAIN chain \subseteq DOMAIN more,
         \A h \in DOMAIN chain : more[h] = chain[h],
         IsTree(chain), IsTree(more), NEW b \in DOMAIN chain
  PROVE  PathTo(more, b) = PathTo(chain, b)
<1>1. PICK p, q : p = PathTo(chain, b) /\ q = PathTo(more, b)
  OBVIOUS
<1>2. IsBranchTo(more, p, 0, b)
  BY <1>1, PathIsBranch, BranchKept
<1>3. IsBranchTo(more, q, 0, b)
  BY <1>1, PathIsBranch
<1>4. p \in Seq(DOMAIN more) /\ q \in Seq(DOMAIN more)
  BY <1>2, <1>3 DEF IsBranchTo, IsBranch
<1>5. 0 \in Nat
  OBVIOUS
<1>6. Aligned(p, q, 0)
  BY <1>2, <1>3, <1>5, BranchesAgree
<1>7. Len(q) = Len(p) /\ \A i \in 1 .. Len(p) : q[i] = p[i]
  BY <1>4, <1>6 DEF Aligned
<1>8. p = q
  BY <1>4, <1>7, SeqEqual
<1> QED
  BY <1>1, <1>8

LEMMA ReverseAppend ==
  ASSUME NEW S, NEW s \in Seq(S), NEW e \in S
  PROVE  Reverse(Append(s, e)) = <<e>> \o Reverse(s)
<1>1. PICK back, more : back = Reverse(s) /\ more = Append(s, e)
  OBVIOUS
<1>2. /\ back \in Seq(S) /\ Len(back) = Len(s) /\ Len(s) \in Nat
      /\ \A i \in 1 .. Len(s) : back[i] = s[Len(s) - i + 1]
  BY <1>1 DEF Reverse
<1>3. /\ more \in Seq(S) /\ Len(more) = Len(s) + 1 /\ more[Len(s) + 1] = e
      /\ \A i \in 1 .. Len(s) : more[i] = s[i]
  BY <1>1
<1>4. PICK l, r : l = Reverse(more) /\ r = <<e>> \o back
  OBVIOUS
<1>5. /\ l \in Seq(S) /\ Len(l) = Len(s) + 1
      /\ \A i \in 1 .. Len(s) + 1 : l[i] = more[Len(s) + 1 - i + 1]
  BY <1>2, <1>3, <1>4 DEF Reverse
<1>6. /\ r \in Seq(S) /\ Len(r) = Len(s) + 1 /\ r[1] = e
      /\ \A i \in 2 .. Len(s) + 1 : r[i] = back[i - 1]
  BY <1>2, <1>4
<1>7. ASSUME NEW i \in 1 .. Len(s) + 1 PROVE l[i] = r[i]
  <2>1. CASE i = 1
    BY <2>1, <1>2, <1>3, <1>5, <1>6
  <2>2. CASE i # 1
    <3>1. i \in 2 .. Len(s) + 1 /\ i - 1 \in 1 .. Len(s)
      BY <2>2, <1>2
    <3>2. /\ Len(s) - (i - 1) + 1 \in 1 .. Len(s)
          /\ Len(s) + 1 - i + 1 = Len(s) - (i - 1) + 1
      BY <3>1, <1>2
    <3>3. r[i] = s[Len(s) - (i - 1) + 1]
      BY <3>1, <1>2, <1>6
    <3>4. l[i] = more[Len(s) - (i - 1) + 1]
      BY <3>2, <1>5
    <3> QED
      BY <3>2, <3>3, <3>4, <1>3
  <2> QED
    BY <2>1, <2>2
<1>8. l = r
  BY <1>5, <1>6, <1>7, SeqEqual
<1> QED
  BY <1>1, <1>4, <1>8

(* The states stored along a branch are the replay of it from the genesis. *)
IsAfter(after, path, m) ==
  after = [k \in 1 .. m |-> IF k = 1 THEN InitialState
                            ELSE Replay(after[k - 1], Txs(path[k])).states]

LEMMA StateAlongBranch ==
  ASSUME Inv, GenesisState, NEW path, IsBranch(blocks, path, 0), NEW m \in 1 .. Len(path)
  PROVE  StateAlong(path, m) = block_state[path[m]]
<1>1. /\ path \in Seq(DOMAIN blocks) /\ Len(path) \in Nat
      /\ \A i \in 1 .. Len(path) : blocks[path[i]] = 0 + i - 1
      /\ \A i \in 2 .. Len(path) : Parent(path[i]) = path[i - 1]
  BY DEF IsBranch
<1>2. block_state[path[1]] = InitialState
  <2>1. PICK h \in DOMAIN blocks : h = path[1] /\ blocks[h] = 0
    BY <1>1
  <2>2. h = Genesis
    <3> SUFFICES ASSUME h # Genesis PROVE FALSE
      OBVIOUS
    <3>1. Parent(h) \in DOMAIN blocks /\ blocks[h] = blocks[Parent(h)] + 1
      BY DEF Inv, ChainHangsTogether
    <3>2. blocks[Parent(h)] \in Nat
      BY <3>1 DEF Inv, TypeOK
    <3> QED
      BY <2>1, <3>1, <3>2
  <2> QED
    BY <2>1, <2>2 DEF GenesisState
<1>3. ASSUME NEW k \in 2 .. Len(path)
      PROVE  block_state[path[k]] = Replay(block_state[path[k - 1]], Txs(path[k])).states
  <2>1. PICK h \in DOMAIN blocks : h = path[k] /\ blocks[h] # 0
    BY <1>1
  <2>2. h # Genesis /\ h \in DOMAIN block_state
    BY <2>1 DEF Inv, ChainHangsTogether, StatesKept
  <2>3. Parent(h) = path[k - 1]
    BY <1>1, <2>1
  <2> QED
    BY <2>1, <2>2, <2>3 DEF Inv, StatesReplay
<1> DEFINE known == [k \in 1 .. m |-> block_state[path[k]]]
           after == CHOOSE after : IsAfter(after, path, m)
<1>4. IsAfter(known, path, m)
  <2>1. ASSUME NEW k \in 1 .. m
        PROVE  known[k] = IF k = 1 THEN InitialState
                          ELSE Replay(known[k - 1], Txs(path[k])).states
    <3>1. CASE k = 1
      BY <3>1, <1>2
    <3>2. CASE k # 1
      <4>1. k \in 2 .. Len(path) /\ k - 1 \in 1 .. m
        BY <3>2, <1>1
      <4>2. known[k - 1] = block_state[path[k - 1]]
        BY <4>1
      <4> QED
        BY <3>2, <4>1, <4>2, <1>3
    <3> QED
      BY <3>1, <3>2
  <2> QED
    BY <2>1 DEF IsAfter
<1>5. IsAfter(after, path, m)
  <2> HIDE DEF known
  <2> QED
    BY <1>4
<1>6. StateAlong(path, m) = after[m]
  BY DEF StateAlong, IsAfter
<1> HIDE DEF after, known
<1>7. ASSUME NEW k \in 1 .. m
      PROVE  after[k] = IF k = 1 THEN InitialState
                        ELSE Replay(after[k - 1], Txs(path[k])).states
  BY <1>5 DEF IsAfter
<1> DEFINE N == {k \in Nat : k + 1 <= m => after[k + 1] = block_state[path[k + 1]]}
<1>8. 0 \in N
  <2>1. 1 \in 1 .. m
    BY <1>1
  <2>2. after[1] = block_state[path[1]]
    BY <2>1, <1>2, <1>7
  <2>3. 0 + 1 = 1
    OBVIOUS
  <2> QED
    BY <2>2, <2>3
<1>9. ASSUME NEW k \in Nat, k \in N PROVE k + 1 \in N
  <2> SUFFICES ASSUME (k + 1) + 1 <= m
               PROVE  after[(k + 1) + 1] = block_state[path[(k + 1) + 1]]
    OBVIOUS
  <2>1. PICK j \in 2 .. Len(path) : j = (k + 1) + 1 /\ j \in 1 .. m /\ j - 1 = k + 1
    BY <1>1
  <2>2. after[j - 1] = block_state[path[j - 1]]
    BY <1>9, <2>1, <1>1
  <2>3. after[j] = Replay(after[j - 1], Txs(path[j])).states
    BY <2>1, <1>7
  <2>4. after[j] = block_state[path[j]]
    BY <2>2, <2>3, <1>3
  <2> QED
    BY <2>1, <2>4
<1>10. Nat \subseteq N
  <2> HIDE DEF N
  <2> QED
    BY <1>8, <1>9, NatSetInduction
<1>11. m - 1 \in Nat /\ (m - 1) + 1 = m
  BY <1>1
<1>12. m - 1 \in N
  <2> HIDE DEF N
  <2> QED
    BY <1>10, <1>11
<1>13. after[m] = block_state[path[m]]
  BY <1>11, <1>12
<1> QED
  BY <1>6, <1>13

-----------------------------------------------------------------------------
(* Which tip a request is answering for, at each place of its walk: the    *)
(* hashes it has passed are the branch from where it is up to that tip.    *)
Heading(r, t) ==
  /\ t \in DOMAIN blocks
  /\ api_pc[r] = "get" => next_hash[r] = t
  /\ api_pc[r] = "walk" =>
       /\ IsBranchTo(blocks, Reverse(hashes[r]), height[r], t)
       /\ Reverse(hashes[r])[1] = next_hash[r]
       /\ query[r].floor <= height[r] \/ next_hash[r] = t
  /\ api_pc[r] = "done" => answer[r] = AnswerAt(query[r], t)

Serves(r) ==
  /\ api_pc[r] # "idle" => query[r] \in Query
  /\ api_pc[r] = "tip" => tip \in tips[r]
  /\ api_pc[r] \in {"get", "walk", "done"} => \E t \in tips[r] : Heading(r, t)

Serving == \A r \in Request : Serves(r)

LEMMA InitServing == ReadersInit => Serving
BY DEF ReadersInit, Serving, Serves

(* A growing chain leaves a request its tip, and adds the new one to those *)
(* it has seen.                                                            *)
LEMMA HeadingKept ==
  ASSUME ReadersInv, WriterStep, NEW r \in Request, NEW t, Heading(r, t)
  PROVE  Heading(r, t)'
<1>1. /\ DOMAIN blocks \subseteq DOMAIN blocks'
      /\ \A h \in DOMAIN blocks : blocks'[h] = blocks[h]
  BY BlocksGrow DEF ReadersInv, WriterStep
<1>2. UNCHANGED <<query, api_pc, next_hash, height, hashes, answer>>
  BY DEF WriterStep, walkVars
<1>3. IsTree(blocks)
  BY InvIsTree DEF ReadersInv
<1>4. IsTree(blocks')
  <2>1. Inv'
    BY InvStep DEF ReadersInv, WriterStep
  <2> QED
    BY <2>1 DEF Inv, TypeOK, ChainHangsTogether, IsTree
<1>5. t \in DOMAIN blocks
  BY DEF Heading
<1>6. ASSUME NEW p, NEW from, IsBranchTo(blocks, p, from, t)
      PROVE  IsBranchTo(blocks', p, from, t)
  BY <1>1, <1>6, BranchKept
<1>7. PathTo(blocks', t) = PathTo(blocks, t)
  BY <1>1, <1>3, <1>4, <1>5, PathKept
<1>8. AnswerAt(query[r], t)' = AnswerAt(query[r], t)
  BY <1>2, <1>7 DEF AnswerAt, StateAlong
<1> QED
  BY <1>1, <1>2, <1>5, <1>6, <1>8 DEF Heading

LEMMA WriterServing == ReadersInv /\ Serving /\ WriterStep => Serving'
<1> SUFFICES ASSUME ReadersInv, Serving, WriterStep, NEW r \in Request PROVE Serves(r)'
  BY DEF Serving
<1>1. Serves(r)
  BY DEF Serving
<1>2. UNCHANGED <<query, api_pc>>
  BY DEF WriterStep, walkVars
<1>3. tips'[r] = IF query[r] = None THEN tips[r] ELSE tips[r] \cup {tip'}
  BY DEF WriterStep
<1>4. api_pc[r] = "tip" => tip' \in tips'[r]
  BY <1>1, <1>3, ReadersAssumption DEF Serves
<1>5. ASSUME api_pc[r] \in {"get", "walk", "done"}
      PROVE  \E t \in tips'[r] : Heading(r, t)'
  <2>1. PICK t \in tips[r] : Heading(r, t)
    BY <1>1, <1>5 DEF Serves
  <2>2. t \in tips'[r]
    BY <1>3
  <2> QED
    BY <2>1, <2>2, HeadingKept
<1> QED
  BY <1>1, <1>2, <1>4, <1>5 DEF Serves

(* What a step of one request leaves to the others.                        *)
LEMMA OthersServe ==
  ASSUME Serving, NEW r \in Request, UNCHANGED <<blocks, tip>>,
         UNCHANGED <<query[r], api_pc[r], next_hash[r], height[r], hashes[r], answer[r],
                     tips[r]>>
  PROVE  Serves(r)'
<1>1. Serves(r)
  BY DEF Serving
<1>2. \A t : Heading(r, t)' <=> Heading(r, t)
  BY DEF Heading, AnswerAt
<1> QED
  BY <1>1, <1>2 DEF Serves

(* The answer.  Where the walk ends it stands on the branch of its tip, at *)
(* the height it was to go down to or, for an index beyond, at the tip.    *)
LEMMA WalkedRight ==
  ASSUME ReadersInv, GenesisState, NEW r \in Request, NEW t, Heading(r, t),
         query[r] \in Query, api_pc[r] = "walk", height[r] <= query[r].floor
  PROVE  (IF query[r].path = "state" THEN StateReached(r) ELSE Reverse(hashes[r]))
           = AnswerAt(query[r], t)
<1>0. PICK from, floor, back : /\ from = height[r] /\ floor = query[r].floor
                               /\ back = Reverse(hashes[r])
  OBVIOUS
<1>1. from \in Nat /\ floor \in Nat /\ from <= floor
  BY <1>0, QueryFloor DEF ReadersInv, ReadersTypeOK
<1>2. /\ t \in DOMAIN blocks
      /\ IsBranchTo(blocks, back, from, t)
      /\ back[1] = next_hash[r]
      /\ floor <= from \/ next_hash[r] = t
  BY <1>0 DEF Heading
<1>3. PICK path : path = PathTo(blocks, t)
  OBVIOUS
<1>4. Inv /\ IsTree(blocks)
  BY InvIsTree DEF ReadersInv
<1>5. IsBranchTo(blocks, path, 0, t)
  BY <1>2, <1>3, <1>4, PathIsBranch
<1>6. Aligned(back, path, from)
  BY <1>1, <1>2, <1>5, BranchesAgree
<1>7. /\ back \in Seq(DOMAIN blocks) /\ Len(back) \in Nat /\ Len(back) >= 1
      /\ path \in Seq(DOMAIN blocks) /\ Len(path) \in Nat /\ path[Len(path)] = t
      /\ IsBranch(blocks, path, 0)
  BY <1>2, <1>5 DEF IsBranchTo, IsBranch
<1>8. Len(path) = from + Len(back) /\ \A i \in 1 .. Len(back) : back[i] = path[from + i]
  BY <1>6 DEF Aligned
<1>9. CASE query[r].path = "longest-chain-tx"
  <2>1. floor = 0
    <3>1. \A q \in [path : {"longest-chain-tx"}, floor : {0}] : q.floor = 0
      OBVIOUS
    <3>2. \A q \in [path : {"state"}, floor : BlockIndex] : q.path = "state"
      OBVIOUS
    <3> QED
      BY <1>0, <1>9, <3>1, <3>2 DEF Query
  <2>2. from = 0
    BY <1>1, <2>1
  <2>3. Len(path) = Len(back) /\ \A i \in 1 .. Len(back) : back[i] = path[i]
    BY <1>7, <1>8, <2>2
  <2>4. back = path
    BY <1>7, <2>3, SeqEqual
  <2>5. AnswerAt(query[r], t) = path
    BY <1>3, <1>9 DEF AnswerAt
  <2> QED
    BY <1>0, <1>9, <2>4, <2>5
<1>10. CASE query[r].path = "state"
  <2> DEFINE m == IF floor < Len(path) THEN floor + 1 ELSE Len(path)
  <2>1. AnswerAt(query[r], t) = StateAlong(path, m)
    BY <1>0, <1>3, <1>10 DEF AnswerAt
  <2>2. m \in 1 .. Len(path)
    BY <1>1, <1>7, <1>8
  <2>3. 1 \in 1 .. Len(back) /\ next_hash[r] = path[from + 1]
    BY <1>2, <1>7, <1>8
  <2>4. path[m] = next_hash[r]
    <3>1. CASE floor <= from
      <4>1. floor = from /\ floor < Len(path)
        BY <3>1, <1>1, <1>7, <1>8
      <4> QED
        BY <4>1, <2>3
    <3>2. CASE ~ (floor <= from)
      <4>1. next_hash[r] = t
        BY <3>2, <1>2
      <4>2. blocks[t] = from
        <5>1. blocks[back[1]] = from + 1 - 1
          BY <1>2, <2>3 DEF IsBranchTo, IsBranch
        <5> QED
          BY <1>1, <1>2, <4>1, <5>1
      <4>3. blocks[t] = 0 + Len(path) - 1
        <5>1. Len(path) \in 1 .. Len(path)
          BY <1>1, <1>7, <1>8
        <5> QED
          BY <5>1, <1>7 DEF IsBranch
      <4>4. Len(path) = from + 1
        BY <1>1, <1>7, <4>2, <4>3
      <4>5. m = Len(path)
        BY <3>2, <1>1, <4>4
      <4> QED
        BY <4>1, <4>5, <1>7
    <3> QED
      BY <3>1, <3>2
  <2> HIDE DEF m
  <2>5. StateAlong(path, m) = block_state[path[m]]
    BY <1>4, <1>7, <2>2, StateAlongBranch
  <2> QED
    BY <1>10, <2>1, <2>4, <2>5 DEF StateReached
<1>11. query[r].path \in {"longest-chain-tx", "state"}
  <2>1. \A q \in [path : {"longest-chain-tx"}, floor : {0}] : q.path = "longest-chain-tx"
    OBVIOUS
  <2>2. \A q \in [path : {"state"}, floor : BlockIndex] : q.path = "state"
    OBVIOUS
  <2> QED
    BY <2>1, <2>2 DEF Query
<1> QED
  BY <1>9, <1>10, <1>11

LEMMA ApiServing ==
  ASSUME NEW r \in Request
  PROVE  ReadersInv /\ GenesisState /\ Serving /\ ApiStep(r) => Serves(r)'
<1> SUFFICES ASSUME ReadersInv, GenesisState, Serving, ApiStep(r) PROVE Serves(r)'
  OBVIOUS
<1>1. /\ Serves(r)
      /\ api_pc \in [Request -> {"idle", "tip", "get", "walk", "done"}]
      /\ query \in [Request -> Query \cup {None}]
      /\ next_hash \in [Request -> Hash \cup {Genesis, None}]
      /\ height \in [Request -> Nat]
      /\ hashes \in [Request -> Seq(Hash \cup {Genesis})]
      /\ tips \in [Request -> SUBSET (Hash \cup {Genesis})]
  BY DEF Serving, ReadersInv, ReadersTypeOK
<1>2. CASE \E q \in Query : Receive(r, q)
  <2>1. PICK q \in Query : Receive(r, q)
    BY <1>2
  <2>2. query'[r] = q /\ api_pc'[r] = "tip" /\ tips'[r] = {tip} /\ tip' = tip
    BY <1>1, <2>1 DEF Receive, vars
  <2> QED
    BY <2>2 DEF Serves
<1>3. CASE ApiReadTip(r)
  <2>1. /\ query'[r] = query[r] /\ api_pc[r] = "tip" /\ api_pc'[r] = "get"
        /\ next_hash'[r] = tip /\ tips'[r] = tips[r] /\ blocks' = blocks
    BY <1>1, <1>3 DEF ApiReadTip, vars
  <2>2. tip \in tips'[r] /\ tip \in DOMAIN blocks'
    BY <1>1, <2>1 DEF Serves, ReadersInv, Inv, TypeOK
  <2>3. PICK t \in tips'[r] : t = tip /\ t \in DOMAIN blocks'
    BY <2>2
  <2>4. Heading(r, t)'
    BY <2>1, <2>3 DEF Heading
  <2> QED
    BY <1>1, <2>1, <2>4 DEF Serves
<1>4. CASE ApiGetTip(r)
  <2>1. /\ query'[r] = query[r] /\ api_pc[r] = "get" /\ api_pc'[r] = "walk"
        /\ next_hash'[r] = next_hash[r] /\ tips'[r] = tips[r] /\ blocks' = blocks
        /\ height'[r] = blocks[next_hash[r]] /\ hashes'[r] = <<next_hash[r]>>
    BY <1>1, <1>4 DEF ApiGetTip, vars
  <2>2. PICK t \in tips[r] : Heading(r, t)
    BY <1>1, <2>1 DEF Serves
  <2>3. t \in DOMAIN blocks /\ next_hash[r] = t
    BY <2>1, <2>2 DEF Heading
  <2>4. blocks[t] \in Nat
    BY <2>3 DEF ReadersInv, Inv, TypeOK
  <2>5. Reverse(<<t>>) = <<t>>
    <3>1. PICK s : s = <<t>>
      OBVIOUS
    <3>2. s \in Seq({t}) /\ Len(s) = 1 /\ s[1] = t
      BY <3>1
    <3>3. Reverse(s) \in Seq({t}) /\ Len(Reverse(s)) = 1 /\ Reverse(s)[1] = t
      BY <3>2 DEF Reverse
    <3>4. \A i \in 1 .. 1 : Reverse(s)[i] = s[i]
      BY <3>2, <3>3
    <3>5. Reverse(s) = s
      BY <3>2, <3>3, <3>4, SeqEqual
    <3> QED
      BY <3>1, <3>5
  <2>6. IsBranchTo(blocks, <<t>>, blocks[t], t)
    <3>1. PICK s : s = <<t>>
      OBVIOUS
    <3>2. s \in Seq(DOMAIN blocks) /\ Len(s) = 1 /\ s[1] = t
      BY <2>3, <3>1
    <3>3. IsBranchTo(blocks, s, blocks[t], t)
      BY <2>4, <3>2 DEF IsBranchTo, IsBranch
    <3> QED
      BY <3>1, <3>3
  <2>7. Heading(r, t)'
    BY <2>1, <2>3, <2>5, <2>6 DEF Heading
  <2> QED
    BY <1>1, <2>1, <2>2, <2>7 DEF Serves
<1>5. CASE WalkBack(r)
  <2>1. /\ query'[r] = query[r] /\ api_pc[r] = "walk" /\ api_pc'[r] = "walk"
        /\ next_hash'[r] = Parent(next_hash[r]) /\ tips'[r] = tips[r] /\ blocks' = blocks
        /\ height[r] > query[r].floor /\ height'[r] = height[r] - 1
        /\ hashes'[r] = Append(hashes[r], Parent(next_hash[r]))
    BY <1>1, <1>5 DEF WalkBack, vars
  <2>2. PICK t \in tips[r] : Heading(r, t)
    BY <1>1, <2>1 DEF Serves
  <2>3. PICK back, from, p : /\ back = Reverse(hashes[r]) /\ from = height[r]
                             /\ p = Parent(next_hash[r])
    OBVIOUS
  <2>4. /\ t \in DOMAIN blocks
        /\ IsBranchTo(blocks, back, from, t)
        /\ back[1] = next_hash[r]
    BY <2>1, <2>2, <2>3 DEF Heading
  <2>5. query[r] \in Query /\ query[r].floor \in Nat
    BY <1>1, <2>1, QueryFloor DEF Serves
  <2>6. from \in Nat /\ from > 0 /\ query[r].floor <= from - 1
    BY <1>1, <2>1, <2>3, <2>5
  <2>7. IsTree(blocks)
    BY InvIsTree DEF ReadersInv
  <2>8. Head(back) = back[1]
    BY <2>4 DEF IsBranchTo, IsBranch
  <2>9. IsBranchTo(blocks, <<Parent(Head(back))>> \o back, from - 1, t)
    BY <2>4, <2>6, <2>7, BranchGrows
  <2>10. IsBranchTo(blocks, <<p>> \o back, from - 1, t)
    BY <2>3, <2>4, <2>8, <2>9
  <2>11. p \in Hash \cup {Genesis}
    <3>1. next_hash[r] \in DOMAIN blocks /\ height[r] = blocks[next_hash[r]]
      BY <2>1 DEF ReadersInv, Walking
    <3>2. next_hash[r] # Genesis
      BY <2>3, <2>6, <3>1 DEF ReadersInv, Inv, ChainHangsTogether
    <3> QED
      BY <2>3, <3>1, <3>2 DEF ReadersInv, Inv, TypeOK, ChainHangsTogether
  <2>12. Reverse(Append(hashes[r], p)) = <<p>> \o back
    <3>1. hashes[r] \in Seq(Hash \cup {Genesis})
      BY <1>1
    <3> QED
      BY <2>3, <2>11, <3>1, ReverseAppend
  <2>13. (<<p>> \o back)[1] = p
    <3>1. PICK S : S = DOMAIN blocks \cup {p}
      OBVIOUS
    <3>2. back \in Seq(S)
      BY <2>4, <3>1 DEF IsBranchTo, IsBranch
    <3>3. PICK e \in S : e = p
      BY <3>1
    <3>4. PICK more : more = <<e>> \o back
      OBVIOUS
    <3>5. more[1] = e
      BY <3>2, <3>4
    <3> QED
      BY <3>3, <3>4, <3>5
  <2>14. Heading(r, t)'
    BY <2>1, <2>3, <2>4, <2>6, <2>10, <2>12, <2>13 DEF Heading
  <2> QED
    BY <2>1, <2>2, <2>5, <2>14 DEF Serves
<1>6. CASE Respond(r)
  <2>1. /\ query'[r] = query[r] /\ api_pc[r] = "walk" /\ api_pc'[r] = "done"
        /\ tips'[r] = tips[r] /\ blocks' = blocks /\ height[r] <= query[r].floor
    BY <1>1, <1>6 DEF Respond, vars
  <2>2. answer'[r] = IF query[r].path = "state" THEN StateReached(r)
                     ELSE Reverse(hashes[r])
    BY <1>1, <1>6 DEF Respond, ReadersInv, ReadersTypeOK
  <2>3. PICK t \in tips[r] : Heading(r, t)
    BY <1>1, <2>1 DEF Serves
  <2>4. query[r] \in Query
    BY <1>1, <2>1 DEF Serves
  <2>5. answer'[r] = AnswerAt(query[r], t)
    BY <2>1, <2>2, <2>3, <2>4, WalkedRight
  <2>6. AnswerAt(query[r], t)' = AnswerAt(query[r], t)
    BY <2>1 DEF AnswerAt
  <2>7. Heading(r, t)'
    BY <2>1, <2>3, <2>5, <2>6 DEF Heading
  <2> QED
    BY <2>1, <2>3, <2>4, <2>7 DEF Serves
<1>7. CASE Done(r)
  <2>1. api_pc'[r] = "idle"
    BY <1>1, <1>7 DEF Done
  <2> QED
    BY <2>1 DEF Serves
<1> QED
  BY <1>2, <1>3, <1>4, <1>5, <1>6, <1>7 DEF ApiStep

LEMMA ServingStep ==
  ReadersInv /\ GenesisState /\ Serving /\ [ReadersNext]_readersVars => Serving'
<1> SUFFICES ASSUME ReadersInv, GenesisState, Serving, [ReadersNext]_readersVars
             PROVE  Serving'
  OBVIOUS
<1>1. CASE WriterStep
  BY <1>1, WriterServing
<1>2. ASSUME NEW q \in Request, ApiStep(q), NEW r \in Request PROVE Serves(r)'
  <2>1. CASE q = r
    BY <1>2, <2>1, ApiServing
  <2>2. CASE q # r
    <3>1. UNCHANGED <<blocks, tip>>
      BY <1>2 DEF ApiStep, Receive, ApiReadTip, ApiGetTip, WalkBack, Respond, Done, vars
    <3>2. UNCHANGED <<query[r], api_pc[r], next_hash[r], height[r], hashes[r], answer[r],
                      tips[r]>>
      BY <1>2, <2>2 DEF ApiStep, Receive, ApiReadTip, ApiGetTip, WalkBack, Respond, Done,
                        ReadersInv, ReadersTypeOK
    <3> QED
      BY <3>1, <3>2, OthersServe
  <2> QED
    BY <2>1, <2>2
<1>3. CASE GenReadTip \/ GenReadState \/ UNCHANGED readersVars
  <2>1. UNCHANGED <<blocks, tip, walkVars, tips>>
    BY <1>3 DEF GenReadTip, GenReadState, readersVars, vars
  <2>2. ASSUME NEW r \in Request PROVE Serves(r)'
    BY <2>1, OthersServe DEF walkVars
  <2> QED
    BY <2>2 DEF Serving
<1> QED
  BY <1>1, <1>2, <1>3 DEF ReadersNext, Serving

LEMMA ReadersGenesis ==
  ReadersInv /\ GenesisState /\ [ReadersNext]_readersVars => GenesisState'
<1> SUFFICES ASSUME ReadersInv, GenesisState, [ReadersNext]_readersVars
             PROVE  GenesisState'
  OBVIOUS
<1>1. [Next]_vars
  BY DEF ReadersNext, WriterStep, ApiStep, Receive, ApiReadTip, ApiGetTip, WalkBack,
         Respond, Done, GenReadTip, GenReadState, readersVars
<1> QED
  BY <1>1, StepGenesisState DEF ReadersInv

(* What longest-chain-tx and state respond (api/mod.rs), put together from *)
(* look-ups under one lock each, is as a whole what one reading of the     *)
(* chain would have given at some moment of the request: the branch of a   *)
(* tip there was then, or the replay of it up to the index asked for.      *)
THEOREM AnswersAreAtomic == ReadersSpec => []AnswersWereTrue
<1>1. ReadersInit => ReadersInv /\ GenesisState /\ Serving
  BY ReadersInitInv, InitServing, InitGenesisState DEF ReadersInit
<1>2. Serving => AnswersWereTrue
  BY DEF Serving, Serves, Heading, AnswersWereTrue
<1> QED
  BY <1>1, <1>2, ReadersInvStep, ReadersGenesis, ServingStep, PTL DEF ReadersSpec
=============================================================================
