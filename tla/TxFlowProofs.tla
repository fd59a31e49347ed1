---------------------------- MODULE TxFlowProofs ----------------------------
(***************************************************************************)
(* Proofs about module TxFlow, for any transactions of the peers, any      *)
(* blocks they make and any block size: the miner, which copies the        *)
(* transactions of its block and removes them one by one much later,       *)
(* implements the atomic mempool.                                          *)
(***************************************************************************)
EXTENDS TxFlow, LedgerProofs, SequenceTheorems

(* The strengthening: only the miner takes transactions out, and what it   *)
(* has in hand is what it will remove.                                     *)
Sequences ==
  /\ tree \in Seq(ToSet(tree))
  /\ finished \in Seq(ToSet(finished))
  /\ transaction \in Seq(ToSet(transaction))

InHand ==
  /\ IsFiniteSet(mempool)
  /\ to_remove \subseteq mempool
  /\ miner_pc # "remove" => to_remove = ToSet(transaction)

Inv == TypeOK /\ Sequences /\ InHand

-----------------------------------------------------------------------------
LEMMA SetOfSeq ==
  ASSUME NEW S, NEW s \in Seq(S)
  PROVE  /\ s \in Seq(ToSet(s)) /\ Len(s) \in Nat
         /\ IsFiniteSet(ToSet(s)) /\ Cardinality(ToSet(s)) <= Len(s)
<1>1. Len(s) \in Nat /\ DOMAIN s = 1 .. Len(s) /\ s = [i \in 1 .. Len(s) |-> s[i]]
  BY LenProperties
<1>2. s \in [1 .. Len(s) -> ToSet(s)]
  BY <1>1 DEF ToSet
<1>3. s \in Surjection(1 .. Len(s), ToSet(s))
  BY <1>1, <1>2 DEF Surjection, ToSet
<1>4. IsFiniteSet(1 .. Len(s)) /\ Cardinality(1 .. Len(s)) = Len(s)
  <2>1. 1 \in Int /\ Len(s) \in Int
    BY <1>1
  <2>2. /\ IsFiniteSet(1 .. Len(s))
        /\ Cardinality(1 .. Len(s)) = IF 1 > Len(s) THEN 0 ELSE Len(s) - 1 + 1
    BY <2>1, FS_Interval
  <2> QED
    BY <1>1, <2>2
<1>5. IsFiniteSet(ToSet(s)) /\ Cardinality(ToSet(s)) <= Cardinality(1 .. Len(s))
  BY <1>3, <1>4, FS_Surjection
<1>6. s \in Seq(ToSet(s))
  BY <1>1, <1>2
<1> QED
  BY <1>1, <1>4, <1>5, <1>6

LEMMA Appended ==
  ASSUME NEW s, s \in Seq(ToSet(s)), NEW e
  PROVE  /\ Append(s, e) \in Seq(ToSet(Append(s, e)))
         /\ Len(s) \in Nat /\ DOMAIN s = 1 .. Len(s)
         /\ DOMAIN Append(s, e) = 1 .. Len(s) + 1
         /\ \A i \in 1 .. Len(s) : Append(s, e)[i] = s[i]
         /\ Append(s, e)[Len(s) + 1] = e
<1> DEFINE S == ToSet(s) \cup {e}
<1>1. s \in Seq(S) /\ e \in S
  OBVIOUS
<1>2. Append(s, e) \in Seq(S)
  BY <1>1
<1>3. Append(s, e) \in Seq(ToSet(Append(s, e)))
  BY <1>2, SetOfSeq
<1> QED
  BY <1>1, <1>2, <1>3

LEMMA TailOf ==
  ASSUME NEW s, s \in Seq(ToSet(s)), s # <<>>
  PROVE  /\ Tail(s) \in Seq(ToSet(Tail(s)))
         /\ Len(s) \in Nat /\ 1 \in DOMAIN s /\ Head(s) = s[1]
         /\ \A i \in DOMAIN Tail(s) : i + 1 \in DOMAIN s /\ Tail(s)[i] = s[i + 1]
<1>1. Tail(s) \in Seq(ToSet(s))
  OBVIOUS
<1>2. Tail(s) \in Seq(ToSet(Tail(s)))
  BY <1>1, SetOfSeq
<1> QED
  BY <1>1, <1>2

(* One transaction more, or none when it was there.                        *)
LEMMA AddOne ==
  ASSUME NEW P, NEW t
  PROVE  P \cup {t} = P \/ Cardinality((P \cup {t}) \ P) = 1
<1>1. CASE t \in P
  BY <1>1
<1>2. CASE t \notin P
  <2>1. (P \cup {t}) \ P = {t}
    BY <1>2
  <2> QED
    BY <2>1, FS_Singleton
<1> QED
  BY <1>1, <1>2

(* What the miner copies out of the mempool.                               *)
LEMMA Picked ==
  ASSUME IsFiniteSet(mempool), NEW s \in Picks(PickSize)
  PROVE  /\ s \in Seq(ToSet(s))
         /\ ToSet(s) \subseteq mempool
         /\ Len(s) <= BlockSize
<1>1. PICK S \in SUBSET mempool : s \in SetToSeqs(S)
  BY DEF Picks, SetToAllKPermutations
<1>2. IsFiniteSet(S) /\ Cardinality(S) \in Nat /\ Cardinality(mempool) \in Nat
  BY FS_Subset, FS_CardinalityType
<1>3. s \in [1 .. Cardinality(S) -> S]
  BY <1>1 DEF SetToSeqs
<1>4. s \in Seq(S)
  BY <1>2, <1>3
<1>5. s \in Seq(ToSet(s))
  BY <1>4, SetOfSeq
<1>6. ToSet(s) \subseteq mempool
  BY <1>3 DEF ToSet
<1>7. Len(s) = PickSize
  BY DEF Picks
<1>8. PickSize <= BlockSize
  BY <1>2, TxFlowAssumption DEF PickSize
<1> QED
  BY <1>5, <1>6, <1>7, <1>8

-----------------------------------------------------------------------------
LEMMA InvInit == Init => Inv
<1> SUFFICES ASSUME Init PROVE Inv
  OBVIOUS
<1>1. tree = <<tree[1]>> /\ DOMAIN tree = {1} /\ tree[1].parent = 0
  BY DEF Init
<1>2. tree \in Seq(ToSet(tree))
  BY <1>1 DEF ToSet
<1>3. IsFiniteSet(mempool) /\ Cardinality(looked_up) = 0
  BY FS_EmptySet DEF Init
<1>4. /\ ToSet(transaction) = {} /\ Len(transaction) = 0
      /\ DOMAIN finished = {}
  BY DEF Init, ToSet
<1>5. finished \in Seq(ToSet(finished)) /\ transaction \in Seq(ToSet(transaction))
  BY DEF Init
<1>6. TypeOK
  <2>1. \A i \in DOMAIN tree : tree[i].parent \in 0 .. i - 1
    BY <1>1
  <2>2. /\ tip = 1 /\ prev_tip = 1 /\ parent = 1 /\ poisoned = FALSE
        /\ gen_pc = "paused" /\ miner_pc = "header"
    BY DEF Init
  <2>3. Len(transaction) <= BlockSize /\ Cardinality(looked_up) <= 1
    BY <1>3, <1>4, TxFlowAssumption
  <2>4. tip \in DOMAIN tree /\ prev_tip \in DOMAIN tree /\ parent \in DOMAIN tree
    BY <1>1, <2>2
  <2>5. \A i \in DOMAIN finished : finished[i].parent \in DOMAIN tree
    BY <1>4
  <2> QED
    BY <2>1, <2>2, <2>3, <2>4, <2>5 DEF TypeOK
<1> QED
  BY <1>2, <1>3, <1>5, <1>6, <1>4 DEF Init, Inv, Sequences, InHand

(* The tree grows by one block, whose parent is in it.                     *)
LEMMA TreeGrows ==
  ASSUME TypeOK, Sequences, NEW p \in DOMAIN tree, NEW txs, Store(p, txs)
  PROVE  /\ tree' \in Seq(ToSet(tree'))
         /\ DOMAIN tree \subseteq DOMAIN tree'
         /\ tip' \in DOMAIN tree'
         /\ \A i \in DOMAIN tree' : tree'[i].parent \in 0 .. i - 1
<1> DEFINE b == [parent |-> p, height |-> tree[p].height + 1, st |-> txs,
                 states |-> Replay(tree[p].states, txs).states]
<1>1. tree' = Append(tree, b) /\ (tip' = Len(tree) + 1 \/ tip' = tip)
  BY DEF Store
<1>2. b.parent = p
  OBVIOUS
<1> HIDE DEF b
<1>3. /\ tree' \in Seq(ToSet(tree'))
      /\ Len(tree) \in Nat /\ DOMAIN tree = 1 .. Len(tree)
      /\ DOMAIN tree' = 1 .. Len(tree) + 1
      /\ \A i \in 1 .. Len(tree) : tree'[i] = tree[i]
      /\ tree'[Len(tree) + 1] = b
  BY <1>1, Appended DEF Sequences
<1>4. tip' \in DOMAIN tree' /\ DOMAIN tree \subseteq DOMAIN tree'
  BY <1>1, <1>3 DEF TypeOK
<1>5. ASSUME NEW i \in DOMAIN tree' PROVE tree'[i].parent \in 0 .. i - 1
  <2>1. CASE i \in 1 .. Len(tree)
    BY <1>3, <2>1 DEF TypeOK
  <2>2. CASE i = Len(tree) + 1
    BY <1>2, <1>3, <2>2
  <2> QED
    BY <1>3, <2>1, <2>2
<1> QED
  BY <1>3, <1>4, <1>5

(* The generator only adds to the mempool.                                 *)
LEMMA GeneratorStep ==
  ASSUME Inv, StartGenerator \/ ReadTip \/ Sign \/ NothingToSpend
  PROVE  Inv'
<1>1. UNCHANGED <<tree, tip, poisoned, miner_pc, transaction, to_remove, parent,
                  finished, looked_up>>
  BY DEF StartGenerator, ReadTip, Sign, NothingToSpend, chainVars, minerVars
<1>2. gen_pc' \in {"paused", "tip", "sign"} /\ prev_tip' \in DOMAIN tree
  BY DEF Inv, TypeOK, StartGenerator, ReadTip, Sign, NothingToSpend
<1>3. TypeOK' /\ Sequences'
  BY <1>1, <1>2 DEF Inv, TypeOK, Sequences
<1>4. mempool' = mempool \/ \E t : mempool' = mempool \cup {t}
  BY DEF StartGenerator, ReadTip, Sign, NothingToSpend, Pay
<1>5. IsFiniteSet(mempool') /\ mempool \subseteq mempool'
  BY <1>4, FS_AddElement DEF Inv, InHand
<1> QED
  BY <1>1, <1>3, <1>5 DEF Inv, InHand

LEMMA MinerStep ==
  ASSUME Inv, MakeHeader \/ NonceFails \/ BlockFound \/ RemoveOne \/ Removed
  PROVE  Inv'
<1> USE DEF chainVars, genVars
<1>0. TypeOK /\ Sequences /\ InHand /\ tree' = tree
  BY DEF Inv, MakeHeader, NonceFails, BlockFound, RemoveOne, Removed
<1>1. CASE MakeHeader
  <2>0. /\ UNCHANGED <<tree, tip, mempool, poisoned, prev_tip, gen_pc, finished, looked_up>>
        /\ miner_pc = "header" /\ miner_pc' = "hash" /\ parent' = tip
        /\ IF to_remove = {} THEN Pick ELSE UNCHANGED <<transaction, to_remove>>
    BY <1>1 DEF MakeHeader
  <2>1. /\ transaction' \in Seq(ToSet(transaction')) /\ Len(transaction') <= BlockSize
        /\ to_remove' = ToSet(transaction') /\ to_remove' \subseteq mempool
    <3>1. CASE to_remove = {}
      <4>1. PICK s \in Picks(PickSize) : transaction' = s /\ to_remove' = ToSet(s)
        BY <2>0, <3>1 DEF Pick
      <4> QED
        BY <1>0, <4>1, Picked DEF InHand
    <3>2. CASE to_remove # {}
      BY <1>0, <2>0, <3>2 DEF InHand, Sequences, TypeOK
    <3> QED
      BY <3>1, <3>2
  <2>2. TypeOK'
    BY <1>0, <2>0, <2>1 DEF TypeOK
  <2> QED
    BY <1>0, <2>0, <2>1, <2>2 DEF Inv, Sequences, InHand
<1>2. CASE NonceFails
  BY <1>0, <1>2 DEF Inv, TypeOK, Sequences, InHand, NonceFails
<1>3. CASE BlockFound
  <2> DEFINE b == [parent |-> parent, st |-> transaction]
  <2>0. /\ UNCHANGED <<tree, tip, mempool, poisoned, prev_tip, gen_pc, transaction,
                       to_remove, parent, looked_up>>
        /\ miner_pc' = "remove" /\ finished' = Append(finished, b)
    BY <1>3 DEF BlockFound
  <2>1. b.parent \in DOMAIN tree
    BY <1>0 DEF TypeOK
  <2> HIDE DEF b
  <2>2. /\ finished' \in Seq(ToSet(finished'))
        /\ \A i \in DOMAIN finished' : finished'[i].parent \in DOMAIN tree
    <3>1. /\ finished' \in Seq(ToSet(finished'))
          /\ Len(finished) \in Nat /\ DOMAIN finished = 1 .. Len(finished)
          /\ DOMAIN finished' = 1 .. Len(finished) + 1
          /\ \A i \in 1 .. Len(finished) : finished'[i] = finished[i]
          /\ finished'[Len(finished) + 1] = b
      BY <1>0, <2>0, Appended DEF Sequences
    <3>2. \A i \in DOMAIN finished' : i \in 1 .. Len(finished) \/ i = Len(finished) + 1
      BY <3>1
    <3> QED
      BY <1>0, <2>1, <3>1, <3>2 DEF TypeOK
  <2>3. TypeOK'
    BY <1>0, <2>0, <2>2 DEF TypeOK
  <2> QED
    BY <1>0, <2>0, <2>2, <2>3 DEF Inv, Sequences, InHand
<1>4. CASE RemoveOne
  <2>0. /\ UNCHANGED <<tree, tip, poisoned, prev_tip, gen_pc, miner_pc, transaction, parent,
                       finished, looked_up>>
        /\ miner_pc = "remove"
        /\ \E t : mempool' = mempool \ {t} /\ to_remove' = to_remove \ {t}
    BY <1>4 DEF RemoveOne
  <2>1. TypeOK' /\ Sequences'
    BY <1>0, <2>0 DEF TypeOK, Sequences
  <2>2. InHand'
    BY <1>0, <2>0, FS_RemoveElement DEF InHand
  <2> QED
    BY <2>1, <2>2 DEF Inv
<1>5. CASE Removed
  <2>1. transaction' \in Seq(ToSet(transaction')) /\ Len(transaction') = 0
        /\ ToSet(transaction') = {}
    BY <1>5 DEF Removed, ToSet
  <2>2. TypeOK'
    BY <1>0, <1>5, <2>1, TxFlowAssumption DEF TypeOK, Removed
  <2> QED
    BY <1>0, <1>5, <2>1, <2>2 DEF Inv, Sequences, InHand, Removed
<1> QED
  BY <1>1, <1>2, <1>3, <1>4, <1>5

LEMMA ChainStep ==
  ASSUME Inv, \/ StoreFinished
              \/ \E p \in DOMAIN tree, txs \in PeerContents : ReceiveBlock(p, txs)
  PROVE  Inv'
<1>0. /\ TypeOK /\ Sequences /\ InHand
      /\ UNCHANGED <<mempool, poisoned, prev_tip, gen_pc, miner_pc, transaction, to_remove,
                     parent, looked_up>>
  BY DEF Inv, StoreFinished, ReceiveBlock, genVars, minerVars
<1>1. /\ (UNCHANGED chainVars) \/ (\E p \in DOMAIN tree : \E txs : Store(p, txs))
      /\ finished' \in Seq(ToSet(finished'))
      /\ \A i \in DOMAIN finished' : finished'[i].parent \in DOMAIN tree
  <2>1. CASE StoreFinished
    <3>1. /\ finished # <<>> /\ finished' = Tail(finished)
          /\ (UNCHANGED chainVars) \/ Store(Head(finished).parent, Head(finished).st)
      BY <2>1 DEF StoreFinished
    <3>2. Head(finished).parent \in DOMAIN tree
      BY <1>0, <3>1, TailOf DEF TypeOK, Sequences
    <3> QED
      BY <1>0, <3>1, <3>2, TailOf DEF TypeOK, Sequences
  <2>2. CASE \E p \in DOMAIN tree, txs \in PeerContents : ReceiveBlock(p, txs)
    BY <1>0, <2>2 DEF ReceiveBlock, minerVars, TypeOK, Sequences
  <2> QED
    BY <2>1, <2>2
<1>2. /\ tree' \in Seq(ToSet(tree'))
      /\ DOMAIN tree \subseteq DOMAIN tree'
      /\ tip' \in DOMAIN tree'
      /\ \A i \in DOMAIN tree' : tree'[i].parent \in 0 .. i - 1
  <2>1. CASE UNCHANGED chainVars
    BY <1>0, <2>1 DEF chainVars, TypeOK, Sequences
  <2> QED
    BY <1>0, <1>1, <2>1, TreeGrows
<1>3. TypeOK'
  BY <1>0, <1>1, <1>2 DEF TypeOK
<1> QED
  BY <1>0, <1>1, <1>2, <1>3 DEF Inv, Sequences, InHand

LEMMA PeerStep ==
  ASSUME Inv, \/ \E t \in PeerTxs : ReceiveTransaction(t)
              \/ \E t \in mempool : ContainsKey(t)
              \/ GetUnwrap
  PROVE  Inv'
<1> USE DEF chainVars, genVars, minerVars
<1>1. CASE \E t \in PeerTxs : ReceiveTransaction(t)
  <2>1. PICK t \in PeerTxs : ReceiveTransaction(t)
    BY <1>1
  <2>2. IsFiniteSet(mempool') /\ mempool \subseteq mempool'
    BY <2>1, FS_AddElement DEF ReceiveTransaction, Inv, InHand
  <2> QED
    BY <2>1, <2>2 DEF ReceiveTransaction, Inv, TypeOK, Sequences, InHand
<1>2. CASE (\E t \in mempool : ContainsKey(t)) \/ GetUnwrap
  <2>1. Cardinality(looked_up') <= 1
    BY <1>2, FS_Singleton, FS_EmptySet DEF ContainsKey, GetUnwrap
  <2>2. poisoned' \in BOOLEAN
    BY <1>2 DEF ContainsKey, GetUnwrap, Inv, TypeOK
  <2>3. UNCHANGED <<chainVars, mempool, genVars, minerVars>>
    BY <1>2 DEF ContainsKey, GetUnwrap
  <2> QED
    BY <2>1, <2>2, <2>3 DEF Inv, TypeOK, Sequences, InHand
<1> QED
  BY <1>1, <1>2

LEMMA InvStep == Inv /\ [Next]_vars => Inv'
<1> SUFFICES ASSUME Inv, [Next]_vars PROVE Inv'
  OBVIOUS
<1>1. CASE UNCHANGED vars
  BY <1>1 DEF vars, chainVars, genVars, minerVars, Inv, TypeOK, Sequences, InHand
<1> QED
  BY <1>1, GeneratorStep, MinerStep, ChainStep, PeerStep DEF Next

-----------------------------------------------------------------------------
(* The steps of the abstract mempool.                                      *)
abstractVars == <<Pending, sent>>

LEMMA SameCardinality == \A S : AbstractMempool!Cardinality(S) = Cardinality(S)
  BY DEF Cardinality, AbstractMempool!Cardinality

LEMMA Submitted ==
  ASSUME NEW t, mempool' = mempool \cup {t}, UNCHANGED <<miner_pc, to_remove, sent>>
  PROVE  [AbstractMempool!Next]_abstractVars
<1>1. Pending' = Pending \/ Pending' = Pending \cup {t}
  BY DEF Pending
<1>2. CASE Pending' = Pending
  BY <1>2 DEF abstractVars
<1>3. CASE Pending' = Pending \cup {t} /\ Pending' # Pending
  <2>1. Cardinality(Pending' \ Pending) = 1 /\ Pending \subseteq Pending'
    BY <1>3, AddOne
  <2>2. AbstractMempool!Submit
    BY <2>1, SameCardinality DEF AbstractMempool!Submit
  <2> QED
    BY <2>2 DEF AbstractMempool!Next
<1> QED
  BY <1>1, <1>2, <1>3

LEMMA Found ==
  ASSUME Inv, BlockFound
  PROVE  AbstractMempool!Next
<1>0. /\ TypeOK /\ Sequences /\ InHand
      /\ miner_pc = "hash" /\ miner_pc' = "remove"
      /\ UNCHANGED <<mempool, to_remove>> /\ sent' = sent \cup ToSet(transaction)
  BY DEF Inv, BlockFound
<1>1. to_remove = ToSet(transaction) /\ ToSet(transaction) \in SUBSET mempool
  BY <1>0 DEF InHand
<1>2. Cardinality(ToSet(transaction)) <= BlockSize
  <2>1. /\ IsFiniteSet(ToSet(transaction)) /\ Len(transaction) \in Nat
        /\ Cardinality(ToSet(transaction)) <= Len(transaction)
    BY <1>0, SetOfSeq DEF Sequences
  <2>2. Cardinality(ToSet(transaction)) \in Nat
    BY <2>1, FS_CardinalityType
  <2> QED
    BY <1>0, <2>1, <2>2, TxFlowAssumption DEF TypeOK
<1>3. Pending = mempool /\ Pending' = Pending \ ToSet(transaction)
  BY <1>0, <1>1 DEF Pending
<1>4. AbstractMempool!FindBlock
  BY <1>0, <1>1, <1>2, <1>3, SameCardinality
     DEF AbstractMempool!FindBlock
<1> QED
  BY <1>4 DEF AbstractMempool!Next

LEMMA StepRefined ==
  Inv /\ [Next]_vars => [AbstractMempool!Next]_abstractVars
<1> SUFFICES ASSUME Inv, [Next]_vars
             PROVE  [AbstractMempool!Next]_abstractVars
  OBVIOUS
<1> USE DEF chainVars, genVars, minerVars
<1>1. CASE UNCHANGED <<mempool, to_remove, miner_pc, sent>>
  BY <1>1 DEF abstractVars, Pending
<1>2. CASE StartGenerator \/ ReadTip \/ NothingToSpend \/ StoreFinished \/ GetUnwrap
  BY <1>1, <1>2 DEF StartGenerator, ReadTip, NothingToSpend, StoreFinished, GetUnwrap
<1>3. CASE \/ \E p \in DOMAIN tree, txs \in PeerContents : ReceiveBlock(p, txs)
           \/ \E t \in mempool : ContainsKey(t)
  BY <1>1, <1>3 DEF ReceiveBlock, ContainsKey
<1>4. CASE Sign
  BY <1>4, Submitted DEF Sign, Pay
<1>5. CASE \E t \in PeerTxs : ReceiveTransaction(t)
  BY <1>5, Submitted DEF ReceiveTransaction
<1>6. CASE MakeHeader \/ NonceFails
  BY <1>6 DEF MakeHeader, NonceFails, abstractVars, Pending
<1>7. CASE BlockFound
  BY <1>7, Found
<1>8. CASE RemoveOne
  <2>1. PICK t \in to_remove : mempool' = mempool \ {t} /\ to_remove' = to_remove \ {t}
    BY <1>8 DEF RemoveOne
  <2>2. miner_pc = "remove" /\ miner_pc' = "remove" /\ sent' = sent
    BY <1>8 DEF RemoveOne
  <2>3. mempool' \ to_remove' = mempool \ to_remove
    BY <2>1
  <2> QED
    BY <2>2, <2>3 DEF abstractVars, Pending
<1>9. CASE Removed
  BY <1>9 DEF Removed, abstractVars, Pending
<1>10. CASE UNCHANGED vars
  BY <1>1, <1>10 DEF vars
<1> QED
  BY <1>2, <1>3, <1>4, <1>5, <1>6, <1>7, <1>8, <1>9, <1>10 DEF Next

LEMMA InitRefined == Init => AbstractMempool!Init
BY DEF Init, AbstractMempool!Init, Pending

-----------------------------------------------------------------------------
THEOREM TxFlowInv == Spec => []Inv
  BY InvInit, InvStep, PTL DEF Spec

(* The parents of blocks, also of those still in the channel to the miner  *)
(* worker, are in the tree; the miner never has more transactions in hand  *)
(* than fit into a block.                                                  *)
THEOREM TxFlowTypeCorrect == Spec => []TypeOK
<1>1. Inv => TypeOK
  BY DEF Inv
<1> QED
  BY <1>1, TxFlowInv, PTL

(* The miner's copy, its removals under one lock each and what arrives in  *)
(* between (miner/mod.rs) come to one atomic move of the block's at most   *)
(* BlockSize transactions out of the mempool.                              *)
THEOREM ImplementsMempool == Spec => RefinesMempool
  BY InvInit, InvStep, InitRefined, StepRefined, PTL
     DEF Spec, RefinesMempool, AbstractMempool!Spec, abstractVars

-----------------------------------------------------------------------------
(* The generator's payments spend different coins of the state it took     *)
(* from the tip and make none that it would own, so they are independent.  *)
Base == tree[prev_tip].states

Own(utxo) == {o \in DOMAIN utxo : utxo[o].recipient = SelfAddr}

PaymentFrom(utxo, o) == SignedPayment(SelfAddr, <<o>>, utxo[o].value, PeerAddrs)

Payments(txs, utxo) ==
  /\ txs \in Seq(ToSet(txs)) /\ IsInjective(txs)
  /\ \A k \in DOMAIN txs : \E o \in Own(utxo) : txs[k] = PaymentFrom(utxo, o)

(* An own coin is no payment's output, so no payment overwrites one.       *)
LEMMA OwnNotMade ==
  ASSUME IcoIsNoPayment, NEW base, Matching(base), NEW o \in Own(base),
         NEW st, NEW coin, NEW balance \in Nat,
         st = SignedPayment(SelfAddr, <<coin>>, balance, PeerAddrs)
  PROVE  o \notin Made(st)
<1> SUFFICES ASSUME o \in Made(st) PROVE FALSE
  OBVIOUS
<1>1. st.output = PassCheckOutputs(balance, PeerAddrs) /\ st # IcoHash
  BY DEF SignedPayment, IcoIsNoPayment
<1>2. /\ st.output \in Seq(ToSet(st.output))
      /\ \A k \in DOMAIN st.output : st.output[k].recipient_addr \in {PeerAddrs[1], PeerAddrs[2]}
  BY <1>1, PassCheckSums
<1>3. DOMAIN st.output = 1 .. Len(st.output) /\ Len(st.output) \in Nat
  BY <1>2
<1>4. PICK k \in DOMAIN st.output : o = <<st, k - 1>>
  BY DEF Made
<1>5. o # <<IcoHash, 0>>
  BY <1>1, <1>4
<1>6. o \in DOMAIN base /\ base[o].recipient = SelfAddr
  BY DEF Own
<1>7. IsOutput(base, o)
  BY <1>5, <1>6 DEF Matching
<1>8. PICK t : \E l \in DOMAIN t.output :
        o = <<t, l - 1>> /\ base[o].recipient = t.output[l].recipient_addr
  BY <1>7 DEF IsOutput
<1>9. t = st
  BY <1>4, <1>8
<1>10. PICK l \in DOMAIN st.output : base[o].recipient = st.output[l].recipient_addr
  BY <1>8, <1>9
<1> QED
  BY <1>2, <1>6, <1>10, TxFlowAssumption

(* What is left of the own coins after some of the payments.               *)
Untouched(base, txs, k, utxo) ==
  \A o \in Own(base) :
    (\A i \in 1 .. k : txs[i] # PaymentFrom(base, o)) => o \in DOMAIN utxo /\ utxo[o] = base[o]

LEMMA OnePayment ==
  ASSUME IcoIsNoPayment, NEW base, Matching(base), NEW txs, Payments(txs, base),
         NEW k \in Nat, k + 1 <= Len(txs),
         NEW utxo, Untouched(base, txs, k, utxo)
  PROVE  /\ TxPasses(utxo, txs[k + 1])
         /\ Untouched(base, txs, k + 1, TxApplied(utxo, txs[k + 1]))
<1>1. txs \in Seq(ToSet(txs)) /\ DOMAIN txs = 1 .. Len(txs) /\ Len(txs) \in Nat
  BY DEF Payments
<1>2. k + 1 \in DOMAIN txs
  BY <1>1
<1>3. PICK st : st = txs[k + 1]
  OBVIOUS
<1>4. PICK o \in Own(base) : st = PaymentFrom(base, o)
  BY <1>2, <1>3 DEF Payments
<1>5. \A i \in 1 .. k : txs[i] # st
  <2> SUFFICES ASSUME NEW i \in 1 .. k, txs[i] = st PROVE FALSE
    OBVIOUS
  <2>1. i \in DOMAIN txs /\ i # k + 1
    BY <1>1
  <2> QED
    BY <1>2, <1>3, <2>1 DEF Payments, IsInjective
<1>6. o \in DOMAIN utxo /\ utxo[o] = base[o]
  BY <1>4, <1>5 DEF Untouched
<1>7. base[o].recipient = SelfAddr /\ base[o].value \in Nat
  BY DEF Own, Matching
<1>8. st = SignedPayment(utxo[o].recipient, <<o>>, utxo[o].value, PeerAddrs)
  BY <1>4, <1>6, <1>7 DEF PaymentFrom
<1>9. TxPasses(utxo, st) /\ TypedTx(st)
  BY <1>6, <1>7, <1>8, PaymentPasses
<1>10. PICK after : after = TxApplied(utxo, st)
  OBVIOUS
<1>11. IsApplied(after, utxo, st)
  BY <1>9, <1>10, AppliedAt DEF TypedTx
<1>12. ASSUME NEW p \in Own(base), \A i \in 1 .. k + 1 : txs[i] # PaymentFrom(base, p)
       PROVE  p \in DOMAIN after /\ after[p] = base[p]
  <2>1. \A i \in 1 .. k : txs[i] # PaymentFrom(base, p)
    BY <1>12
  <2>2. p \in DOMAIN utxo /\ utxo[p] = base[p]
    BY <2>1 DEF Untouched
  <2>3. k + 1 \in 1 .. k + 1
    OBVIOUS
  <2>4. p # o
    BY <1>3, <1>4, <1>12, <2>3
  <2>5. ToSet(st.input) = {o}
    BY <1>8 DEF SignedPayment, ToSet
  <2>6. p \notin Made(st)
    BY <1>4, <1>7, OwnNotMade DEF PaymentFrom
  <2>7. p \in (DOMAIN utxo \ ToSet(st.input)) \ Made(st)
    BY <2>2, <2>4, <2>5, <2>6
  <2> QED
    BY <1>11, <2>2, <2>7 DEF IsApplied
<1>13. Untouched(base, txs, k + 1, after)
  BY <1>12 DEF Untouched
<1> QED
  BY <1>3, <1>9, <1>10, <1>13

LEMMA PaymentsPass ==
  ASSUME IcoIsNoPayment, NEW base, Matching(base), NEW txs, Payments(txs, base)
  PROVE  Replay(base, txs).ok
<1>1. txs \in Seq(ToSet(txs)) /\ Len(txs) \in Nat
  BY DEF Payments
<1>2. PICK run : IsRun(run, base, txs) /\ Replay(base, txs) = run[Len(txs)]
  BY <1>1, ReplayRuns
<1>3. /\ run[0] = ReplayStart(base)
      /\ \A k \in 1 .. Len(txs) : run[k] = CheckOne(run[k - 1], txs[k])
  BY <1>2 DEF IsRun
<1> DEFINE N == {k \in Nat : k <= Len(txs) => run[k].ok /\ Untouched(base, txs, k, run[k].states)}
<1>4. 0 \in N
  <2>1. run[0].ok /\ run[0].states = base
    BY <1>3 DEF ReplayStart
  <2>2. Untouched(base, txs, 0, base)
    BY DEF Untouched, Own
  <2> QED
    BY <2>1, <2>2
<1>5. ASSUME NEW k \in Nat, k \in N PROVE k + 1 \in N
  <2> SUFFICES ASSUME k + 1 <= Len(txs)
               PROVE  run[k + 1].ok /\ Untouched(base, txs, k + 1, run[k + 1].states)
    OBVIOUS
  <2>1. k + 1 \in 1 .. Len(txs) /\ (k + 1) - 1 = k /\ k <= Len(txs)
    BY <1>1
  <2>2. PICK acc, st, utxo : acc = run[k] /\ st = txs[k + 1] /\ utxo = acc.states
    OBVIOUS
  <2>3. acc.ok /\ Untouched(base, txs, k, utxo)
    BY <1>5, <2>1, <2>2
  <2>4. run[k + 1] = CheckOne(acc, st)
    BY <1>3, <2>1, <2>2
  <2>5. TxPasses(utxo, st) /\ Untouched(base, txs, k + 1, TxApplied(utxo, st))
    BY <2>2, <2>3, OnePayment
  <2>6. run[k + 1].ok /\ run[k + 1].states = TxApplied(utxo, st)
    BY <2>2, <2>3, <2>4, <2>5 DEF CheckOne
  <2> QED
    BY <2>5, <2>6
<1>6. Nat \subseteq N
  <2> HIDE DEF N
  <2> QED
    BY <1>4, <1>5, NatSetInduction
<1>7. Len(txs) \in N
  BY <1>1, <1>6
<1> QED
  BY <1>1, <1>2, <1>7

-----------------------------------------------------------------------------
(* The second part of the invariant: what transactions and states are, and *)
(* that the generator's private state is the tip's without what it spent.  *)
Carried ==
  /\ \A t \in mempool : TypedTx(t)
  /\ \A t \in ToSet(transaction) : TypedTx(t)
  /\ IsInjective(transaction)
  /\ \A i \in DOMAIN finished : AllTyped(finished[i].st) /\ IsInjective(finished[i].st)

StatesMatch == \A i \in DOMAIN tree : Matching(tree[i].states)

Remaining(own, txs, base) ==
  \A o \in Own(own) :
    /\ o \in Own(base) /\ own[o] = base[o]
    /\ \A k \in DOMAIN txs : txs[k] # PaymentFrom(base, o)

Generated ==
  /\ Payments(signed, Base)
  /\ state = Replay(Base, signed).states
  /\ Remaining(state, signed, Base)

LEMMA PickedOnce ==
  ASSUME IsFiniteSet(mempool), NEW s \in Picks(PickSize)
  PROVE  IsInjective(s)
<1>1. PICK S \in SUBSET mempool : s \in SetToSeqs(S)
  BY DEF Picks, SetToAllKPermutations
<1>2. DOMAIN s = 1 .. Cardinality(S) /\ \A i, j \in 1 .. Cardinality(S) : i # j => s[i] # s[j]
  BY <1>1 DEF SetToSeqs
<1> QED
  BY <1>2 DEF IsInjective

LEMMA EmptyPayments ==
  ASSUME NEW base
  PROVE  /\ Payments(<<>>, base)
         /\ Replay(base, <<>>).states = base
         /\ Remaining(base, <<>>, base)
<1>1. Replay(base, <<>>).states = base
  BY ReplayNothing DEF ReplayStart
<1>2. DOMAIN <<>> = {} /\ <<>> \in Seq(ToSet(<<>>))
  OBVIOUS
<1>3. Payments(<<>>, base)
  BY <1>2 DEF Payments, IsInjective
<1>4. Remaining(base, <<>>, base)
  BY <1>2 DEF Remaining
<1> QED
  BY <1>1, <1>3, <1>4

(* The generator pays with a coin of its private state.                    *)
LEMMA OneMorePayment ==
  ASSUME IcoIsNoPayment, NEW base, Matching(base), NEW txs, Payments(txs, base),
         NEW own, own = Replay(base, txs).states, Remaining(own, txs, base),
         NEW o \in Own(own),
         NEW st, st = SignedPayment(SelfAddr, <<o>>, own[o].value, PeerAddrs)
  PROVE  /\ TypedTx(st)
         /\ Payments(Append(txs, st), base)
         /\ TxApplied(own, st) = Replay(base, Append(txs, st)).states
         /\ Remaining(TxApplied(own, st), Append(txs, st), base)
<1>1. /\ o \in DOMAIN own /\ own[o].recipient = SelfAddr
      /\ o \in Own(base) /\ own[o] = base[o]
      /\ \A k \in DOMAIN txs : txs[k] # PaymentFrom(base, o)
  BY DEF Remaining, Own
<1>2. own[o].value \in Nat /\ st = PaymentFrom(base, o)
  BY <1>1 DEF Matching, Own, PaymentFrom
<1>3. TxPasses(own, st) /\ TypedTx(st)
  BY <1>1, <1>2, PaymentPasses
<1>4. txs \in Seq(ToSet(txs)) /\ Len(txs) \in Nat
  BY DEF Payments
<1>5. PICK longer : longer = Append(txs, st)
  OBVIOUS
<1>6. /\ longer \in Seq(ToSet(longer))
      /\ DOMAIN txs = 1 .. Len(txs)
      /\ DOMAIN longer = 1 .. Len(txs) + 1
      /\ \A k \in 1 .. Len(txs) : longer[k] = txs[k]
      /\ longer[Len(txs) + 1] = st
  BY <1>4, <1>5, Appended
<1>7. \A k \in DOMAIN longer : (k \in DOMAIN txs /\ longer[k] = txs[k]) \/ k = Len(txs) + 1
  BY <1>4, <1>6
<1>8. Payments(longer, base)
  <2>1. IsInjective(longer)
    <3> SUFFICES ASSUME NEW j \in DOMAIN longer, NEW k \in DOMAIN longer, longer[j] = longer[k]
                 PROVE  j = k
      BY DEF IsInjective
    <3>1. CASE j \in DOMAIN txs /\ k \in DOMAIN txs
      BY <3>1, <1>6 DEF Payments, IsInjective
    <3>2. CASE j = Len(txs) + 1 /\ k \in DOMAIN txs
      BY <3>2, <1>1, <1>2, <1>6
    <3>3. CASE k = Len(txs) + 1 /\ j \in DOMAIN txs
      BY <3>3, <1>1, <1>2, <1>6
    <3> QED
      BY <1>7, <3>1, <3>2, <3>3
  <2>2. \A k \in DOMAIN longer : \E p \in Own(base) : longer[k] = PaymentFrom(base, p)
    <3> TAKE k \in DOMAIN longer
    <3>1. CASE k \in DOMAIN txs /\ longer[k] = txs[k]
      BY <3>1 DEF Payments
    <3>2. CASE k = Len(txs) + 1
      BY <3>2, <1>1, <1>2, <1>6
    <3> QED
      BY <1>7, <3>1, <3>2
  <2> QED
    BY <1>6, <2>1, <2>2 DEF Payments
<1>9. PICK acc : acc = Replay(base, txs)
  OBVIOUS
<1>10. acc.ok /\ own = acc.states
  BY <1>9, PaymentsPass
<1>11. Replay(base, longer) = CheckOne(acc, st)
  BY <1>4, <1>5, <1>9, ReplayAppend
<1>12. PICK after : after = TxApplied(own, st)
  OBVIOUS
<1>13. Replay(base, longer).states = after
  <2>1. TxPasses(acc.states, st)
    BY <1>3, <1>10
  <2>2. CheckOne(acc, st).states = TxApplied(acc.states, st)
    BY <1>10, <2>1 DEF CheckOne
  <2> QED
    BY <1>10, <1>11, <1>12, <2>2
<1>14. IsApplied(after, own, st)
  BY <1>3, <1>12, AppliedAt DEF TypedTx
<1>15. /\ DOMAIN after = Made(st) \cup (DOMAIN own \ ToSet(st.input))
       /\ \A p \in (DOMAIN own \ ToSet(st.input)) \ Made(st) : after[p] = own[p]
  BY <1>14 DEF IsApplied
<1>16. ToSet(st.input) = {o}
  BY DEF SignedPayment, ToSet
<1>17. \A p \in Made(st) : after[p].recipient # SelfAddr
  <2> TAKE p \in Made(st)
  <2>1. PICK k \in DOMAIN st.output : p = <<st, k - 1>>
    BY DEF Made
  <2>2. after[p] = [value |-> st.output[k].value, recipient |-> st.output[k].recipient_addr]
    BY <1>14, <2>1 DEF IsApplied
  <2>3. after[p].recipient = st.output[k].recipient_addr
    BY <2>2
  <2>4. st.output[k].recipient_addr \in {PeerAddrs[1], PeerAddrs[2]}
    <3>1. st.output = PassCheckOutputs(own[o].value, PeerAddrs)
      BY DEF SignedPayment
    <3> QED
      BY <1>2, <3>1, PassCheckSums
  <2> QED
    BY <2>3, <2>4, TxFlowAssumption
<1>18. ASSUME NEW p \in Own(after)
       PROVE  /\ p \in Own(base) /\ after[p] = base[p]
              /\ \A k \in DOMAIN longer : longer[k] # PaymentFrom(base, p)
  <2>1. p \in DOMAIN after /\ after[p].recipient = SelfAddr
    BY DEF Own
  <2>2. p \in DOMAIN own /\ p # o /\ after[p] = own[p]
    BY <1>15, <1>16, <1>17, <2>1
  <2>3. p \in Own(own)
    BY <2>1, <2>2 DEF Own
  <2>4. /\ p \in Own(base) /\ own[p] = base[p]
        /\ \A k \in DOMAIN txs : txs[k] # PaymentFrom(base, p)
    BY <2>3 DEF Remaining
  <2>5. PaymentFrom(base, p) # PaymentFrom(base, o)
    <3>1. PaymentFrom(base, p).input = <<p>> /\ PaymentFrom(base, o).input = <<o>>
      BY DEF PaymentFrom, SignedPayment
    <3> QED
      BY <2>2, <3>1
  <2>6. \A k \in DOMAIN longer : longer[k] # PaymentFrom(base, p)
    BY <1>2, <1>6, <1>7, <2>4, <2>5
  <2> QED
    BY <2>2, <2>4, <2>6
<1>19. Remaining(after, longer, base)
  BY <1>18 DEF Remaining
<1> QED
  BY <1>3, <1>5, <1>8, <1>12, <1>13, <1>19

-----------------------------------------------------------------------------
TxInv == Carried /\ StatesMatch /\ Generated

LEMMA TxInvInit == Init => TxInv
<1> SUFFICES ASSUME Init PROVE TxInv
  OBVIOUS
<1>1. DOMAIN tree = {1} /\ tree[1].states = InitialState
  BY DEF Init
<1>2. StatesMatch
  BY <1>1, InitialMatches DEF StatesMatch
<1>3. /\ mempool = {} /\ DOMAIN transaction = {} /\ DOMAIN finished = {}
      /\ ToSet(transaction) = {}
  BY DEF Init, ToSet
<1>4. Carried
  BY <1>3 DEF Carried, IsInjective
<1>5. Base = InitialState /\ state = InitialState /\ signed = <<>>
  BY <1>1 DEF Base, Init
<1>6. Generated
  BY <1>5, EmptyPayments DEF Generated
<1> QED
  BY <1>2, <1>4, <1>6 DEF TxInv

LEMMA GeneratedStays ==
  ASSUME Generated, UNCHANGED <<prev_tip, state, signed>>, Base' = Base
  PROVE  Generated'
BY DEF Generated

LEMMA GeneratorTxStep ==
  ASSUME IcoIsNoPayment, Inv, TxInv, StartGenerator \/ ReadTip \/ Sign \/ NothingToSpend
  PROVE  TxInv'
<1>0. /\ Carried /\ StatesMatch /\ Generated
      /\ UNCHANGED <<tree, transaction, finished>>
  BY DEF TxInv, StartGenerator, ReadTip, Sign, NothingToSpend, chainVars, minerVars
<1>1. StatesMatch'
  BY <1>0 DEF StatesMatch
<1>2. CASE StartGenerator \/ NothingToSpend
  <2>1. UNCHANGED <<mempool, prev_tip, state, signed>> /\ Base' = Base
    BY <1>0, <1>2 DEF StartGenerator, NothingToSpend, Base
  <2>2. Carried'
    BY <1>0, <2>1 DEF Carried
  <2> QED
    BY <1>0, <1>1, <2>1, <2>2, GeneratedStays DEF TxInv
<1>3. CASE ReadTip
  <2>0. mempool' = mempool
    BY <1>3 DEF ReadTip
  <2>1. Carried'
    BY <1>0, <2>0 DEF Carried
  <2>2. CASE tip = prev_tip
    <3>1. UNCHANGED <<prev_tip, state, signed>> /\ Base' = Base
      BY <1>0, <1>3, <2>2 DEF ReadTip, Base
    <3> QED
      BY <1>0, <1>1, <2>1, <3>1, GeneratedStays DEF TxInv
  <2>3. CASE tip # prev_tip
    <3>1. Base' = tree[tip].states /\ state' = tree[tip].states /\ signed' = <<>>
      BY <1>0, <1>3, <2>3 DEF ReadTip, Base
    <3>2. Generated'
      BY <3>1, EmptyPayments DEF Generated
    <3> QED
      BY <1>1, <2>1, <3>2 DEF TxInv
  <2> QED
    BY <2>2, <2>3
<1>4. CASE Sign
  <2>1. PICK o \in OwnCoins : Pay(o)
    BY <1>4 DEF Sign
  <2>2. PICK st : st = PaymentOf(o)
    OBVIOUS
  <2>3. /\ mempool' = mempool \cup {st} /\ signed' = Append(signed, st)
        /\ state' = TxApplied(state, st) /\ prev_tip' = prev_tip
    BY <1>4, <2>1, <2>2 DEF Pay, Sign
  <2>4. o \in Own(state) /\ st = SignedPayment(SelfAddr, <<o>>, state[o].value, PeerAddrs)
    BY <2>2 DEF OwnCoins, Own, PaymentOf
  <2>5. PICK base : base = Base
    OBVIOUS
  <2>6. Matching(base)
    BY <1>0, <2>5 DEF StatesMatch, Base, Inv, TypeOK
  <2>7. /\ Payments(signed, base)
        /\ state = Replay(base, signed).states
        /\ Remaining(state, signed, base)
    BY <1>0, <2>5 DEF Generated
  <2>8. /\ TypedTx(st)
        /\ Payments(Append(signed, st), base)
        /\ TxApplied(state, st) = Replay(base, Append(signed, st)).states
        /\ Remaining(TxApplied(state, st), Append(signed, st), base)
    BY <2>4, <2>6, <2>7, OneMorePayment
  <2>9. Base' = base
    BY <1>0, <2>3, <2>5 DEF Base
  <2>10. Generated'
    BY <2>3, <2>8, <2>9 DEF Generated
  <2>11. Carried'
    BY <1>0, <2>3, <2>8 DEF Carried
  <2> QED
    BY <1>1, <2>10, <2>11 DEF TxInv
<1> QED
  BY <1>2, <1>3, <1>4

LEMMA MinerTxStep ==
  ASSUME Inv, TxInv, MakeHeader \/ NonceFails \/ BlockFound \/ RemoveOne \/ Removed
  PROVE  TxInv'
<1>0. /\ Carried /\ StatesMatch /\ Generated
      /\ UNCHANGED <<tree, prev_tip, state, signed>> /\ mempool' \subseteq mempool
  BY DEF TxInv, MakeHeader, NonceFails, BlockFound, RemoveOne, Removed, chainVars, genVars
<1>1. StatesMatch' /\ Generated'
  <2>1. Base' = Base
    BY <1>0 DEF Base
  <2>2. StatesMatch'
    BY <1>0 DEF StatesMatch
  <2> QED
    BY <1>0, <2>1, <2>2, GeneratedStays
<1>2. ASSUME UNCHANGED finished,
             \A t \in ToSet(transaction') : TypedTx(t), IsInjective(transaction')
      PROVE  Carried'
  BY <1>0, <1>2 DEF Carried
<1>3. CASE MakeHeader
  <2>1. CASE to_remove = {}
    <3>1. PICK s \in Picks(PickSize) : transaction' = s
      BY <1>3, <2>1 DEF MakeHeader, Pick
    <3>2. ToSet(s) \subseteq mempool /\ IsInjective(s)
      BY <3>1, Picked, PickedOnce DEF Inv, InHand
    <3>3. UNCHANGED finished
      BY <1>3 DEF MakeHeader
    <3> QED
      BY <1>0, <1>1, <1>2, <3>1, <3>2, <3>3 DEF Carried, TxInv
  <2>2. CASE to_remove # {}
    <3>1. UNCHANGED <<transaction, finished>>
      BY <1>3, <2>2 DEF MakeHeader
    <3> QED
      BY <1>0, <1>1, <1>2, <3>1 DEF Carried, TxInv
  <2> QED
    BY <2>1, <2>2
<1>4. CASE NonceFails \/ RemoveOne
  <2>1. UNCHANGED <<transaction, finished>>
    BY <1>4 DEF NonceFails, RemoveOne
  <2> QED
    BY <1>0, <1>1, <1>2, <2>1 DEF Carried, TxInv
<1>5. CASE BlockFound
  <2> DEFINE b == [parent |-> parent, st |-> transaction]
  <2>1. /\ finished' = Append(finished, b) /\ UNCHANGED transaction /\ b.st = transaction
    BY <1>5 DEF BlockFound
  <2> HIDE DEF b
  <2>2. /\ Len(finished) \in Nat /\ DOMAIN finished = 1 .. Len(finished)
        /\ DOMAIN finished' = 1 .. Len(finished) + 1
        /\ \A i \in 1 .. Len(finished) : finished'[i] = finished[i]
        /\ finished'[Len(finished) + 1] = b
    BY <2>1, Appended DEF Inv, Sequences
  <2>3. AllTyped(transaction)
    <3>1. transaction \in Seq(ToSet(transaction))
      BY DEF Inv, Sequences
    <3> QED
      BY <1>0, <3>1 DEF Carried, AllTyped, ToSet
  <2>4. \A i \in DOMAIN finished' : AllTyped(finished'[i].st) /\ IsInjective(finished'[i].st)
    <3> TAKE i \in DOMAIN finished'
    <3>1. CASE i \in DOMAIN finished
      BY <1>0, <2>2, <3>1 DEF Carried
    <3>2. CASE i = Len(finished) + 1
      BY <1>0, <2>1, <2>2, <2>3, <3>2 DEF Carried
    <3> QED
      BY <2>2, <3>1, <3>2
  <2>5. Carried'
    BY <1>0, <2>1, <2>4 DEF Carried
  <2> QED
    BY <1>1, <2>5 DEF TxInv
<1>6. CASE Removed
  <2>1. UNCHANGED finished /\ transaction' = <<>>
    BY <1>6 DEF Removed
  <2>2. ToSet(transaction') = {} /\ DOMAIN transaction' = {}
    BY <2>1 DEF ToSet
  <2>3. Carried'
    BY <1>2, <2>1, <2>2 DEF IsInjective
  <2> QED
    BY <1>1, <2>3 DEF TxInv
<1> QED
  BY <1>3, <1>4, <1>5, <1>6

(* The tree grows by a block whose state is a replay on its parent's.      *)
LEMMA StoreMatches ==
  ASSUME Inv, StatesMatch, NEW p \in DOMAIN tree, NEW txs, AllTyped(txs), Store(p, txs)
  PROVE  StatesMatch' /\ \A i \in DOMAIN tree : tree'[i] = tree[i]
<1> DEFINE b == [parent |-> p, height |-> tree[p].height + 1, st |-> txs,
                 states |-> Replay(tree[p].states, txs).states]
<1>1. tree' = Append(tree, b) /\ b.states = Replay(tree[p].states, txs).states
  BY DEF Store
<1> HIDE DEF b
<1>2. /\ Len(tree) \in Nat /\ DOMAIN tree = 1 .. Len(tree)
      /\ DOMAIN tree' = 1 .. Len(tree) + 1
      /\ \A i \in 1 .. Len(tree) : tree'[i] = tree[i]
      /\ tree'[Len(tree) + 1] = b
  BY <1>1, Appended DEF Inv, Sequences
<1>3. Matching(tree[p].states)
  BY DEF StatesMatch
<1>4. Matching(b.states)
  BY <1>1, <1>3, ReplayMatches
<1>5. StatesMatch'
  <2> SUFFICES ASSUME NEW i \in DOMAIN tree' PROVE Matching(tree'[i].states)
    BY DEF StatesMatch
  <2>1. CASE i \in 1 .. Len(tree)
    BY <1>2, <2>1 DEF StatesMatch
  <2>2. CASE i = Len(tree) + 1
    BY <1>2, <1>4, <2>2
  <2> QED
    BY <1>2, <2>1, <2>2
<1> QED
  BY <1>2, <1>5

LEMMA ChainTxStep ==
  ASSUME Inv, TxInv, \/ StoreFinished
                     \/ \E p \in DOMAIN tree, txs \in PeerContents : ReceiveBlock(p, txs)
  PROVE  TxInv'
<1>0. /\ Carried /\ StatesMatch /\ Generated
      /\ UNCHANGED <<mempool, transaction, prev_tip, state, signed>>
  BY DEF TxInv, StoreFinished, ReceiveBlock, genVars, minerVars
<1>1. StatesMatch' /\ \A i \in DOMAIN tree : tree'[i] = tree[i]
  <2>1. CASE StoreFinished
    <3>1. PICK b : b = Head(finished)
      OBVIOUS
    <3>2. finished # <<>> /\ ((UNCHANGED chainVars) \/ Store(b.parent, b.st))
      BY <2>1, <3>1 DEF StoreFinished
    <3>3. 1 \in DOMAIN finished /\ b = finished[1]
      BY <3>1, <3>2, TailOf DEF Inv, Sequences
    <3>4. b.parent \in DOMAIN tree /\ AllTyped(b.st)
      BY <1>0, <3>3 DEF Inv, TypeOK, Carried
    <3>5. CASE UNCHANGED chainVars
      BY <1>0, <3>5 DEF chainVars, StatesMatch
    <3> QED
      BY <1>0, <3>2, <3>4, <3>5, StoreMatches
  <2>2. CASE \E p \in DOMAIN tree, txs \in PeerContents : ReceiveBlock(p, txs)
    <3>1. PICK p \in DOMAIN tree, txs \in PeerContents : Store(p, txs)
      BY <2>2 DEF ReceiveBlock
    <3>2. AllTyped(txs)
      BY TxFlowAssumption
    <3> QED
      BY <1>0, <3>1, <3>2, StoreMatches
  <2> QED
    BY <2>1, <2>2
<1>2. Generated'
  <2>1. Base' = Base
    BY <1>0, <1>1 DEF Base, Inv, TypeOK
  <2> QED
    BY <1>0, <2>1, GeneratedStays
<1>3. Carried'
  <2>1. CASE StoreFinished
    <3>1. finished # <<>> /\ finished' = Tail(finished)
      BY <2>1 DEF StoreFinished
    <3>2. \A i \in DOMAIN finished' : i + 1 \in DOMAIN finished /\ finished'[i] = finished[i + 1]
      BY <3>1, TailOf DEF Inv, Sequences
    <3> QED
      BY <1>0, <3>2 DEF Carried
  <2>2. CASE \E p \in DOMAIN tree, txs \in PeerContents : ReceiveBlock(p, txs)
    <3>1. UNCHANGED finished
      BY <2>2 DEF ReceiveBlock, minerVars
    <3> QED
      BY <1>0, <3>1 DEF Carried
  <2> QED
    BY <2>1, <2>2
<1> QED
  BY <1>1, <1>2, <1>3 DEF TxInv

LEMMA PeerTxStep ==
  ASSUME TxInv, \/ \E t \in PeerTxs : ReceiveTransaction(t)
                \/ \E t \in mempool : ContainsKey(t)
                \/ GetUnwrap
                \/ UNCHANGED vars
  PROVE  TxInv'
<1>1. /\ UNCHANGED <<tree, prev_tip, state, signed, transaction, finished>>
      /\ \A t \in mempool' : t \in mempool \/ t \in PeerTxs
  BY DEF vars, ReceiveTransaction, ContainsKey, GetUnwrap, chainVars, genVars, minerVars
<1>2. StatesMatch'
  BY <1>1 DEF StatesMatch, TxInv
<1>3. Base' = Base
  BY <1>1 DEF Base
<1>4. Generated'
  BY <1>1, <1>3, GeneratedStays DEF TxInv
<1>5. Carried'
  BY <1>1, TxFlowAssumption DEF Carried, TxInv
<1> QED
  BY <1>2, <1>4, <1>5 DEF TxInv

LEMMA TxInvStep ==
  ASSUME IcoIsNoPayment
  PROVE  Inv /\ TxInv /\ [Next]_vars => TxInv'
BY GeneratorTxStep, MinerTxStep, ChainTxStep, PeerTxStep DEF Next

(* Distinct payments out of what was signed are payments again.            *)
LEMMA SomeOfSigned ==
  ASSUME IcoIsNoPayment, Inv, TxInv, NEW txs, txs \in Seq(ToSet(txs)), IsInjective(txs),
         ToSet(txs) \subseteq ToSet(signed)
  PROVE  Accepts(prev_tip, txs)
<1>1. PICK base : base = Base
  OBVIOUS
<1>2. Matching(base) /\ Payments(signed, base)
  BY <1>1 DEF TxInv, StatesMatch, Generated, Base, Inv, TypeOK
<1>3. \A k \in DOMAIN txs : \E o \in Own(base) : txs[k] = PaymentFrom(base, o)
  <2> TAKE k \in DOMAIN txs
  <2>1. PICK i \in DOMAIN signed : txs[k] = signed[i]
    BY DEF ToSet
  <2> QED
    BY <1>2, <2>1 DEF Payments
<1>4. Payments(txs, base)
  BY <1>3 DEF Payments
<1>5. Replay(base, txs).ok
  BY <1>2, <1>4, PaymentsPass
<1> QED
  BY <1>1, <1>5 DEF Accepts, Base

(* The generator's private state runs ahead of the chain exactly as the    *)
(* check of a block will, and its payments are independent: the miner may  *)
(* take any of them in any order.                                          *)
THEOREM SignedAreIndependent ==
  ASSUME IcoIsNoPayment
  PROVE  Spec => []PendingValidInAnyOrder
<1>1. Inv /\ TxInv => PendingValidInAnyOrder
  <2> SUFFICES ASSUME Inv, TxInv PROVE PendingValidInAnyOrder
    OBVIOUS
  <2>1. signed \in Seq(ToSet(signed)) /\ state = Replay(tree[prev_tip].states, signed).states
    BY DEF TxInv, Generated, Payments, Base
  <2>2. ASSUME NEW s \in SetToAllKPermutations(ToSet(signed)) PROVE Accepts(prev_tip, s)
    <3>1. PICK S \in SUBSET ToSet(signed) : s \in SetToSeqs(S)
      BY DEF SetToAllKPermutations
    <3>2. IsFiniteSet(ToSet(signed))
      BY <2>1, SetOfSeq
    <3>3. IsFiniteSet(S)
      BY <3>2, FS_Subset
    <3>4. Cardinality(S) \in Nat
      BY <3>3, FS_CardinalityType
    <3>5. /\ s \in [1 .. Cardinality(S) -> S]
          /\ \A i, j \in 1 .. Cardinality(S) : i # j => s[i] # s[j]
      BY <3>1 DEF SetToSeqs
    <3>6. s \in Seq(S) /\ IsInjective(s) /\ ToSet(s) \subseteq S
      BY <3>4, <3>5 DEF IsInjective, ToSet
    <3>7. s \in Seq(ToSet(s))
      BY <3>6, SetOfSeq
    <3> QED
      BY <3>6, <3>7, SomeOfSigned
  <2> QED
    BY <2>1, <2>2 DEF PendingValidInAnyOrder
<1>2. Init => Inv /\ TxInv
  BY InvInit, TxInvInit
<1>3. Inv /\ TxInv /\ [Next]_vars => Inv' /\ TxInv'
  BY InvStep, TxInvStep
<1> QED
  BY <1>1, <1>2, <1>3, PTL DEF Spec

(* So a block of such payments on the tip they were signed for is stored,  *)
(* though the miner copied them before and the channel delayed the block.  *)
THEOREM FreshBlocksPass ==
  ASSUME IcoIsNoPayment
  PROVE  Spec => []FreshBlocksStored
<1>1. Inv /\ TxInv => FreshBlocksStored
  <2> SUFFICES ASSUME Inv, TxInv, NEW i \in DOMAIN finished, finished[i].parent = prev_tip,
                      ToSet(finished[i].st) \subseteq ToSet(signed)
               PROVE  Accepts(prev_tip, finished[i].st)
    BY DEF FreshBlocksStored
  <2>1. AllTyped(finished[i].st) /\ IsInjective(finished[i].st)
    BY DEF TxInv, Carried
  <2> QED
    BY <2>1, SomeOfSigned DEF AllTyped
<1>2. Init => Inv /\ TxInv
  BY InvInit, TxInvInit
<1>3. Inv /\ TxInv /\ [Next]_vars => Inv' /\ TxInv'
  BY InvStep, TxInvStep
<1> QED
  BY <1>1, <1>2, <1>3, PTL DEF Spec
=============================================================================
