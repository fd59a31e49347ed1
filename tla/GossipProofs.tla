---------------------------- MODULE GossipProofs ----------------------------
(***************************************************************************)
(* Proofs about module Gossip, for any nodes, connections, workers and     *)
(* blocks, and any number of breaks and restarts: what a node tells its    *)
(* live peers it has, what it is asked for it has, and what is stored      *)
(* while a connection is up has come to its other end once nothing is      *)
(* under way.                                                              *)
(***************************************************************************)
EXTENDS Gossip, FiniteSetTheorems, SequenceTheorems, WellFoundedInduction, TLAPS

(* The strengthening of MessagesBacked and Answerable, by membership:      *)
(* what a live link may carry, what a store hangs on, what a thread has in *)
(* hand, and how the links come in pairs and are used once.                *)
Known(m) == Hash \cap DOMAIN blocks[m]

Backed(l) ==
  [type : {"NewBlockHashes", "Blocks"}, hashes : Seq(Known(l[1]))]
    \cup [type : {"GetBlocks"}, hashes : Seq(Known(l[2]))]

Carried == \A l \in up : chan[l] \in Seq(Backed(l))

Eligible(m) == {b \in Hash : Parent(b) \in DOMAIN blocks[m]}

Stores ==
  \A m \in Node :
    /\ Genesis \in DOMAIN blocks[m]
    /\ Known(m) \subseteq Eligible(m)
    /\ finished[m] \in Seq(Eligible(m))
    /\ control_chan[m] \in Seq(Seq(Known(m)))

InHand ==
  \A t \in Thread :
    /\ new_blocks[t] \in Seq(Known(t[1]))
    /\ peer[t] # None => peer[t] \in used /\ peer[t][2] = t[1]
    /\ peer[t] \in up => todo[t] \in Seq(Known(peer[t][1]))

Paired ==
  /\ \A l \in up : Back(l) \in up
  /\ \A l \in used : Back(l) \in used
  /\ \A l \in Links \ used : chan[l] = <<>>

Inv ==
  /\ TypeOK
  /\ Paired
  /\ Stores
  /\ InHand
  /\ Carried

-----------------------------------------------------------------------------
LEMMA SeqMonotone == ASSUME NEW S, NEW T, S \subseteq T PROVE Seq(S) \subseteq Seq(T)
OBVIOUS

LEMMA LinkFacts ==
  \A l \in Links : /\ l = <<l[1], l[2], l[3]>>
                   /\ l[1] \in Node /\ l[2] \in Node /\ l[1] # l[2]
                   /\ Back(l) \in Links /\ Back(l) # l /\ Back(Back(l)) = l
                   /\ Back(l)[1] = l[2] /\ Back(l)[2] = l[1]
<1> SUFFICES ASSUME NEW l \in Links
             PROVE  /\ l = <<l[1], l[2], l[3]>>
                    /\ l[1] \in Node /\ l[2] \in Node /\ l[1] # l[2]
                    /\ Back(l) \in Links /\ Back(l) # l /\ Back(Back(l)) = l
                    /\ Back(l)[1] = l[2] /\ Back(l)[2] = l[1]
  OBVIOUS
<1>1. /\ l = <<l[1], l[2], l[3]>>
      /\ l[1] \in Node /\ l[2] \in Node /\ l[3] \in 1 .. 1 + MaxRestarts
      /\ l[1] \in ToSet(KnownPeers[l[2]]) \/ l[2] \in ToSet(KnownPeers[l[1]])
  BY DEF Links
<1>2. l[1] # l[2]
  BY <1>1, GossipAssumption
<1>3. Back(l) = <<l[2], l[1], l[3]>>
  BY DEF Back
<1>4. Back(l) \in Links
  BY <1>1, <1>3 DEF Links
<1> QED
  BY <1>1, <1>2, <1>3, <1>4 DEF Back

(* Where the stores only grow, what could be carried can be carried still. *)
LEMMA BackedGrows ==
  ASSUME NEW l, Known(l[1]) \subseteq Known(l[1])', Known(l[2]) \subseteq Known(l[2])'
  PROVE  Seq(Backed(l)) \subseteq Seq(Backed(l)')
<1>1. Seq(Known(l[1])) \subseteq Seq(Known(l[1])') /\ Seq(Known(l[2])) \subseteq Seq(Known(l[2])')
  BY SeqMonotone
<1>2. Backed(l) \subseteq Backed(l)'
  BY <1>1 DEF Backed
<1> QED
  BY <1>2, SeqMonotone

LEMMA BackedMessages ==
  ASSUME NEW l, Known(l[1]) \subseteq Hash
  PROVE  /\ \A hs \in Seq(Known(l[1])) :
              NewBlockHashes(hs) \in Backed(l) /\ Blocks(hs) \in Backed(l)
         /\ \A hs \in Seq(Known(l[2])) : GetBlocks(hs) \in Backed(l)
         /\ \A msg \in Backed(l) :
              /\ msg.type \in {"NewBlockHashes", "Blocks"} => msg.hashes \in Seq(Known(l[1]))
              /\ msg.type = "GetBlocks" => msg.hashes \in Seq(Known(l[2]))
BY DEF Backed, NewBlockHashes, Blocks, GetBlocks

LEMMA GossipInit == Init => Inv
<1> SUFFICES ASSUME Init PROVE Inv
  OBVIOUS
<1> USE GossipAssumption, BlockAssumption DEF Init
<1>1. DOMAIN NewBlocks = {Genesis}
  BY DEF NewBlocks
<1>2. TypeOK
  BY <1>1 DEF TypeOK, Message
<1>3. Paired
  BY DEF Paired
<1>4. Stores
  BY <1>1 DEF Stores, Known, Eligible
<1>5. InHand /\ Carried
  BY NoneAssumption DEF InHand, Carried, Thread
<1> QED
  BY <1>2, <1>3, <1>4, <1>5 DEF Inv

-----------------------------------------------------------------------------
(* Unknown lists the hashes it is given and m has not, each at its rank.   *)
Wanted(m, hs) == {i \in DOMAIN hs : hs[i] \notin DOMAIN blocks[m]}
UpTo(m, hs, i) == {j \in Wanted(m, hs) : j <= i}

LEMMA Ranks ==
  ASSUME NEW m \in Node, NEW S, NEW hs \in Seq(S)
  PROVE  /\ Wanted(m, hs) \subseteq 1 .. Len(hs)
         /\ IsFiniteSet(Wanted(m, hs)) /\ Cardinality(Wanted(m, hs)) \in Nat
         /\ \A i \in Wanted(m, hs) :
              Cardinality(UpTo(m, hs, i)) \in 1 .. Cardinality(Wanted(m, hs))
         /\ \A i, j \in Wanted(m, hs) :
              Cardinality(UpTo(m, hs, i)) = Cardinality(UpTo(m, hs, j)) => i = j
<1> DEFINE wanted == Wanted(m, hs)
           upto(i) == UpTo(m, hs, i)
           c == Cardinality(wanted)
<1>1. wanted \subseteq 1 .. Len(hs) /\ Len(hs) \in Nat
  BY DEF Wanted
<1>2. IsFiniteSet(wanted) /\ c \in Nat
  <2>1. IsFiniteSet(1 .. Len(hs))
    BY <1>1, FS_Interval
  <2> QED
    BY <1>1, <2>1, FS_Subset, FS_CardinalityType
<1>3. ASSUME NEW i \in wanted
      PROVE  /\ IsFiniteSet(upto(i))
             /\ Cardinality(upto(i)) \in 1 .. c
  <2>1. upto(i) \subseteq wanted /\ i \in upto(i)
    BY <1>1 DEF UpTo
  <2>2. IsFiniteSet(upto(i)) /\ Cardinality(upto(i)) <= c
    BY <1>2, <2>1, FS_Subset
  <2>3. Cardinality(upto(i)) \in Nat /\ Cardinality(upto(i)) # 0
    BY <2>1, <2>2, FS_CardinalityType, FS_EmptySet
  <2> QED
    BY <1>2, <2>2, <2>3
<1>4. ASSUME NEW i \in wanted, NEW j \in wanted, i < j
      PROVE  Cardinality(upto(i)) # Cardinality(upto(j))
  <2>1. upto(i) \subseteq upto(j) /\ j \in upto(j) /\ j \notin upto(i)
    BY <1>1, <1>4 DEF UpTo
  <2> QED
    BY <1>3, <2>1, FS_Subset
<1>5. ASSUME NEW i \in wanted, NEW j \in wanted, Cardinality(upto(i)) = Cardinality(upto(j))
      PROVE  i = j
  <2>1. i \in Int /\ j \in Int
    BY <1>1
  <2> HIDE DEF wanted, upto
  <2> QED
    BY <1>4, <1>5, <2>1
<1> QED
  BY <1>1, <1>2, <1>3, <1>5

LEMMA UnknownSeq ==
  ASSUME NEW m \in Node, NEW S, NEW hs \in Seq(S)
  PROVE  Unknown(m, hs) \in Seq(S)
<1> DEFINE wanted == Wanted(m, hs)
           upto(i) == UpTo(m, hs, i)
           c == Cardinality(wanted)
           rank == [i \in wanted |-> Cardinality(upto(i))]
           place(k) == CHOOSE i \in wanted : Cardinality(upto(i)) = k
<1>1. /\ wanted \subseteq 1 .. Len(hs)
      /\ IsFiniteSet(wanted) /\ c \in Nat
      /\ \A i \in wanted : Cardinality(upto(i)) \in 1 .. c
      /\ \A i, j \in wanted : Cardinality(upto(i)) = Cardinality(upto(j)) => i = j
  BY Ranks
<1>2. rank \in Injection(wanted, 1 .. c)
  <2>1. rank \in [wanted -> 1 .. c] /\ \A i, j \in wanted : rank[i] = rank[j] => i = j
    BY <1>1
  <2> HIDE DEF rank
  <2> QED
    BY <2>1 DEF Injection, IsInjective
<1>3. rank \in Surjection(wanted, 1 .. c)
  <2>1. IsFiniteSet(1 .. c) /\ Cardinality(1 .. c) = c
    BY <1>1, FS_Interval
  <2> HIDE DEF rank, wanted
  <2> QED
    BY <1>1, <1>2, <2>1, FS_Injection
<1>4. ASSUME NEW k \in 1 .. c
      PROVE  hs[place(k)] \in S
  <2>1. PICK i \in wanted : rank[i] = k
    BY <1>3 DEF Surjection
  <2>2. place(k) \in wanted
    BY <2>1
  <2> QED
    BY <1>1, <2>2
<1>5. Unknown(m, hs) = [k \in 1 .. c |-> hs[place(k)]]
  BY DEF Unknown, Wanted, UpTo
<1> HIDE DEF c, place, upto, wanted
<1> QED
  BY <1>1, <1>4, <1>5

-----------------------------------------------------------------------------
(* What stays true of the parts a step leaves alone while stores grow.     *)
Grown == \A k \in Node : Known(k) \subseteq Known(k)' /\ Eligible(k) \subseteq Eligible(k)'

LEMMA GrownFrame == UNCHANGED blocks => Grown
BY DEF Grown, Known, Eligible

LEMMA CarriedFrame ==
  ASSUME Inv, Grown, UNCHANGED chan, up' \subseteq up PROVE Carried'
<1> SUFFICES ASSUME NEW l \in up' PROVE chan[l] \in Seq(Backed(l)')
  BY DEF Carried
<1>1. l \in Links
  BY DEF Inv, TypeOK
<1>2. Seq(Backed(l)) \subseteq Seq(Backed(l)')
  BY <1>1, LinkFacts, BackedGrows DEF Grown
<1> QED
  BY <1>2 DEF Inv, Carried

LEMMA InHandFrame ==
  ASSUME Inv, Grown, UNCHANGED <<todo, peer, new_blocks>>, used \subseteq used',
         up' \subseteq Links, up' \cap used \subseteq up
  PROVE  InHand'
<1> SUFFICES ASSUME NEW t \in Thread
             PROVE  /\ new_blocks[t] \in Seq(Known(t[1])')
                    /\ peer[t] # None => peer[t] \in used' /\ peer[t][2] = t[1]
                    /\ peer[t] \in up' => todo[t] \in Seq(Known(peer[t][1])')
  BY DEF InHand
<1>1. new_blocks[t] \in Seq(Known(t[1])')
  <2>1. t[1] \in Node
    BY DEF Thread
  <2>2. Seq(Known(t[1])) \subseteq Seq(Known(t[1])')
    BY <2>1, SeqMonotone DEF Grown
  <2> QED
    BY <2>2 DEF Inv, InHand
<1>2. peer[t] # None => peer[t] \in used' /\ peer[t][2] = t[1]
  BY DEF Inv, InHand
<1>3. ASSUME peer[t] \in up' PROVE todo[t] \in Seq(Known(peer[t][1])')
  <2>1. peer[t] \in Links \cup {None}
    BY DEF Inv, TypeOK
  <2>2. CASE peer[t] = None
    BY <1>3, <2>2, NoneAssumption
  <2>3. CASE peer[t] # None
    <3>1. peer[t] \in up /\ peer[t] \in Links /\ peer[t][1] \in Node
      BY <1>3, <2>1, <2>3, LinkFacts DEF Inv, InHand
    <3>2. Seq(Known(peer[t][1])) \subseteq Seq(Known(peer[t][1])')
      BY <3>1, SeqMonotone DEF Grown
    <3> QED
      BY <3>1, <3>2 DEF Inv, InHand
  <2> QED
    BY <2>2, <2>3
<1> QED
  BY <1>1, <1>2, <1>3

(* Blockchain::insert of a block whose parent is there.                    *)
Inserted(m, b) ==
  /\ Grown
  /\ DOMAIN blocks' = Node /\ DOMAIN tip' = Node
  /\ b \in Known(m)'
  /\ \A k \in Node : /\ DOMAIN blocks'[k] \subseteq Hash \cup {Genesis}
                     /\ tip'[k] \in DOMAIN blocks'[k]
                     /\ miner_tip[k] \in DOMAIN blocks'[k]
                     /\ Genesis \in DOMAIN blocks'[k]
                     /\ Known(k)' \subseteq Eligible(k)'

LEMMA InsertFacts ==
  ASSUME Inv, NEW m \in Node, NEW b \in Eligible(m), Insert(m, b)
  PROVE  Inserted(m, b)
<1>1. /\ DOMAIN blocks = Node
      /\ \A k \in Node : /\ DOMAIN blocks[k] \subseteq Hash \cup {Genesis}
                         /\ tip[k] \in DOMAIN blocks[k]
                         /\ miner_tip[k] \in DOMAIN blocks[k]
                         /\ Genesis \in DOMAIN blocks[k]
                         /\ Known(k) \subseteq Eligible(k)
  BY DEF Inv, TypeOK, Stores
<1>2. b \in Hash /\ Parent(b) \in DOMAIN blocks[m]
  BY DEF Eligible
<1>3. /\ DOMAIN blocks' = Node /\ DOMAIN tip' = Node
      /\ DOMAIN blocks'[m] = DOMAIN blocks[m] \cup {b}
      /\ \A k \in Node \ {m} : blocks'[k] = blocks[k]
  BY <1>1 DEF Insert, BlocksWith, Inv, TypeOK
<1>4. \A k \in Node : tip'[k] \in DOMAIN blocks'[k]
  <2>1. TipWith(blocks[m], tip[m], b) \in {tip[m], b}
    BY DEF TipWith
  <2>2. tip' = [tip EXCEPT ![m] = TipWith(blocks[m], tip[m], b)]
    BY DEF Insert
  <2>3. \A k \in Node : tip'[k] \in {tip[k]} \cup (IF k = m THEN {b} ELSE {})
    BY <2>1, <2>2 DEF Inv, TypeOK
  <2> QED
    BY <1>1, <1>3, <2>3
<1>5. \A k \in Node : Known(k)' = IF k = m THEN Known(k) \cup {b} ELSE Known(k)
  BY <1>2, <1>3 DEF Known
<1>6. \A k \in Node : Eligible(k) \subseteq Eligible(k)'
  BY <1>3 DEF Eligible
<1>7. b \in Eligible(m)'
  BY <1>6
<1> QED
  BY <1>1, <1>2, <1>3, <1>4, <1>5, <1>6, <1>7 DEF Grown, Inserted
-----------------------------------------------------------------------------
(* The miner and the server task.                                          *)
LEMMA ReadTipStep == ASSUME NEW m \in Node PROVE Inv /\ ReadTip(m) => Inv'
<1> SUFFICES ASSUME Inv, ReadTip(m) PROVE Inv'
  OBVIOUS
<1> USE DEF ReadTip, nodeVars, workerVars, linkVars, faultVars
<1>1. TypeOK'
  BY DEF Inv, TypeOK
<1>2. Grown
  BY GrownFrame
<1>3. Paired' /\ Stores'
  BY DEF Inv, Paired, Stores, Known, Eligible
<1>4. InHand' /\ Carried'
  BY <1>1, <1>2, InHandFrame, CarriedFrame DEF TypeOK
<1> QED
  BY <1>1, <1>3, <1>4 DEF Inv

LEMMA MineStep == ASSUME NEW m \in Node, NEW b \in Hash PROVE Inv /\ Mine(m, b) => Inv'
<1> SUFFICES ASSUME Inv, Mine(m, b) PROVE Inv'
  OBVIOUS
<1> USE DEF Mine, nodeVars, workerVars, linkVars, faultVars
<1>1. TypeOK'
  BY DEF Inv, TypeOK
<1>2. Grown
  BY GrownFrame
<1>3. Stores'
  <2>1. b \in Eligible(m)
    BY DEF Inv, TypeOK, Eligible
  <2>2. \A k \in Node : finished'[k] \in Seq(Eligible(k))
    BY <2>1 DEF Inv, TypeOK, Stores
  <2> QED
    BY <2>2 DEF Inv, Stores, Known, Eligible
<1>4. Paired' /\ InHand' /\ Carried'
  BY <1>1, <1>2, InHandFrame, CarriedFrame DEF Inv, TypeOK, Paired
<1> QED
  BY <1>1, <1>3, <1>4 DEF Inv

LEMMA StoreFinishedStep == ASSUME NEW m \in Node PROVE Inv /\ StoreFinished(m) => Inv'
<1> SUFFICES ASSUME Inv, StoreFinished(m) PROVE Inv'
  OBVIOUS
<1> DEFINE b == Head(finished[m])
<1> USE DEF StoreFinished, workerVars, linkVars, faultVars
<1>1. b \in Eligible(m) /\ Tail(finished[m]) \in Seq(Eligible(m)) /\ Insert(m, b)
  BY DEF Inv, Stores
<1> HIDE DEF b
<1>2. Inserted(m, b)
  BY <1>1, InsertFacts
<1>3. /\ control_chan' = [control_chan EXCEPT ![m] = Append(@, <<b>>)]
      /\ finished' = [finished EXCEPT ![m] = Tail(@)]
  BY DEF Broadcast, b
<1>4. TypeOK'
  <2>1. b \in Hash /\ <<b>> \in Seq(Hash)
    BY <1>1 DEF Eligible
  <2>2. control_chan' \in [Node -> Seq(Seq(Hash))] /\ finished' \in [Node -> Seq(Hash)]
    BY <1>3, <2>1 DEF Inv, TypeOK
  <2> QED
    BY <1>2, <2>2 DEF Inv, TypeOK, Inserted
<1>5. Stores'
  <2>1. <<b>> \in Seq(Known(m)')
    BY <1>2 DEF Inserted
  <2>2. ASSUME NEW k \in Node
        PROVE  finished'[k] \in Seq(Eligible(k)') /\ control_chan'[k] \in Seq(Seq(Known(k)'))
    <3>1. /\ Seq(Eligible(k)) \subseteq Seq(Eligible(k)')
          /\ Seq(Known(k)) \subseteq Seq(Known(k)')
      BY <1>2, SeqMonotone DEF Grown, Inserted
    <3>2. Seq(Seq(Known(k))) \subseteq Seq(Seq(Known(k)'))
      BY <3>1, SeqMonotone
    <3>3. finished[k] \in Seq(Eligible(k)') /\ control_chan[k] \in Seq(Seq(Known(k)'))
      BY <3>1, <3>2 DEF Inv, Stores
    <3>4. finished'[k] \in Seq(Eligible(k)')
      BY <1>1, <1>3, <3>1, <3>3 DEF Inv, TypeOK
    <3>5. control_chan'[k] \in Seq(Seq(Known(k)'))
      BY <1>3, <2>1, <3>3 DEF Inv, TypeOK
    <3> QED
      BY <3>4, <3>5
  <2> QED
    BY <1>2, <2>2 DEF Stores, Inserted
<1>6. Paired' /\ InHand' /\ Carried'
  BY <1>2, <1>4, InHandFrame, CarriedFrame DEF Inv, TypeOK, Paired, Inserted
<1> QED
  BY <1>4, <1>5, <1>6 DEF Inv

LEMMA DispatchStep == ASSUME NEW m \in Node PROVE Inv /\ Dispatch(m) => Inv'
<1> SUFFICES ASSUME Inv, Dispatch(m) PROVE Inv'
  OBVIOUS
<1> DEFINE hs == Head(control_chan[m])
<1> USE DEF Dispatch, nodeVars, workerVars, linkVars, faultVars
<1>1. /\ hs \in Seq(Known(m)) /\ Tail(control_chan[m]) \in Seq(Seq(Known(m)))
      /\ hs \in Seq(Hash) /\ Tail(control_chan[m]) \in Seq(Seq(Hash))
  BY DEF Inv, Stores, TypeOK
<1>2. chan' = [l \in Links |-> IF l[1] = m /\ l \in up
                               THEN Append(chan[l], NewBlockHashes(hs)) ELSE chan[l]]
  OBVIOUS
<1> HIDE DEF hs
<1>3. Grown
  BY GrownFrame DEF minerVars
<1>4. TypeOK'
  <2>1. NewBlockHashes(hs) \in Message
    BY <1>1 DEF NewBlockHashes, Message
  <2>2. chan' \in [Links -> Seq(Message)]
    <3>1. chan \in [Links -> Seq(Message)]
      BY DEF Inv, TypeOK
    <3>2. \A s \in Seq(Message) : Append(s, NewBlockHashes(hs)) \in Seq(Message)
      BY <2>1
    <3> QED
      BY <1>2, <3>1, <3>2
  <2>3. control_chan' \in [Node -> Seq(Seq(Hash))]
    BY <1>1 DEF Inv, TypeOK
  <2> QED
    BY <2>2, <2>3 DEF Inv, TypeOK, minerVars
<1>5. Stores'
  BY <1>1 DEF Inv, Stores, Known, Eligible, minerVars, TypeOK
<1>6. Paired'
  BY <1>2 DEF Inv, Paired, TypeOK
<1>7. InHand'
  BY <1>3, <1>4, InHandFrame DEF TypeOK
<1>8. Carried'
  <2> SUFFICES ASSUME NEW l \in up PROVE chan'[l] \in Seq(Backed(l))
    BY DEF Carried, Backed, Known
  <2>1. l \in Links /\ chan[l] \in Seq(Backed(l))
    BY DEF Inv, TypeOK, Carried
  <2>2. l[1] = m => NewBlockHashes(hs) \in Backed(l)
    BY <1>1, BackedMessages DEF Known
  <2> QED
    BY <1>2, <2>1, <2>2
<1> QED
  BY <1>4, <1>5, <1>6, <1>7, <1>8 DEF Inv
-----------------------------------------------------------------------------
(* The network and its faults.                                             *)
LEMMA ConnectStep == ASSUME NEW m \in Node PROVE Inv /\ Connect(m) => Inv'
<1> SUFFICES ASSUME Inv, Connect(m) PROVE Inv'
  OBVIOUS
<1> USE DEF nodeVars, minerVars, workerVars, faultVars
<1>1. PICK l \in Links \ used :
        LET ends == {l, Back(l)} IN
        /\ up' = up \cup ends
        /\ used' = used \cup ends
        /\ before' = [e \in Links |-> IF e \in ends THEN DOMAIN blocks[e[1]] ELSE before[e]]
  BY DEF Connect
<1>2. /\ Back(l) \in Links /\ Back(Back(l)) = l
      /\ Back(l) \notin used
  BY LinkFacts DEF Inv, Paired
<1>3. UNCHANGED <<nodeVars, minerVars, workerVars, control_chan, chan, mined, faultVars>>
  BY DEF Connect
<1>4. Grown
  BY <1>3, GrownFrame
<1>5. TypeOK'
  <2>1. before' \in [Links -> SUBSET (Hash \cup {Genesis})]
    BY <1>1, LinkFacts DEF Inv, TypeOK
  <2>2. \A k \in Node : dialed'[k] \in 0 .. Len(KnownPeers[k])
    <3>1. Len(KnownPeers[m]) \in Nat /\ dialed[m] < Len(KnownPeers[m])
          /\ dialed' = [dialed EXCEPT ![m] = @ + 1]
      BY GossipAssumption DEF Connect
    <3> QED
      BY <3>1 DEF Inv, TypeOK
  <2>3. up' \subseteq used' /\ used' \subseteq Links
    BY <1>1, <1>2 DEF Inv, TypeOK
  <2>4. peer' \in [Thread -> Links \cup {None}]
    BY <1>3 DEF Inv, TypeOK
  <2> QED
    BY <1>3, <2>1, <2>2, <2>3, <2>4 DEF Inv, TypeOK
<1>6. Paired'
  BY <1>1, <1>2, <1>3 DEF Inv, Paired
<1>7. Stores'
  BY <1>3 DEF Inv, Stores, Known, Eligible
<1>8. InHand'
  <2>1. up' \cap used \subseteq up /\ used \subseteq used' /\ up' \subseteq Links
    BY <1>1, <1>2 DEF Inv, TypeOK
  <2> QED
    BY <1>3, <1>4, <2>1, InHandFrame
<1>9. Carried'
  <2>1. ASSUME NEW k \in {l, Back(l)} PROVE chan[k] = <<>>
    BY <1>2 DEF Inv, Paired
  <2>2. ASSUME NEW k \in up' PROVE chan'[k] \in Seq(Backed(k))
    <3>1. k \in up \/ k \in {l, Back(l)}
      BY <1>1
    <3>2. chan'[k] = chan[k]
      BY <1>3
    <3>3. <<>> \in Seq(Backed(k))
      OBVIOUS
    <3>4. k \in up => chan[k] \in Seq(Backed(k))
      BY DEF Inv, Carried
    <3>5. k \in {l, Back(l)} => chan[k] = <<>>
      BY <2>1
    <3> QED
      BY <3>1, <3>2, <3>3, <3>4, <3>5
  <2> QED
    BY <1>3, <2>2 DEF Carried, Backed, Known
<1> QED
  BY <1>5, <1>6, <1>7, <1>8, <1>9 DEF Inv

LEMMA CutsFacts ==
  ASSUME NEW ls, NEW cut \in Cuts(ls), NEW l \in ls, NEW S, chan[l] \in Seq(S)
  PROVE  cut[l] \in Seq(S)
<1>1. PICK i \in 0 .. Len(chan[l]) : cut[l] = SubSeq(chan[l], 1, i)
  BY DEF Cuts, Prefixes
<1> QED
  BY <1>1

LEMMA BreakStep == ASSUME NEW l \in Links PROVE Inv /\ Break(l) => Inv'
<1> SUFFICES ASSUME Inv, Break(l) PROVE Inv'
  OBVIOUS
<1> USE DEF nodeVars, minerVars, workerVars
<1>1. PICK cut \in Cuts({l, Back(l)}) :
        chan' = [k \in Links |-> IF k \in {l, Back(l)} THEN cut[k] ELSE chan[k]]
  BY DEF Break
<1>2. /\ l \in up /\ up' = up \ {l, Back(l)}
      /\ UNCHANGED <<nodeVars, minerVars, workerVars, control_chan, dialed, used, before,
                     mined, restarts>>
  BY DEF Break
<1>3. Back(l) \in Links /\ Back(Back(l)) = l /\ {l, Back(l)} \subseteq used
  BY <1>2, LinkFacts DEF Inv, TypeOK, Paired
<1>4. Grown
  BY <1>2, GrownFrame
<1>5. TypeOK'
  <2>1. \A k \in Links : chan[k] \in Seq(Message)
    BY DEF Inv, TypeOK
  <2>2. chan' \in [Links -> Seq(Message)]
    BY <1>1, <1>3, <2>1, CutsFacts
  <2>3. breaks' \in 0 .. MaxBreaks
    BY GossipAssumption DEF Inv, TypeOK, Break
  <2>4. peer' \in [Thread -> Links \cup {None}]
    BY <1>2 DEF Inv, TypeOK
  <2> QED
    BY <1>2, <2>2, <2>3, <2>4 DEF Inv, TypeOK
<1>6. Paired'
  <2>1. \A k \in up' : Back(k) \in up'
    <3> SUFFICES ASSUME NEW k \in up' PROVE Back(k) \in up'
      OBVIOUS
    <3>1. k \in Links /\ Back(Back(k)) = k /\ Back(k) \in up
      BY <1>2, LinkFacts DEF Inv, TypeOK, Paired
    <3> QED
      BY <1>2, <1>3, <3>1
  <2>2. \A k \in Links \ used : chan'[k] = <<>>
    BY <1>1, <1>3 DEF Inv, Paired
  <2> QED
    BY <1>2, <2>1, <2>2 DEF Inv, Paired
<1>7. Stores'
  BY <1>2 DEF Inv, Stores, Known, Eligible
<1>8. InHand'
  BY <1>2, <1>4, <1>5, InHandFrame DEF TypeOK
<1>9. Carried'
  <2>1. \A k \in up' : chan'[k] \in Seq(Backed(k))
    BY <1>1, <1>2 DEF Inv, Carried, TypeOK
  <2> QED
    BY <1>2, <2>1 DEF Carried, Backed, Known
<1> QED
  BY <1>5, <1>6, <1>7, <1>8, <1>9 DEF Inv

(* A restart empties a store, but of the links that stay up none begins or *)
(* ends there, and nothing of the node is left to send.                    *)
LEMMA RestartStep == ASSUME NEW m \in Node PROVE Inv /\ Restart(m) => Inv'
<1> SUFFICES ASSUME Inv, Restart(m) PROVE Inv'
  OBVIOUS
<1> DEFINE Reset(f, v) == [t \in Thread |-> IF t[1] = m THEN v ELSE f[t]]
<1>1. /\ orphan_blocks' = Reset(orphan_blocks, <<>>)
      /\ todo' = Reset(todo, <<>>)
      /\ peer' = Reset(peer, None)
      /\ new_blocks' = Reset(new_blocks, <<>>)
      /\ n' = Reset(n, 0)
  BY DEF Restart
<1>2. PICK cut \in Cuts({l \in up : l[1] = m}) :
        chan' = [l \in Links |-> CASE l[2] = m -> <<>>
                                    [] l[1] = m /\ l \in up -> cut[l]
                                    [] OTHER -> chan[l]]
  BY DEF Restart
<1>3. up' = {l \in up : m \notin {l[1], l[2]}} /\ UNCHANGED <<used, before, mined, breaks>>
  BY DEF Restart
<1>4. /\ blocks' = [blocks EXCEPT ![m] = NewBlocks]
      /\ tip' = [tip EXCEPT ![m] = Genesis]
      /\ miner_tip' = [miner_tip EXCEPT ![m] = Genesis]
      /\ finished' = [finished EXCEPT ![m] = <<>>]
      /\ control_chan' = [control_chan EXCEPT ![m] = <<>>]
      /\ dialed' = [dialed EXCEPT ![m] = 0]
  BY DEF Restart
<1>5. /\ DOMAIN blocks' = Node /\ DOMAIN tip' = Node /\ DOMAIN miner_tip' = Node
      /\ DOMAIN blocks'[m] = {Genesis}
      /\ \A k \in Node \ {m} : blocks'[k] = blocks[k]
  BY <1>4 DEF Inv, TypeOK, NewBlocks
<1>6. TypeOK'
  <2>1. \A k \in Node : /\ DOMAIN blocks'[k] \subseteq Hash \cup {Genesis}
                        /\ tip'[k] \in DOMAIN blocks'[k]
                        /\ miner_tip'[k] \in DOMAIN blocks'[k]
    <3> SUFFICES ASSUME NEW k \in Node
                 PROVE  /\ DOMAIN blocks'[k] \subseteq Hash \cup {Genesis}
                        /\ tip'[k] \in DOMAIN blocks'[k]
                        /\ miner_tip'[k] \in DOMAIN blocks'[k]
      OBVIOUS
    <3>1. /\ DOMAIN blocks[k] \subseteq Hash \cup {Genesis}
          /\ tip[k] \in DOMAIN blocks[k] /\ miner_tip[k] \in DOMAIN blocks[k]
      BY DEF Inv, TypeOK
    <3>2. k = m => tip'[k] = Genesis /\ miner_tip'[k] = Genesis
      BY <1>4 DEF Inv, TypeOK
    <3>3. k # m => tip'[k] = tip[k] /\ miner_tip'[k] = miner_tip[k]
      BY <1>4 DEF Inv, TypeOK
    <3> QED
      BY <1>5, <3>1, <3>2, <3>3
  <2>2. /\ finished' \in [Node -> Seq(Hash)]
        /\ control_chan' \in [Node -> Seq(Seq(Hash))]
    BY <1>4 DEF Inv, TypeOK
  <2>3. /\ orphan_blocks' \in [Thread -> Seq(Hash)]
        /\ todo' \in [Thread -> Seq(Hash)]
        /\ new_blocks' \in [Thread -> Seq(Hash)]
        /\ n' \in [Thread -> Nat]
        /\ \A t \in Thread : n'[t] <= Len(new_blocks'[t])
    BY <1>1 DEF Inv, TypeOK
  <2>4. peer' \in [Thread -> Links \cup {None}]
    BY <1>1 DEF Inv, TypeOK
  <2>5. \A k \in Node : dialed'[k] \in 0 .. Len(KnownPeers[k])
    <3>1. \A k \in Node : Len(KnownPeers[k]) \in Nat
      BY GossipAssumption
    <3> QED
      BY <1>4, <3>1 DEF Inv, TypeOK
  <2>6. chan' \in [Links -> Seq(Message)]
    <3>1. \A l \in Links : chan[l] \in Seq(Message)
      BY DEF Inv, TypeOK
    <3>2. ASSUME NEW l \in Links, l[1] = m, l \in up PROVE cut[l] \in Seq(Message)
      BY <1>2, <3>1, <3>2, CutsFacts
    <3> QED
      BY <1>2, <3>1, <3>2
  <2>7. restarts' \in 0 .. MaxRestarts
    BY GossipAssumption DEF Inv, TypeOK, Restart
  <2>8. up' \subseteq used' /\ used' \subseteq Links
    BY <1>3 DEF Inv, TypeOK
  <2> QED
    BY <1>3, <1>5, <2>1, <2>2, <2>3, <2>4, <2>5, <2>6, <2>7, <2>8 DEF Inv, TypeOK
<1>7. Paired'
  <2>1. \A k \in up' : Back(k) \in up'
    <3> SUFFICES ASSUME NEW k \in up' PROVE Back(k) \in up'
      OBVIOUS
    <3>1. k \in Links /\ Back(k) \in up /\ Back(k)[1] = k[2] /\ Back(k)[2] = k[1]
      BY <1>3, LinkFacts DEF Inv, TypeOK, Paired
    <3> QED
      BY <1>3, <3>1
  <2>2. ASSUME NEW k \in Links \ used PROVE chan'[k] = <<>>
    <3>1. k \notin up /\ chan[k] = <<>>
      BY DEF Inv, Paired, TypeOK
    <3> QED
      BY <1>2, <3>1
  <2> QED
    BY <1>3, <2>1, <2>2 DEF Inv, Paired
<1>8. Stores'
  <2> SUFFICES ASSUME NEW k \in Node
               PROVE  /\ Genesis \in DOMAIN blocks'[k]
                      /\ Known(k)' \subseteq Eligible(k)'
                      /\ finished'[k] \in Seq(Eligible(k)')
                      /\ control_chan'[k] \in Seq(Seq(Known(k)'))
    BY DEF Stores
  <2>1. CASE k = m
    <3>1. Known(k)' = {}
      BY <1>5, <2>1, BlockAssumption DEF Known
    <3>2. finished'[k] = <<>> /\ control_chan'[k] = <<>>
      BY <1>4, <2>1 DEF Inv, TypeOK
    <3> QED
      BY <1>5, <2>1, <3>1, <3>2
  <2>2. CASE k # m
    <3>1. finished'[k] = finished[k] /\ control_chan'[k] = control_chan[k]
      BY <1>4, <2>2
    <3>2. Known(k)' = Known(k) /\ Eligible(k)' = Eligible(k)
      BY <1>5, <2>2 DEF Known, Eligible
    <3> QED
      BY <1>5, <2>2, <3>1, <3>2 DEF Inv, Stores
  <2> QED
    BY <2>1, <2>2
<1>9. InHand'
  <2> SUFFICES ASSUME NEW t \in Thread
               PROVE  /\ new_blocks'[t] \in Seq(Known(t[1])')
                      /\ peer'[t] # None => peer'[t] \in used' /\ peer'[t][2] = t[1]
                      /\ (peer[t] \in up => todo[t] \in Seq(Known(peer[t][1])))'
    BY DEF InHand
  <2>1. CASE t[1] = m
    <3>1. new_blocks'[t] = <<>> /\ peer'[t] = None /\ todo'[t] = <<>>
      BY <1>1, <2>1
    <3> QED
      BY <3>1
  <2>2. CASE t[1] # m
    <3>1. new_blocks'[t] = new_blocks[t] /\ peer'[t] = peer[t] /\ todo'[t] = todo[t]
      BY <1>1, <2>2
    <3>2. t[1] \in Node /\ Known(t[1])' = Known(t[1])
      BY <1>5, <2>2 DEF Known, Thread
    <3>3. ASSUME peer[t] \in up' PROVE todo[t] \in Seq(Known(peer[t][1]))'
      <4>1. peer[t] \in up /\ peer[t] \in Links /\ peer[t][1] # m /\ peer[t][1] \in Node
        BY <1>3, <3>3, LinkFacts DEF Inv, TypeOK
      <4>2. Known(peer[t][1])' = Known(peer[t][1])
        BY <1>5, <3>1, <4>1 DEF Known
      <4>3. todo[t] \in Seq(Known(peer[t][1]))
        BY <4>1 DEF Inv, InHand
      <4> QED
        BY <3>1, <4>2, <4>3
    <3> QED
      BY <1>3, <3>1, <3>2, <3>3 DEF Inv, InHand
  <2> QED
    BY <2>1, <2>2
<1>10. Carried'
  <2> SUFFICES ASSUME NEW l \in up' PROVE chan'[l] \in Seq(Backed(l)')
    BY DEF Carried
  <2>1. l \in up /\ l \in Links /\ l[1] # m /\ l[2] # m /\ l[1] \in Node /\ l[2] \in Node
    BY <1>3, LinkFacts DEF Inv, TypeOK
  <2>2. chan'[l] = chan[l]
    BY <1>2, <2>1
  <2>3. Backed(l)' = Backed(l)
    BY <1>5, <2>1 DEF Backed, Known
  <2> QED
    BY <2>1, <2>2, <2>3 DEF Inv, Carried
<1> QED
  BY <1>6, <1>7, <1>8, <1>9, <1>10 DEF Inv
-----------------------------------------------------------------------------
(* The message handlers.                                                   *)
LEMMA Received ==
  ASSUME Inv, NEW l \in Links, chan[l] # <<>>
  PROVE  /\ Head(chan[l]) \in Message /\ Heard(l) \in Seq(Hash)
         /\ Tail(chan[l]) \in Seq(Message)
         /\ l \in used
         /\ l \in up => /\ Head(chan[l]) \in Backed(l)
                        /\ Tail(chan[l]) \in Seq(Backed(l))
<1>1. chan[l] \in Seq(Message)
  BY DEF Inv, TypeOK
<1>2. Head(chan[l]) \in Message /\ Tail(chan[l]) \in Seq(Message)
  BY <1>1
<1>3. Heard(l) \in Seq(Hash)
  BY <1>2 DEF Heard, Message
<1>4. l \in used
  BY DEF Inv, Paired
<1>5. ASSUME l \in up PROVE Head(chan[l]) \in Backed(l) /\ Tail(chan[l]) \in Seq(Backed(l))
  BY <1>5 DEF Inv, Carried
<1> QED
  BY <1>2, <1>3, <1>4, <1>5

LEMMA WrittenType ==
  ASSUME NEW l, NEW messages, l \in up => messages \in Seq(Backed(l))
  PROVE  Written(l, messages) \in Seq(Message)
<1>1. Seq(Known(l[1])) \subseteq Seq(Hash) /\ Seq(Known(l[2])) \subseteq Seq(Hash)
  <2>1. Known(l[1]) \subseteq Hash /\ Known(l[2]) \subseteq Hash
    BY DEF Known
  <2> QED
    BY <2>1, SeqMonotone
<1>2. Backed(l) \subseteq Message
  BY <1>1 DEF Backed, Message
<1>3. Seq(Backed(l)) \subseteq Seq(Message)
  BY <1>2, SeqMonotone
<1> QED
  BY <1>3 DEF Written

LEMMA AnsweredFrame ==
  ASSUME Inv, UNCHANGED <<blocks, up, used>>, NEW l \in Links, chan[l] # <<>>,
         NEW messages, Answered(l, messages),
         Back(l) \in up => messages \in Seq(Backed(Back(l)))
  PROVE  /\ chan' \in [Links -> Seq(Message)]
         /\ Paired'
         /\ Carried'
<1> DEFINE back == Back(l)
           answer == Written(back, messages)
<1>1. back \in Links /\ back # l /\ back \in used
  BY LinkFacts, Received DEF Inv, Paired
<1>2. chan' = [chan EXCEPT ![l] = Tail(@), ![back] = @ \o answer]
  BY DEF Answered
<1>3. back \in up => answer \in Seq(Backed(back))
  BY DEF Written
<1>4. answer \in Seq(Message)
  BY WrittenType
<1> HIDE DEF answer, back
<1>5. chan \in [Links -> Seq(Message)]
  BY DEF Inv, TypeOK
<1>6. /\ chan' \in [Links -> Seq(Message)]
      /\ chan'[l] = Tail(chan[l]) /\ chan'[back] = chan[back] \o answer
      /\ \A k \in Links \ {l, back} : chan'[k] = chan[k]
  <2>1. Tail(chan[l]) \in Seq(Message)
    BY Received
  <2>2. chan[back] \o answer \in Seq(Message)
    BY <1>1, <1>4, <1>5
  <2> QED
    BY <1>1, <1>2, <1>5, <2>1, <2>2
<1>7. Paired'
  BY <1>1, <1>6, Received DEF Inv, Paired
<1>8. Carried'
  <2>1. ASSUME NEW k \in up PROVE chan'[k] \in Seq(Backed(k))
    <3>1. k \in Links /\ chan[k] \in Seq(Backed(k))
      BY DEF Inv, TypeOK, Carried
    <3>2. CASE k = l
      <4>1. Tail(chan[k]) \in Seq(Backed(k))
        BY <3>1, <3>2, HeadTailProperties
      <4> QED
        BY <1>6, <3>2, <4>1
    <3>3. CASE k = back
      <4>1. chan[k] \in Seq(Backed(k)) /\ answer \in Seq(Backed(k))
        BY <1>3, <3>1, <3>3
      <4>2. chan[k] \o answer \in Seq(Backed(k))
        BY <4>1
      <4> QED
        BY <1>6, <3>3, <4>2
    <3> QED
      BY <1>6, <3>1, <3>2, <3>3
  <2> QED
    BY <2>1 DEF Carried, Backed, Known
<1> QED
  BY <1>6, <1>7, <1>8

LEMMA HandleNewBlockHashesStep ==
  ASSUME NEW m \in Node, NEW w \in Worker, NEW l \in Links
  PROVE  Inv /\ HandleNewBlockHashes(m, w, l) => Inv'
<1> SUFFICES ASSUME Inv, HandleNewBlockHashes(m, w, l) PROVE Inv'
  OBVIOUS
<1> DEFINE wanted == Unknown(m, Heard(l))
           answer == IF wanted = <<>> THEN <<>> ELSE <<GetBlocks(wanted)>>
<1> USE DEF nodeVars, minerVars, workerVars, linkVars, faultVars
<1>1. chan[l] # <<>> /\ Head(chan[l]).type = "NewBlockHashes" /\ Answered(l, answer)
  BY DEF HandleNewBlockHashes, Receives
<1>2. UNCHANGED <<nodeVars, minerVars, workerVars, control_chan, linkVars, mined>>
  BY DEF HandleNewBlockHashes
<1>3. ASSUME Back(l) \in up PROVE answer \in Seq(Backed(Back(l)))
  <2>1. l \in up /\ Back(l)[2] = l[1]
    BY <1>3, LinkFacts DEF Inv, Paired
  <2>2. Heard(l) \in Seq(Known(l[1]))
    BY <1>1, <2>1, Received, BackedMessages DEF Heard, Known
  <2>3. wanted \in Seq(Known(l[1]))
    BY <2>2, UnknownSeq
  <2>4. GetBlocks(wanted) \in Backed(Back(l))
    BY <2>1, <2>3, BackedMessages DEF Known
  <2> HIDE DEF wanted
  <2> QED
    BY <2>4
<1> HIDE DEF answer
<1>4. chan' \in [Links -> Seq(Message)] /\ Paired' /\ Carried'
  BY <1>1, <1>2, <1>3, AnsweredFrame
<1>5. TypeOK'
  BY <1>2, <1>4 DEF Inv, TypeOK
<1>6. Stores'
  BY <1>2 DEF Inv, Stores, Known, Eligible
<1>7. InHand'
  BY <1>2, <1>5, GrownFrame, InHandFrame DEF TypeOK
<1> QED
  BY <1>4, <1>5, <1>6, <1>7 DEF Inv

LEMMA HandleGetBlocksStep ==
  ASSUME NEW m \in Node, NEW w \in Worker, NEW l \in Links
  PROVE  Inv /\ HandleGetBlocks(m, w, l) => Inv'
<1> SUFFICES ASSUME Inv, HandleGetBlocks(m, w, l) PROVE Inv'
  OBVIOUS
<1> DEFINE answer == IF ToSet(Heard(l)) \subseteq DOMAIN blocks[m]
                     THEN <<Blocks(Heard(l))>> ELSE <<>>
<1> USE DEF nodeVars, minerVars, workerVars, linkVars, faultVars
<1>1. chan[l] # <<>> /\ Head(chan[l]).type = "GetBlocks" /\ Answered(l, answer)
  BY DEF HandleGetBlocks, Receives
<1>2. UNCHANGED <<nodeVars, minerVars, workerVars, control_chan, linkVars, mined>>
  BY DEF HandleGetBlocks
<1>3. ASSUME Back(l) \in up PROVE answer \in Seq(Backed(Back(l)))
  <2>1. l \in up /\ Back(l)[1] = l[2]
    BY <1>3, LinkFacts DEF Inv, Paired
  <2>2. Heard(l) \in Seq(Known(l[2]))
    BY <1>1, <2>1, Received, BackedMessages DEF Heard, Known
  <2>3. Blocks(Heard(l)) \in Backed(Back(l))
    BY <2>1, <2>2, BackedMessages DEF Known
  <2> QED
    BY <2>3
<1> HIDE DEF answer
<1>4. chan' \in [Links -> Seq(Message)] /\ Paired' /\ Carried'
  BY <1>1, <1>2, <1>3, AnsweredFrame
<1>5. TypeOK'
  BY <1>2, <1>4 DEF Inv, TypeOK
<1>6. Stores'
  BY <1>2 DEF Inv, Stores, Known, Eligible
<1>7. InHand'
  BY <1>2, <1>5, GrownFrame, InHandFrame DEF TypeOK
<1> QED
  BY <1>4, <1>5, <1>6, <1>7 DEF Inv

LEMMA HandleBlocksStep ==
  ASSUME NEW m \in Node, NEW w \in Worker, NEW l \in Links
  PROVE  Inv /\ HandleBlocks(m, w, l) => Inv'
<1> SUFFICES ASSUME Inv, HandleBlocks(m, w, l) PROVE Inv'
  OBVIOUS
<1> USE DEF nodeVars, minerVars, linkVars, faultVars
<1>1. /\ chan[l] # <<>> /\ Head(chan[l]).type = "Blocks" /\ l[2] = m
      /\ Answered(l, <<>>)
      /\ todo' = [todo EXCEPT ![<<m, w>>] = Heard(l)]
      /\ peer' = [peer EXCEPT ![<<m, w>>] = l]
  BY DEF HandleBlocks, Receives
<1>2. UNCHANGED <<nodeVars, minerVars, orphan_blocks, new_blocks, n, control_chan,
                  linkVars, mined>>
  BY DEF HandleBlocks
<1>3. chan' \in [Links -> Seq(Message)] /\ Paired' /\ Carried'
  <2>1. <<>> \in Seq(Backed(Back(l)))
    OBVIOUS
  <2> QED
    BY <1>1, <1>2, <2>1, AnsweredFrame
<1>4. Heard(l) \in Seq(Hash) /\ l \in used
  BY <1>1, Received
<1>5. TypeOK'
  <2>1. todo' \in [Thread -> Seq(Hash)] /\ peer' \in [Thread -> Links \cup {None}]
    BY <1>1, <1>4 DEF Inv, TypeOK
  <2> QED
    BY <1>2, <1>3, <2>1 DEF Inv, TypeOK
<1>6. Stores'
  BY <1>2 DEF Inv, Stores, Known, Eligible
<1>7. InHand'
  <2> SUFFICES ASSUME NEW t \in Thread
               PROVE  /\ new_blocks'[t] \in Seq(Known(t[1])')
                      /\ peer'[t] # None => peer'[t] \in used' /\ peer'[t][2] = t[1]
                      /\ (peer[t] \in up => todo[t] \in Seq(Known(peer[t][1])))'
    BY DEF InHand
  <2>1. Known(t[1])' = Known(t[1]) /\ new_blocks'[t] = new_blocks[t]
    BY <1>2 DEF Known
  <2>2. CASE t = <<m, w>>
    <3>1. peer'[t] = l /\ todo'[t] = Heard(l) /\ t[1] = m
      BY <1>1, <2>2 DEF Inv, TypeOK
    <3>2. l \in up => Heard(l) \in Seq(Known(l[1]))
      BY <1>1, Received, BackedMessages DEF Heard, Known
    <3>3. Known(peer[t][1])' = Known(l[1])
      BY <1>2, <3>1 DEF Known
    <3> QED
      BY <1>1, <1>2, <1>4, <2>1, <3>1, <3>2, <3>3 DEF Inv, InHand
  <2>3. CASE t # <<m, w>>
    <3>1. peer'[t] = peer[t] /\ todo'[t] = todo[t]
      BY <1>1, <2>3
    <3>2. Known(peer[t][1])' = Known(peer[t][1])
      BY <1>2, <3>1 DEF Known
    <3> QED
      BY <1>2, <2>1, <3>1, <3>2 DEF Inv, InHand
  <2> QED
    BY <2>2, <2>3
<1> QED
  BY <1>3, <1>5, <1>6, <1>7 DEF Inv
-----------------------------------------------------------------------------
(* The loop over the blocks of a message.                                  *)
LEMMA InHandOther ==
  ASSUME Inv, Grown, NEW u \in Thread, UNCHANGED <<peer, used, up>>,
         \A t \in Thread \ {u} : new_blocks'[t] = new_blocks[t] /\ todo'[t] = todo[t],
         new_blocks'[u] \in Seq(Known(u[1])'),
         todo'[u] = todo[u] \/ (todo[u] # <<>> /\ todo'[u] = Tail(todo[u]))
  PROVE  InHand'
<1> SUFFICES ASSUME NEW t \in Thread
             PROVE  /\ new_blocks'[t] \in Seq(Known(t[1])')
                    /\ peer'[t] # None => peer'[t] \in used' /\ peer'[t][2] = t[1]
                    /\ (peer[t] \in up => todo[t] \in Seq(Known(peer[t][1])))'
  BY DEF InHand
<1>1. new_blocks'[t] \in Seq(Known(t[1])')
  <2>1. Seq(Known(t[1])) \subseteq Seq(Known(t[1])')
    BY SeqMonotone DEF Grown, Thread
  <2> QED
    BY <2>1 DEF Inv, InHand
<1>2. peer'[t] # None => peer'[t] \in used' /\ peer'[t][2] = t[1]
  BY DEF Inv, InHand
<1>3. ASSUME peer[t] \in up PROVE todo'[t] \in Seq(Known(peer[t][1])')
  <2>1. peer[t][1] \in Node
    BY <1>3, LinkFacts DEF Inv, TypeOK
  <2>2. Seq(Known(peer[t][1])) \subseteq Seq(Known(peer[t][1])')
    BY <2>1, SeqMonotone DEF Grown
  <2>3. todo[t] \in Seq(Known(peer[t][1])')
    BY <1>3, <2>2 DEF Inv, InHand
  <2>4. todo[t] # <<>> => Tail(todo[t]) \in Seq(Known(peer[t][1])')
    BY <2>3, HeadTailProperties
  <2> QED
    BY <2>3, <2>4
<1> QED
  BY <1>1, <1>2, <1>3

LEMMA SkipKnownStep ==
  ASSUME NEW m \in Node, NEW w \in Worker PROVE Inv /\ SkipKnown(m, w) => Inv'
<1> SUFFICES ASSUME Inv, SkipKnown(m, w) PROVE Inv'
  OBVIOUS
<1> DEFINE t == <<m, w>>
<1> USE DEF nodeVars, minerVars, linkVars, faultVars
<1>1. /\ t \in Thread /\ todo[t] # <<>> /\ todo' = [todo EXCEPT ![t] = Tail(@)]
      /\ UNCHANGED <<nodeVars, minerVars, orphan_blocks, peer, new_blocks, n,
                     control_chan, chan, linkVars, mined>>
  BY DEF SkipKnown, AtBlock, Thread
<1> HIDE DEF t
<1>2. Grown
  BY <1>1, GrownFrame
<1>3. TypeOK'
  <2>1. todo' \in [Thread -> Seq(Hash)]
    BY <1>1 DEF Inv, TypeOK
  <2> QED
    BY <1>1, <2>1 DEF Inv, TypeOK
<1>4. Paired' /\ Stores'
  BY <1>1 DEF Inv, Paired, Stores, Known, Eligible
<1>5. InHand'
  <2>1. todo'[t] = Tail(todo[t]) /\ \A u \in Thread \ {t} : todo'[u] = todo[u]
    BY <1>1 DEF Inv, TypeOK
  <2>2. new_blocks'[t] \in Seq(Known(t[1])')
    BY <1>1 DEF Inv, InHand, Known
  <2> QED
    BY <1>1, <1>2, <2>1, <2>2, InHandOther
<1>6. Carried'
  BY <1>1, <1>2, CarriedFrame
<1> QED
  BY <1>3, <1>4, <1>5, <1>6 DEF Inv

(* A block is inserted and pushed to new_blocks, off the message or out of *)
(* the buffer.                                                             *)
LEMMA PushedStep ==
  ASSUME Inv, NEW m \in Node, NEW w \in Worker, NEW b \in Eligible(m), Insert(m, b),
         new_blocks' = [new_blocks EXCEPT ![<<m, w>>] = Append(@, b)],
         UNCHANGED <<minerVars, peer, n, control_chan, chan, linkVars, mined>>,
         orphan_blocks' \in [Thread -> Seq(Hash)], todo' \in [Thread -> Seq(Hash)],
         \/ UNCHANGED todo
         \/ todo[<<m, w>>] # <<>> /\ todo' = [todo EXCEPT ![<<m, w>>] = Tail(@)]
  PROVE  Inv'
<1> DEFINE t == <<m, w>>
<1> USE DEF minerVars, linkVars, faultVars
<1>1. t \in Thread /\ t[1] = m
  BY DEF Thread
<1>2. Inserted(m, b)
  BY InsertFacts
<1> HIDE DEF t
<1>3. /\ new_blocks \in [Thread -> Seq(Hash)] /\ todo \in [Thread -> Seq(Hash)]
      /\ n \in [Thread -> Nat] /\ \A u \in Thread : n[u] <= Len(new_blocks[u])
      /\ b \in Hash
  BY DEF Inv, TypeOK, Eligible
<1>4. /\ new_blocks'[t] = Append(new_blocks[t], b)
      /\ Append(new_blocks[t], b) \in Seq(Hash)
      /\ DOMAIN new_blocks' = Thread
      /\ \A u \in Thread \ {t} : new_blocks'[u] = new_blocks[u] /\ todo'[u] = todo[u]
      /\ new_blocks' = [u \in Thread |-> IF u = t THEN Append(new_blocks[u], b)
                                         ELSE new_blocks[u]]
  <2>1. new_blocks' = [new_blocks EXCEPT ![t] = Append(@, b)]
    BY DEF t
  <2>2. UNCHANGED todo \/ todo' = [todo EXCEPT ![t] = Tail(@)]
    BY DEF t
  <2>3. new_blocks[t] \in Seq(Hash) /\ Append(new_blocks[t], b) \in Seq(Hash)
    BY <1>1, <1>3
  <2>4. \A u \in Thread \ {t} : todo'[u] = todo[u]
    BY <1>3, <2>2
  <2> QED
    BY <1>1, <1>3, <2>1, <2>3, <2>4
<1>5. TypeOK'
  <2>1. new_blocks' \in [Thread -> Seq(Hash)]
    BY <1>3, <1>4
  <2>2. \A u \in Thread : n'[u] <= Len(new_blocks'[u])
    <3>1. new_blocks[t] \in Seq(Hash) /\ n[t] \in Nat /\ n[t] <= Len(new_blocks[t])
      BY <1>1, <1>3
    <3>2. Len(Append(new_blocks[t], b)) = Len(new_blocks[t]) + 1 /\ Len(new_blocks[t]) \in Nat
      BY <3>1
    <3>3. n[t] <= Len(new_blocks'[t])
      BY <1>4, <3>1, <3>2
    <3> QED
      BY <1>3, <1>4, <3>3
  <2> QED
    BY <1>2, <2>1, <2>2 DEF Inv, TypeOK, Inserted
<1>6. Paired'
  BY DEF Inv, Paired
<1>7. Stores'
  <2>1. ASSUME NEW k \in Node
        PROVE  finished[k] \in Seq(Eligible(k)') /\ control_chan[k] \in Seq(Seq(Known(k)'))
    <3>1. /\ Seq(Eligible(k)) \subseteq Seq(Eligible(k)')
          /\ Seq(Known(k)) \subseteq Seq(Known(k)')
      BY <1>2, SeqMonotone DEF Grown, Inserted
    <3>2. Seq(Seq(Known(k))) \subseteq Seq(Seq(Known(k)'))
      BY <3>1, SeqMonotone
    <3> QED
      BY <3>1, <3>2 DEF Inv, Stores
  <2> QED
    BY <1>2, <2>1 DEF Stores, Inserted
<1>8. InHand'
  <2>1. new_blocks'[t] \in Seq(Known(m)')
    <3>1. Seq(Known(m)) \subseteq Seq(Known(m)')
      BY <1>2, SeqMonotone DEF Grown, Inserted
    <3>2. new_blocks[t] \in Seq(Known(m)')
      BY <1>1, <3>1 DEF Inv, InHand
    <3>3. Append(new_blocks[t], b) \in Seq(Known(m)')
      BY <1>2, <3>2 DEF Inserted
    <3> QED
      BY <1>4, <3>3
  <2>3. todo'[t] = todo[t] \/ (todo[t] # <<>> /\ todo'[t] = Tail(todo[t]))
    <3>1. UNCHANGED todo \/ (todo[t] # <<>> /\ todo' = [todo EXCEPT ![t] = Tail(@)])
      BY DEF t
    <3> QED
      BY <1>1, <1>3, <3>1
  <2>4. Known(t[1])' = Known(m)'
    BY <1>1
  <2> QED
    BY <1>1, <1>2, <1>4, <2>1, <2>3, <2>4, InHandOther DEF Inserted
<1>9. Carried'
  BY <1>2, CarriedFrame DEF Inserted
<1> QED
  BY <1>5, <1>6, <1>7, <1>8, <1>9 DEF Inv

LEMMA StoreBlockStep ==
  ASSUME NEW m \in Node, NEW w \in Worker PROVE Inv /\ StoreBlock(m, w) => Inv'
<1> SUFFICES ASSUME Inv, StoreBlock(m, w) PROVE Inv'
  OBVIOUS
<1>1. /\ <<m, w>> \in Thread /\ todo[<<m, w>>] # <<>>
      /\ todo' = [todo EXCEPT ![<<m, w>>] = Tail(@)]
      /\ UNCHANGED <<minerVars, orphan_blocks, peer, n, control_chan, chan, linkVars, mined>>
      /\ new_blocks' = [new_blocks EXCEPT ![<<m, w>>] = Append(@, Head(todo[<<m, w>>]))]
      /\ Insert(m, Head(todo[<<m, w>>]))
  BY DEF StoreBlock, AtBlock, Thread
<1>2. Head(todo[<<m, w>>]) \in Eligible(m)
  BY <1>1 DEF StoreBlock, Eligible, Inv, TypeOK
<1>3. todo' \in [Thread -> Seq(Hash)] /\ orphan_blocks' \in [Thread -> Seq(Hash)]
  BY <1>1 DEF Inv, TypeOK
<1> QED
  BY <1>1, <1>2, <1>3, PushedStep

LEMMA RemoveAtSeq ==
  ASSUME NEW S, NEW s \in Seq(S), NEW k \in 1 .. Len(s) PROVE RemoveAt(s, k) \in Seq(S)
<1>1. SubSeq(s, 1, k - 1) \in Seq(S) /\ SubSeq(s, k + 1, Len(s)) \in Seq(S)
  OBVIOUS
<1> QED
  BY <1>1 DEF RemoveAt

LEMMA ReleaseOrphanStep ==
  ASSUME NEW m \in Node, NEW w \in Worker PROVE Inv /\ ReleaseOrphan(m, w) => Inv'
<1> SUFFICES ASSUME Inv, ReleaseOrphan(m, w) PROVE Inv'
  OBVIOUS
<1> DEFINE t == <<m, w>>
<1>1. PICK i \in Releasable(t) :
        /\ Insert(m, orphan_blocks[t][i])
        /\ new_blocks' = [new_blocks EXCEPT ![t] = Append(@, orphan_blocks[t][i])]
        /\ orphan_blocks' = [orphan_blocks EXCEPT ![t] = RemoveAt(@, i)]
  BY DEF ReleaseOrphan
<1>2. /\ t \in Thread /\ t[1] = m /\ n[t] < Len(new_blocks[t])
      /\ UNCHANGED <<minerVars, todo, peer, n, control_chan, chan, linkVars, mined>>
  BY DEF ReleaseOrphan, Thread
<1> HIDE DEF t
<1>3. /\ orphan_blocks[t] \in Seq(Hash)
      /\ i \in 1 .. Len(orphan_blocks[t])
      /\ Parent(orphan_blocks[t][i]) = new_blocks[t][n[t] + 1]
  BY <1>2 DEF Releasable, Inv, TypeOK
<1>4. orphan_blocks[t][i] \in Eligible(m)
  <2>1. new_blocks[t] \in Seq(Known(m)) /\ n[t] \in Nat
    BY <1>2 DEF Inv, InHand, TypeOK
  <2>2. new_blocks[t][n[t] + 1] \in Known(m)
    BY <1>2, <2>1
  <2> QED
    BY <1>3, <2>2 DEF Eligible, Known
<1>5. todo' \in [Thread -> Seq(Hash)] /\ orphan_blocks' \in [Thread -> Seq(Hash)]
  BY <1>1, <1>2, <1>3, RemoveAtSeq DEF Inv, TypeOK
<1> QED
  BY <1>1, <1>2, <1>4, <1>5, PushedStep DEF t

LEMMA NextNewBlockStep ==
  ASSUME NEW m \in Node, NEW w \in Worker PROVE Inv /\ NextNewBlock(m, w) => Inv'
<1> SUFFICES ASSUME Inv, NextNewBlock(m, w) PROVE Inv'
  OBVIOUS
<1> DEFINE t == <<m, w>>
<1> USE DEF nodeVars, minerVars, linkVars, faultVars
<1>1. /\ t \in Thread /\ n[t] < Len(new_blocks[t])
      /\ n' = [n EXCEPT ![t] = @ + 1]
      /\ UNCHANGED <<nodeVars, minerVars, orphan_blocks, todo, peer, new_blocks,
                     control_chan, chan, linkVars, mined>>
  BY DEF NextNewBlock, Thread
<1> HIDE DEF t
<1>2. TypeOK'
  <2>1. /\ n \in [Thread -> Nat] /\ new_blocks \in [Thread -> Seq(Hash)]
        /\ \A u \in Thread : n[u] <= Len(new_blocks[u])
    BY DEF Inv, TypeOK
  <2>2. n' \in [Thread -> Nat]
    <3>1. n[t] + 1 \in Nat
      BY <1>1, <2>1
    <3> QED
      BY <1>1, <2>1, <3>1
  <2>3. ASSUME NEW u \in Thread PROVE n'[u] <= Len(new_blocks'[u])
    <3>1. n[u] \in Nat /\ Len(new_blocks[u]) \in Nat
      BY <2>1
    <3> QED
      BY <1>1, <2>1, <3>1
  <2> QED
    BY <1>1, <2>2, <2>3 DEF Inv, TypeOK
<1>3. Paired' /\ Stores'
  BY <1>1 DEF Inv, Paired, Stores, Known, Eligible
<1>4. InHand' /\ Carried'
  BY <1>1, <1>2, GrownFrame, InHandFrame, CarriedFrame DEF TypeOK
<1> QED
  BY <1>2, <1>3, <1>4 DEF Inv

LEMMA KeepOrphanStep ==
  ASSUME NEW m \in Node, NEW w \in Worker PROVE Inv /\ KeepOrphan(m, w) => Inv'
<1> SUFFICES ASSUME Inv, KeepOrphan(m, w) PROVE Inv'
  OBVIOUS
<1> DEFINE t    == <<m, w>>
           next == Head(todo[t])
           back == Back(peer[t])
           request == <<GetBlocks(<<Parent(next)>>)>>
<1> USE DEF nodeVars, minerVars, linkVars, faultVars
<1>1. /\ t \in Thread /\ peer[t] # None /\ todo[t] # <<>>
      /\ Parent(next) \notin DOMAIN blocks[m]
      /\ orphan_blocks' = [orphan_blocks EXCEPT ![t] = Append(@, next)]
      /\ chan' = [chan EXCEPT ![back] = @ \o Written(back, request)]
      /\ todo' = [todo EXCEPT ![t] = Tail(@)]
      /\ UNCHANGED <<nodeVars, minerVars, peer, new_blocks, n, control_chan, linkVars, mined>>
  BY DEF KeepOrphan, AtBlock, Idle, Thread
<1>2. /\ todo[t] \in Seq(Hash) /\ next \in Hash
      /\ peer[t] \in Links /\ peer[t] \in used
  <2> HIDE DEF t
  <2> QED
    BY <1>1 DEF Inv, TypeOK, InHand
<1>3. /\ back \in Links /\ back \in used
      /\ Back(back) = peer[t] /\ back[2] = peer[t][1] /\ back[2] \in Node
  BY <1>2, LinkFacts DEF Inv, Paired
<1>4. ASSUME back \in up PROVE request \in Seq(Backed(back))
  <2>1. next \in Known(peer[t][1])
    BY <1>1, <1>3, <1>4 DEF Inv, Paired, InHand
  <2>2. /\ Parent(next) \in DOMAIN blocks[peer[t][1]]
        /\ DOMAIN blocks[peer[t][1]] \subseteq Hash \cup {Genesis}
    BY <1>3, <2>1 DEF Inv, TypeOK, Stores, Eligible
  <2>3. Parent(next) # Genesis
    BY <1>1 DEF Inv, Stores
  <2>4. Parent(next) \in Known(back[2])
    BY <1>3, <2>2, <2>3 DEF Known
  <2>5. GetBlocks(<<Parent(next)>>) \in Backed(back)
    <3>1. <<Parent(next)>> \in Seq(Known(back[2]))
      BY <2>4
    <3> HIDE DEF next, back
    <3> QED
      BY <3>1, BackedMessages DEF Known
  <2> QED
    BY <2>5
<1>5. Written(back, request) \in Seq(Message)
  BY <1>4, WrittenType
<1> HIDE DEF t, next, back, request
<1>6. /\ chan \in [Links -> Seq(Message)]
      /\ chan[back] \o Written(back, request) \in Seq(Message)
  BY <1>3, <1>5 DEF Inv, TypeOK
<1>7. TypeOK'
  <2>1. chan' \in [Links -> Seq(Message)]
    BY <1>1, <1>6
  <2>2. todo' \in [Thread -> Seq(Hash)] /\ orphan_blocks' \in [Thread -> Seq(Hash)]
    BY <1>1, <1>2 DEF Inv, TypeOK
  <2> QED
    BY <1>1, <2>1, <2>2 DEF Inv, TypeOK
<1>8. Paired'
  <2>1. \A l \in Links \ used : chan'[l] = chan[l]
    BY <1>1, <1>3, <1>6
  <2> QED
    BY <1>1, <2>1 DEF Inv, Paired
<1>9. Stores'
  BY <1>1 DEF Inv, Stores, Known, Eligible
<1>10. InHand'
  <2>1. todo'[t] = Tail(todo[t]) /\ \A u \in Thread \ {t} : todo'[u] = todo[u]
    BY <1>1 DEF Inv, TypeOK
  <2>2. new_blocks'[t] \in Seq(Known(t[1])')
    BY <1>1 DEF Inv, InHand, Known
  <2>3. Grown
    BY <1>1, GrownFrame
  <2> QED
    BY <1>1, <2>1, <2>2, <2>3, InHandOther
<1>11. Carried'
  <2>1. ASSUME NEW l \in up PROVE chan'[l] \in Seq(Backed(l))
    <3>1. l \in Links /\ chan[l] \in Seq(Backed(l))
      BY DEF Inv, TypeOK, Carried
    <3>2. CASE l = back
      <4>1. Written(back, request) \in Seq(Backed(l))
        BY <1>4, <3>2 DEF Written
      <4>2. chan[l] \o Written(back, request) \in Seq(Backed(l))
        BY <3>1, <4>1
      <4> QED
        BY <1>1, <1>3, <1>6, <3>2, <4>2
    <3>3. CASE l # back
      BY <1>1, <1>6, <3>1, <3>3
    <3> QED
      BY <3>2, <3>3
  <2> QED
    BY <1>1, <2>1 DEF Carried, Backed, Known
<1> QED
  BY <1>7, <1>8, <1>9, <1>10, <1>11 DEF Inv

LEMMA FinishStep ==
  ASSUME NEW m \in Node, NEW w \in Worker PROVE Inv /\ Finish(m, w) => Inv'
<1> SUFFICES ASSUME Inv, Finish(m, w) PROVE Inv'
  OBVIOUS
<1> DEFINE t == <<m, w>>
<1> USE DEF nodeVars, minerVars, linkVars, faultVars
<1>1. /\ t \in Thread /\ t[1] = m
      /\ IF new_blocks[t] = <<>> THEN UNCHANGED control_chan
         ELSE control_chan' = [control_chan EXCEPT ![m] = Append(@, new_blocks[t])]
      /\ new_blocks' = [new_blocks EXCEPT ![t] = <<>>]
      /\ n' = [n EXCEPT ![t] = 0]
      /\ peer' = [peer EXCEPT ![t] = None]
      /\ UNCHANGED <<nodeVars, minerVars, orphan_blocks, todo, chan, linkVars, mined>>
  BY DEF Finish, Broadcast, Thread
<1> HIDE DEF t
<1>2. new_blocks[t] \in Seq(Known(m)) /\ new_blocks[t] \in Seq(Hash)
  BY <1>1 DEF Inv, TypeOK, InHand
<1>3. \/ UNCHANGED control_chan
      \/ control_chan' = [control_chan EXCEPT ![m] = Append(@, new_blocks[t])]
  BY <1>1
<1>4. Grown
  BY <1>1, GrownFrame
<1>5. TypeOK'
  <2>1. control_chan' \in [Node -> Seq(Seq(Hash))]
    <3>1. /\ control_chan \in [Node -> Seq(Seq(Hash))]
          /\ Append(control_chan[m], new_blocks[t]) \in Seq(Seq(Hash))
      BY <1>2 DEF Inv, TypeOK
    <3> QED
      BY <1>3, <3>1
  <2>2. /\ new_blocks' \in [Thread -> Seq(Hash)]
        /\ n' \in [Thread -> Nat]
        /\ peer' \in [Thread -> Links \cup {None}]
        /\ \A u \in Thread : n'[u] <= Len(new_blocks'[u])
    BY <1>1 DEF Inv, TypeOK
  <2> QED
    BY <1>1, <2>1, <2>2 DEF Inv, TypeOK
<1>6. Paired'
  BY <1>1 DEF Inv, Paired
<1>7. Stores'
  <2>1. \A k \in Node : control_chan'[k] \in Seq(Seq(Known(k)))
    <3>1. /\ DOMAIN control_chan = Node
          /\ \A k \in Node : control_chan[k] \in Seq(Seq(Known(k)))
      BY DEF Inv, TypeOK, Stores
    <3>2. Append(control_chan[m], new_blocks[t]) \in Seq(Seq(Known(m)))
      BY <1>2, <3>1
    <3> QED
      BY <1>3, <3>1, <3>2
  <2> QED
    BY <1>1, <2>1 DEF Inv, Stores, Known, Eligible
<1>8. InHand'
  <2> SUFFICES ASSUME NEW u \in Thread
               PROVE  /\ new_blocks'[u] \in Seq(Known(u[1])')
                      /\ peer'[u] # None => peer'[u] \in used' /\ peer'[u][2] = u[1]
                      /\ (peer[u] \in up => todo[u] \in Seq(Known(peer[u][1])))'
    BY DEF InHand
  <2>1. Known(u[1])' = Known(u[1])
    BY <1>1 DEF Known
  <2>2. CASE u = t
    <3>1. new_blocks'[u] = <<>> /\ peer'[u] = None
      BY <1>1, <2>2 DEF Inv, TypeOK
    <3>2. None \notin up'
      BY <1>1, NoneAssumption DEF Inv, TypeOK
    <3> QED
      BY <3>1, <3>2
  <2>3. CASE u # t
    <3>1. new_blocks'[u] = new_blocks[u] /\ peer'[u] = peer[u] /\ todo'[u] = todo[u]
      BY <1>1, <2>3
    <3>2. Known(peer[u][1])' = Known(peer[u][1])
      BY <1>1, <3>1 DEF Known
    <3> QED
      BY <1>1, <2>1, <3>1, <3>2 DEF Inv, InHand
  <2> QED
    BY <2>2, <2>3
<1>9. Carried'
  BY <1>1, <1>4, CarriedFrame
<1> QED
  BY <1>5, <1>6, <1>7, <1>8, <1>9 DEF Inv

-----------------------------------------------------------------------------
LEMMA GossipStep == Inv /\ [Next]_vars => Inv'
<1> SUFFICES ASSUME Inv, [Next]_vars PROVE Inv'
  OBVIOUS
<1>1. ASSUME NEW m \in Node, NEW w \in Worker, Deliver(m, w) PROVE Inv'
  BY <1>1, HandleNewBlockHashesStep, HandleGetBlocksStep, HandleBlocksStep, SkipKnownStep,
     StoreBlockStep, KeepOrphanStep, ReleaseOrphanStep, NextNewBlockStep, FinishStep
     DEF Deliver
<1>2. CASE UNCHANGED vars
  <2> USE <1>2 DEF vars, nodeVars, minerVars, workerVars, linkVars, faultVars
  <2>1. TypeOK' /\ Paired' /\ Stores'
    BY DEF Inv, TypeOK, Paired, Stores, Known, Eligible
  <2>2. InHand' /\ Carried'
    BY <2>1, GrownFrame, InHandFrame, CarriedFrame DEF TypeOK
  <2> QED
    BY <2>1, <2>2 DEF Inv
<1> QED
  BY <1>1, <1>2, BreakStep, ConnectStep, RestartStep, ReadTipStep, MineStep,
     StoreFinishedStep, DispatchStep
     DEF Next

(* The strengthening holds whatever messages, breaks and restarts come.     *)
THEOREM GossipInv == Spec => []Inv
BY GossipInit, GossipStep, PTL DEF Spec

(* The nodes' state and what is under way between them keep their shape.   *)
THEOREM GossipTypeCorrect == Spec => []TypeOK
<1>1. Inv => TypeOK
  BY DEF Inv
<1> QED
  BY <1>1, GossipInv, PTL

LEMMA KnownHeld == ASSUME Inv, NEW m \in Node, NEW hs \in Seq(Known(m)) PROVE Holds(m, hs)
<1> SUFFICES ASSUME NEW b \in ToSet(hs)
             PROVE  b \in DOMAIN blocks[m] /\ Parent(b) \in DOMAIN blocks[m]
  BY DEF Holds
<1>1. b \in Known(m)
  BY DEF ToSet
<1> QED
  BY <1>1 DEF Inv, Stores, Known, Eligible

(* Hashes and blocks on a live connection are of blocks their sender has,  *)
(* for any number of nodes, workers, broken connections and restarts.      *)
THEOREM GossipMessagesBacked == Spec => []MessagesBacked
<1>1. Inv => MessagesBacked
  <2> SUFFICES ASSUME Inv PROVE MessagesBacked
    OBVIOUS
  <2>1. ASSUME NEW m \in Node, NEW i \in DOMAIN control_chan[m]
        PROVE  Holds(m, control_chan[m][i])
    <3>1. control_chan[m][i] \in Seq(Known(m))
      BY DEF Inv, Stores
    <3> QED
      BY <3>1, KnownHeld
  <2>2. ASSUME NEW l \in up, NEW i \in DOMAIN chan[l],
               chan[l][i].type \in {"NewBlockHashes", "Blocks"}
        PROVE  Holds(l[1], chan[l][i].hashes)
    <3>1. l \in Links /\ l[1] \in Node /\ chan[l][i] \in Backed(l)
      BY LinkFacts DEF Inv, TypeOK, Carried
    <3>2. chan[l][i].hashes \in Seq(Known(l[1]))
      BY <2>2, <3>1, BackedMessages DEF Known
    <3> QED
      BY <3>1, <3>2, KnownHeld
  <2> QED
    BY <2>1, <2>2 DEF MessagesBacked
<1> QED
  BY <1>1, GossipInv, PTL

(* A live peer is asked only for blocks it has, so it answers: also when   *)
(* several workers ask for the parent of what others have delivered.       *)
THEOREM GossipAnswerable == Spec => []Answerable
<1>1. Inv => Answerable
  <2> SUFFICES ASSUME Inv, NEW l \in up, NEW i \in DOMAIN chan[l],
                      chan[l][i].type = "GetBlocks"
               PROVE  ToSet(chan[l][i].hashes) \subseteq DOMAIN blocks[l[2]]
    BY DEF Answerable
  <2>1. chan[l][i] \in Backed(l)
    BY DEF Inv, TypeOK, Carried
  <2>2. chan[l][i].hashes \in Seq(Known(l[2]))
    BY <2>1, BackedMessages DEF Known
  <2> QED
    BY <2>2 DEF Known, ToSet
<1> QED
  BY <1>1, GossipInv, PTL

-----------------------------------------------------------------------------
(* What is stored while a link is up comes to its other end.  A block is   *)
(* among those a thread has pushed or the server has yet to write, in an   *)
(* announcement, a request or an answer, in the hands of a worker of the   *)
(* other end, stored there, or it waits there for a parent that is on its  *)
(* way itself: `asked' is a set of blocks closed under this.               *)
In(b, s) == \E j \in 1 .. Len(s) : s[j] = b

Names(messages, type, b) ==
  \E i \in 1 .. Len(messages) : messages[i].type = type /\ In(b, messages[i].hashes)

Carries(l, type, b) == Names(chan[l], type, b)

Queued(m, b) == \E i \in 1 .. Len(control_chan[m]) : In(b, control_chan[m][i])
Pushed(m, b) == \E t \in Thread : t[1] = m /\ In(b, new_blocks[t])
Handled(l, b) == \E t \in Thread : peer[t] = l /\ In(b, todo[t])
Waits(m, b)  == \E t \in Thread : t[1] = m /\ In(b, orphan_blocks[t])
Stored(m, b) == b \in DOMAIN blocks[m]

OnItsWay(l, b, asked) ==
  \/ Queued(l[1], b)
  \/ Pushed(l[1], b)
  \/ Carries(l, "NewBlockHashes", b)
  \/ Carries(Back(l), "GetBlocks", b)
  \/ Carries(l, "Blocks", b)
  \/ Handled(l, b)
  \/ Stored(l[2], b)
  \/ Waits(l[2], b) /\ Parent(b) \in asked

Following(l, asked) ==
  /\ asked \subseteq DOMAIN blocks[l[1]]
  /\ \A b \in asked : OnItsWay(l, b, asked)

(* A step keeps them on their way, and what it stores at the link's start. *)
Followed(l, asked, more) ==
  /\ Following(l, asked \cup more)'
  /\ DOMAIN blocks'[l[1]] \subseteq DOMAIN blocks[l[1]] \cup more

LEMMA InEnds ==
  ASSUME NEW S, NEW s \in Seq(S)
  PROVE  /\ \A b, c : In(b, Append(s, c)) <=> In(b, s) \/ b = c
         /\ s # <<>> => \A b : In(b, s) => b = Head(s) \/ In(b, Tail(s))
         /\ s # <<>> => In(Head(s), s) /\ \A b : In(b, Tail(s)) => In(b, s)
         /\ \A b : ~ In(b, <<>>)
         /\ \A b : In(b, s) => b \in S
<1>1. ASSUME NEW b, NEW c PROVE In(b, Append(s, c)) <=> In(b, s) \/ b = c
  <2>1. /\ Len(s) \in Nat /\ Len(Append(s, c)) = Len(s) + 1
        /\ Append(s, c)[Len(s) + 1] = c
        /\ \A j \in 1 .. Len(s) : Append(s, c)[j] = s[j]
    OBVIOUS
  <2> QED
    BY <2>1 DEF In
<1>2. ASSUME s # <<>> PROVE /\ Len(s) \in Nat \ {0} /\ Head(s) = s[1]
                            /\ Len(Tail(s)) = Len(s) - 1
                            /\ \A j \in 1 .. Len(s) - 1 : Tail(s)[j] = s[j + 1]
  BY <1>2
<1>3. ASSUME s # <<>>, NEW b, In(b, s) PROVE b = Head(s) \/ In(b, Tail(s))
  <2>1. PICK j \in 1 .. Len(s) : s[j] = b
    BY <1>3 DEF In
  <2>2. CASE j = 1
    BY <1>2, <1>3, <2>1, <2>2
  <2>3. CASE j # 1
    <3>1. j - 1 \in 1 .. Len(s) - 1 /\ (j - 1) + 1 = j
      BY <1>2, <1>3, <2>3
    <3>2. Tail(s)[j - 1] = b
      BY <1>2, <1>3, <2>1, <3>1
    <3> QED
      BY <1>2, <1>3, <3>1, <3>2 DEF In
  <2> QED
    BY <2>2, <2>3
<1>4. ASSUME s # <<>> PROVE In(Head(s), s) /\ \A b : In(b, Tail(s)) => In(b, s)
  <2>1. In(Head(s), s)
    BY <1>2, <1>4 DEF In
  <2>2. ASSUME NEW b, In(b, Tail(s)) PROVE In(b, s)
    <3>1. PICK j \in 1 .. Len(s) - 1 : Tail(s)[j] = b
      BY <1>2, <1>4, <2>2 DEF In
    <3>2. j + 1 \in 1 .. Len(s) /\ s[j + 1] = b
      BY <1>2, <1>4, <3>1
    <3> QED
      BY <3>2 DEF In
  <2> QED
    BY <2>1, <2>2
<1>5. \A b : ~ In(b, <<>>)
  BY DEF In
<1>6. \A b : In(b, s) => b \in S
  BY DEF In
<1> QED
  BY <1>1, <1>3, <1>4, <1>5, <1>6

LEMMA InOne == ASSUME NEW c PROVE In(c, <<c>>)
<1>1. Len(<<c>>) = 1 /\ <<c>>[1] = c
  OBVIOUS
<1> QED
  BY <1>1 DEF In

LEMMA InRemoved ==
  ASSUME NEW S, NEW s \in Seq(S), NEW k \in 1 .. Len(s), NEW b
  PROVE  /\ In(b, s) => In(b, RemoveAt(s, k)) \/ b = s[k]
         /\ In(b, RemoveAt(s, k)) => In(b, s)
<1>1. PICK size \in Nat : size = Len(s)
  OBVIOUS
<1>2. PICK removed : removed = RemoveAt(s, k)
  OBVIOUS
<1>3. /\ Len(removed) = size - 1
      /\ \A j \in 1 .. size - 1 : removed[j] = IF j < k THEN s[j] ELSE s[j + 1]
  <2>1. /\ Len(SubSeq(s, 1, k - 1)) = k - 1 /\ Len(SubSeq(s, k + 1, size)) = size - k
        /\ SubSeq(s, 1, k - 1) \in Seq(S) /\ SubSeq(s, k + 1, size) \in Seq(S)
    BY <1>1
  <2>2. \A j \in 1 .. k - 1 : SubSeq(s, 1, k - 1)[j] = s[j]
    BY <1>1
  <2>3. \A j \in 1 .. size - k : SubSeq(s, k + 1, size)[j] = s[j + k]
    BY <1>1
  <2>4. PICK left \in Seq(S), right \in Seq(S) :
          /\ left = SubSeq(s, 1, k - 1) /\ right = SubSeq(s, k + 1, size)
          /\ Len(left) = k - 1 /\ Len(right) = size - k
    BY <2>1
  <2>5. removed = left \o right
    BY <1>1, <1>2, <2>4 DEF RemoveAt
  <2>6. /\ Len(left \o right) = Len(left) + Len(right)
        /\ \A j \in 1 .. Len(left) : (left \o right)[j] = left[j]
        /\ \A j \in 1 .. Len(right) : (left \o right)[Len(left) + j] = right[j]
    OBVIOUS
  <2>7. Len(removed) = size - 1
    <3>1. (k - 1) + (size - k) = size - 1
      BY <1>1
    <3>2. Len(removed) = (k - 1) + (size - k)
      BY <2>4, <2>5, <2>6, Zenon
    <3> QED
      BY <3>1, <3>2
  <2>8. ASSUME NEW j \in 1 .. size - 1
        PROVE  removed[j] = IF j < k THEN s[j] ELSE s[j + 1]
    <3>1. CASE j < k
      <4>1. j \in 1 .. k - 1
        BY <3>1
      <4> QED
        BY <2>2, <2>4, <2>5, <2>6, <3>1, <4>1
    <3>2. CASE j >= k
      <4>1. PICK i \in 1 .. size - k : i = j - (k - 1)
        BY <1>1, <3>2
      <4>2. i + k = j + 1 /\ (k - 1) + i = j
        BY <1>1, <4>1
      <4>3. removed[(k - 1) + i] = right[i]
        BY <2>4, <2>5, <2>6
      <4>4. right[i] = s[i + k]
        BY <2>3, <2>4
      <4> QED
        BY <3>2, <4>2, <4>3, <4>4
    <3> QED
      BY <1>1, <3>1, <3>2
  <2> QED
    BY <2>7, <2>8
<1>4. ASSUME In(b, s), b # s[k] PROVE In(b, removed)
  <2>1. PICK j \in 1 .. size : s[j] = b
    BY <1>1, <1>4 DEF In
  <2>2. CASE j < k
    <3>1. j \in 1 .. size - 1 /\ removed[j] = b
      BY <1>1, <1>3, <2>1, <2>2
    <3> QED
      BY <1>3, <3>1 DEF In
  <2>3. CASE j > k
    <3>1. j - 1 \in 1 .. size - 1 /\ ~ (j - 1 < k) /\ (j - 1) + 1 = j
      BY <1>1, <2>3
    <3>2. removed[j - 1] = b
      BY <1>3, <2>1, <3>1
    <3> QED
      BY <1>3, <3>1, <3>2 DEF In
  <2> QED
    BY <1>1, <1>4, <2>1, <2>2, <2>3
<1>5. ASSUME In(b, removed) PROVE In(b, s)
  <2>1. PICK j \in 1 .. size - 1 : removed[j] = b
    BY <1>3, <1>5 DEF In
  <2>2. PICK i \in 1 .. size : s[i] = b
    <3>1. j \in 1 .. size /\ j + 1 \in 1 .. size /\ (b = s[j] \/ b = s[j + 1])
      BY <1>3, <2>1
    <3> QED
      BY <3>1
  <2> QED
    BY <1>1, <2>2 DEF In
<1> QED
  BY <1>2, <1>4, <1>5

LEMMA NamesEnds ==
  ASSUME NEW s \in Seq(Message), NEW more \in Seq(Message), NEW type, NEW b
  PROVE  /\ Names(s, type, b) => Names(s \o more, type, b)
         /\ Names(more, type, b) => Names(s \o more, type, b)
         /\ s # <<>> /\ Names(s, type, b) =>
              \/ Names(Tail(s), type, b)
              \/ Head(s).type = type /\ In(b, Head(s).hashes)
<1>1. /\ Len(s) \in Nat /\ Len(more) \in Nat /\ Len(s \o more) = Len(s) + Len(more)
      /\ \A i \in 1 .. Len(s) : (s \o more)[i] = s[i]
      /\ \A i \in 1 .. Len(more) : (s \o more)[Len(s) + i] = more[i]
  OBVIOUS
<1>2. ASSUME Names(s, type, b) PROVE Names(s \o more, type, b)
  <2>1. PICK i \in 1 .. Len(s) : s[i].type = type /\ In(b, s[i].hashes)
    BY <1>2 DEF Names
  <2>2. i \in 1 .. Len(s \o more) /\ (s \o more)[i] = s[i]
    BY <1>1
  <2> QED
    BY <2>1, <2>2 DEF Names
<1>3. ASSUME Names(more, type, b) PROVE Names(s \o more, type, b)
  <2>1. PICK i \in 1 .. Len(more) : more[i].type = type /\ In(b, more[i].hashes)
    BY <1>3 DEF Names
  <2>2. PICK j \in 1 .. Len(s \o more) : (s \o more)[j] = more[i]
    <3>1. Len(s) + i \in 1 .. Len(s \o more)
      BY <1>1
    <3> QED
      BY <1>1, <3>1
  <2> QED
    BY <2>1, <2>2 DEF Names
<1>4. ASSUME s # <<>>, Names(s, type, b)
      PROVE  Names(Tail(s), type, b) \/ (Head(s).type = type /\ In(b, Head(s).hashes))
  <2>1. PICK i \in 1 .. Len(s) : s[i].type = type /\ In(b, s[i].hashes)
    BY <1>4 DEF Names
  <2>2. /\ Head(s) = s[1] /\ Len(Tail(s)) = Len(s) - 1
        /\ \A j \in 1 .. Len(s) - 1 : Tail(s)[j] = s[j + 1]
    BY <1>4
  <2>3. CASE i = 1
    BY <2>1, <2>2, <2>3
  <2>4. CASE i # 1
    <3>1. PICK j \in 1 .. Len(s) - 1 : i = j + 1
      <4>1. i - 1 \in 1 .. Len(s) - 1 /\ i = (i - 1) + 1
        BY <1>1, <2>4
      <4> QED
        BY <4>1
    <3>2. Tail(s)[j] = s[i]
      BY <2>2, <3>1
    <3> QED
      BY <2>1, <2>2, <3>2 DEF Names
  <2> QED
    BY <2>3, <2>4
<1> QED
  BY <1>2, <1>3, <1>4

LEMMA NamesOne ==
  ASSUME NEW msg, NEW type, NEW b, msg.type = type, In(b, msg.hashes)
  PROVE  Names(<<msg>>, type, b)
<1>1. Len(<<msg>>) = 1 /\ <<msg>>[1] = msg
  OBVIOUS
<1> QED
  BY <1>1 DEF Names

LEMMA AppendOne ==
  ASSUME NEW S, NEW s \in Seq(S), NEW e \in S
  PROVE  <<e>> \in Seq(S) /\ Append(s, e) = s \o <<e>>
OBVIOUS

(* What a link carries after a message was received and answered.          *)
LEMMA AnsweredCarries ==
  ASSUME Inv, NEW k \in Links, chan[k] # <<>>, NEW messages \in Seq(Message),
         Answered(k, messages), NEW l \in up
  PROVE  /\ \A type, b : Carries(l, type, b) =>
              \/ Carries(l, type, b)'
              \/ l = k /\ Head(chan[k]).type = type /\ In(b, Heard(k))
         /\ l = Back(k) => \A type, b : Names(messages, type, b) => Carries(l, type, b)'
<1>1. /\ Back(k) \in Links /\ Back(k) # k /\ l \in Links
      /\ chan \in [Links -> Seq(Message)]
  BY LinkFacts DEF Inv, TypeOK
<1>2. chan' = [chan EXCEPT ![k] = Tail(@), ![Back(k)] = @ \o Written(Back(k), messages)]
  BY DEF Answered
<1>3. CASE l = k
  <2>1. chan'[l] = Tail(chan[l])
    BY <1>1, <1>2, <1>3
  <2>2. chan[l] \in Seq(Message) /\ <<>> \in Seq(Message)
    BY <1>1
  <2> QED
    BY <1>1, <1>3, <2>1, <2>2, NamesEnds DEF Carries, Heard
<1>4. CASE l = Back(k)
  <2>1. chan'[l] = chan[l] \o messages
    BY <1>1, <1>2, <1>4 DEF Written
  <2>2. chan[l] \in Seq(Message)
    BY <1>1
  <2> QED
    BY <2>1, <2>2, NamesEnds DEF Carries
<1>5. CASE l # k /\ l # Back(k)
  BY <1>1, <1>2, <1>5 DEF Carries
<1> QED
  BY <1>3, <1>4, <1>5

LEMMA FollowedBy ==
  ASSUME NEW l, NEW asked, NEW more, Following(l, asked),
         more \subseteq DOMAIN blocks'[l[1]],
         DOMAIN blocks[l[1]] \subseteq DOMAIN blocks'[l[1]],
         DOMAIN blocks'[l[1]] \subseteq DOMAIN blocks[l[1]] \cup more,
         \A b : OnItsWay(l, b, asked) => OnItsWay(l, b, asked \cup more)',
         \A b \in more : OnItsWay(l, b, asked \cup more)'
  PROVE  Followed(l, asked, more)
BY DEF Followed, Following

LEMMA UpFacts ==
  ASSUME Inv, NEW l \in up
  PROVE  /\ l \in Links /\ Back(l) \in Links /\ Back(l) \in up /\ Back(l) # l
         /\ Back(Back(l)) = l /\ Back(l)[1] = l[2] /\ Back(l)[2] = l[1]
         /\ l[1] \in Node /\ l[2] \in Node /\ l[1] # l[2]
BY LinkFacts DEF Inv, TypeOK, Paired

(* Steps that neither end of the link takes part in.                       *)
LEMMA FollowedAway ==
  ASSUME Inv, NEW l \in up, NEW asked, Following(l, asked),
         UNCHANGED <<blocks[l[1]], blocks[l[2]], control_chan[l[1]], chan[l], chan[Back(l)]>>,
         \A t \in Thread : t[1] \in {l[1], l[2]} =>
           UNCHANGED <<new_blocks[t], peer[t], todo[t], orphan_blocks[t]>>
  PROVE  Followed(l, asked, {})
<1>1. ASSUME NEW b, OnItsWay(l, b, asked) PROVE OnItsWay(l, b, asked)'
  <2>1. Queued(l[1], b) => Queued(l[1], b)'
    BY DEF Queued
  <2>2. Pushed(l[1], b) => Pushed(l[1], b)'
    BY DEF Pushed
  <2>3. ASSUME Handled(l, b) PROVE Handled(l, b)'
    <3>1. PICK t \in Thread : peer[t] = l /\ In(b, todo[t])
      BY <2>3 DEF Handled
    <3>2. t[1] = l[2]
      BY <3>1, UpFacts, NoneAssumption DEF Inv, InHand
    <3> QED
      BY <3>1, <3>2 DEF Handled
  <2>4. Waits(l[2], b) => Waits(l[2], b)'
    BY DEF Waits
  <2>5. \A type : /\ Carries(l, type, b) => Carries(l, type, b)'
                  /\ Carries(Back(l), type, b) => Carries(Back(l), type, b)'
    BY DEF Carries
  <2>6. Stored(l[2], b) => Stored(l[2], b)'
    BY DEF Stored
  <2> QED
    BY <1>1, <2>1, <2>2, <2>3, <2>4, <2>5, <2>6 DEF OnItsWay
<1>2. asked \cup {} = asked
  OBVIOUS
<1> QED
  BY <1>1, <1>2, FollowedBy

LEMMA FollowedByFault ==
  ASSUME Inv, NEW l \in up, l \in up', NEW asked, Following(l, asked),
         \/ \E k \in Links : Break(k)
         \/ \E m \in Node : Connect(m) \/ Restart(m) \/ ReadTip(m)
         \/ \E m \in Node, b \in Hash : Mine(m, b)
         \/ \E m \in Node, w \in Worker : NextNewBlock(m, w)
         \/ UNCHANGED vars
  PROVE  Followed(l, asked, {})
<1> USE DEF nodeVars, minerVars, linkVars, faultVars
<1>1. /\ l \in Links /\ Back(l) \in Links /\ Back(l) \in up /\ Back(l) # l
      /\ Back(Back(l)) = l /\ Back(l)[1] = l[2] /\ Back(l)[2] = l[1]
      /\ l[1] \in Node /\ l[2] \in Node
  BY UpFacts
<1>2. CASE \E k \in Links : Break(k)
  <2>1. PICK k \in Links : Break(k)
    BY <1>2
  <2>2. PICK cut : chan' = [i \in Links |-> IF i \in {k, Back(k)} THEN cut[i] ELSE chan[i]]
    BY <2>1 DEF Break
  <2>3. l \notin {k, Back(k)} /\ Back(l) \notin {k, Back(k)}
    <3>1. up' = up \ {k, Back(k)}
      BY <2>1 DEF Break
    <3>2. Back(Back(k)) = k
      BY LinkFacts
    <3> QED
      BY <1>1, <3>1, <3>2
  <2>4. chan'[l] = chan[l] /\ chan'[Back(l)] = chan[Back(l)]
    BY <1>1, <2>2, <2>3
  <2>5. UNCHANGED <<blocks, control_chan, new_blocks, peer, todo, orphan_blocks>>
    BY <2>1 DEF Break, workerVars
  <2> QED
    BY <2>4, <2>5, FollowedAway
<1>3. CASE \E m \in Node : Restart(m)
  <2>1. PICK m \in Node : Restart(m)
    BY <1>3
  <2>2. m # l[1] /\ m # l[2] /\ m # Back(l)[1] /\ m # Back(l)[2]
    <3>1. up' = {k \in up : m \notin {k[1], k[2]}}
      BY <2>1 DEF Restart
    <3> QED
      BY <1>1, <3>1
  <2>3. PICK cut : chan' = [i \in Links |-> CASE i[2] = m -> <<>>
                                             [] i[1] = m /\ i \in up -> cut[i]
                                             [] OTHER -> chan[i]]
    BY <2>1 DEF Restart
  <2>4. chan'[l] = chan[l] /\ chan'[Back(l)] = chan[Back(l)]
    BY <1>1, <2>2, <2>3
  <2>5. /\ blocks' = [blocks EXCEPT ![m] = NewBlocks]
        /\ control_chan' = [control_chan EXCEPT ![m] = <<>>]
        /\ orphan_blocks' = [t \in Thread |-> IF t[1] = m THEN <<>> ELSE orphan_blocks[t]]
        /\ todo' = [t \in Thread |-> IF t[1] = m THEN <<>> ELSE todo[t]]
        /\ peer' = [t \in Thread |-> IF t[1] = m THEN None ELSE peer[t]]
        /\ new_blocks' = [t \in Thread |-> IF t[1] = m THEN <<>> ELSE new_blocks[t]]
    BY <2>1 DEF Restart
  <2>6. UNCHANGED <<blocks[l[1]], blocks[l[2]], control_chan[l[1]]>>
    BY <2>2, <2>5
  <2>7. \A t \in Thread : t[1] \in {l[1], l[2]} =>
          UNCHANGED <<new_blocks[t], peer[t], todo[t], orphan_blocks[t]>>
    BY <2>2, <2>5
  <2> QED
    BY <2>4, <2>6, <2>7, FollowedAway
<1>4. CASE \/ \E m \in Node : Connect(m) \/ ReadTip(m)
           \/ \E m \in Node, b \in Hash : Mine(m, b)
           \/ \E m \in Node, w \in Worker : NextNewBlock(m, w)
           \/ UNCHANGED vars
  <2>1. UNCHANGED <<blocks, control_chan, new_blocks, peer, todo, orphan_blocks, chan>>
    BY <1>4 DEF Connect, ReadTip, Mine, NextNewBlock, vars, workerVars
  <2> QED
    BY <2>1, FollowedAway
<1> QED
  BY <1>2, <1>3, <1>4

LEMMA InsertDomain ==
  ASSUME Inv, NEW m \in Node, NEW b, Insert(m, b)
  PROVE  /\ DOMAIN blocks'[m] = DOMAIN blocks[m] \cup {b}
         /\ \A k \in Node \ {m} : blocks'[k] = blocks[k]
         /\ \A k \in Node : \A c : Stored(k, c) => Stored(k, c)'
<1>1. DOMAIN blocks'[m] = DOMAIN blocks[m] \cup {b} /\ \A k \in Node \ {m} : blocks'[k] = blocks[k]
  BY DEF Inv, TypeOK, Insert, BlocksWith
<1> QED
  BY <1>1 DEF Stored

LEMMA QueuedMore ==
  ASSUME Inv, NEW m \in Node, NEW hs \in Seq(Hash), Broadcast(m, hs)
  PROVE  /\ \A k \in Node : \A b : Queued(k, b) => Queued(k, b)'
         /\ \A b : In(b, hs) => Queued(m, b)'
<1>1. PICK chans \in Seq(Seq(Hash)) : chans = control_chan[m]
  BY DEF Inv, TypeOK
<1>2. control_chan'[m] = Append(chans, hs) /\ \A k \in Node \ {m} : control_chan'[k] = control_chan[k]
  BY <1>1 DEF Inv, TypeOK, Broadcast
<1>3. /\ Len(chans) \in Nat /\ Len(Append(chans, hs)) = Len(chans) + 1
      /\ Append(chans, hs)[Len(chans) + 1] = hs
      /\ \A i \in 1 .. Len(chans) : Append(chans, hs)[i] = chans[i]
  OBVIOUS
<1>4. ASSUME NEW k \in Node, NEW b, Queued(k, b) PROVE Queued(k, b)'
  <2>1. CASE k = m
    <3>1. PICK i \in 1 .. Len(chans) : In(b, chans[i])
      BY <1>1, <1>4, <2>1 DEF Queued
    <3>2. i \in 1 .. Len(Append(chans, hs)) /\ Append(chans, hs)[i] = chans[i]
      BY <1>3
    <3> QED
      BY <1>2, <2>1, <3>1, <3>2 DEF Queued
  <2>2. CASE k # m
    BY <1>2, <1>4, <2>2 DEF Queued
  <2> QED
    BY <2>1, <2>2
<1>5. ASSUME NEW b, In(b, hs) PROVE Queued(m, b)'
  <2>1. Len(chans) + 1 \in 1 .. Len(Append(chans, hs))
    BY <1>3
  <2> QED
    BY <1>2, <1>3, <1>5, <2>1 DEF Queued
<1> QED
  BY <1>4, <1>5

LEMMA FollowedByStoreFinished ==
  ASSUME Inv, NEW l \in up, NEW asked, Following(l, asked),
         NEW m \in Node, StoreFinished(m)
  PROVE  \E more : Followed(l, asked, more)
<1>0. PICK f : f = Head(finished[m])
  OBVIOUS
<1> DEFINE more == IF l[1] = m THEN {f} ELSE {}
<1>1. l[1] \in Node /\ l[2] \in Node
  BY UpFacts
<1>2. /\ f \in Hash /\ Insert(m, f) /\ Broadcast(m, <<f>>)
      /\ UNCHANGED <<new_blocks, peer, todo, orphan_blocks, chan>>
  BY <1>0 DEF StoreFinished, workerVars, Inv, TypeOK
<1>3. /\ DOMAIN blocks'[m] = DOMAIN blocks[m] \cup {f}
      /\ \A k \in Node \ {m} : blocks'[k] = blocks[k]
      /\ \A k \in Node : \A c : Stored(k, c) => Stored(k, c)'
  BY <1>2, InsertDomain
<1>4. <<f>> \in Seq(Hash) /\ In(f, <<f>>)
  BY <1>2, InOne
<1>5. /\ \A k \in Node : \A b : Queued(k, b) => Queued(k, b)'
      /\ Queued(m, f)'
  BY <1>2, <1>4, QueuedMore
<1>6. ASSUME NEW b, OnItsWay(l, b, asked) PROVE OnItsWay(l, b, asked \cup more)'
  <2>1. /\ Pushed(l[1], b)' = Pushed(l[1], b) /\ Handled(l, b)' = Handled(l, b)
        /\ Waits(l[2], b)' = Waits(l[2], b)
        /\ \A k, type : Carries(k, type, b)' = Carries(k, type, b)
    BY <1>2 DEF Pushed, Handled, Waits, Carries
  <2> QED
    BY <1>1, <1>3, <1>5, <1>6, <2>1 DEF OnItsWay
<1>7. \A b \in more : OnItsWay(l, b, asked \cup more)'
  BY <1>5 DEF OnItsWay
<1>8. /\ more \subseteq DOMAIN blocks'[l[1]]
      /\ DOMAIN blocks[l[1]] \subseteq DOMAIN blocks'[l[1]]
      /\ DOMAIN blocks'[l[1]] \subseteq DOMAIN blocks[l[1]] \cup more
  BY <1>1, <1>3
<1> HIDE DEF more
<1> QED
  BY <1>6, <1>7, <1>8, FollowedBy

LEMMA FollowedByDispatch ==
  ASSUME Inv, NEW l \in up, NEW asked, Following(l, asked),
         NEW m \in Node, Dispatch(m)
  PROVE  Followed(l, asked, {})
<1>1. /\ l \in Links /\ Back(l) \in Links /\ Back(l)[1] = l[2] /\ Back(l) \in up
      /\ l[1] \in Node /\ l[2] \in Node
  BY UpFacts
<1>2. PICK chans \in Seq(Seq(Hash)) : chans = control_chan[m] /\ chans # <<>>
  BY DEF Inv, TypeOK, Dispatch
<1>3. PICK hs \in Seq(Hash) : hs = Head(chans)
  BY <1>2
<1>4. NewBlockHashes(hs) \in Message
  BY DEF NewBlockHashes, Message
<1>5. /\ chan' = [k \in Links |-> IF k[1] = m /\ k \in up
                                  THEN Append(chan[k], NewBlockHashes(hs)) ELSE chan[k]]
      /\ control_chan' = [control_chan EXCEPT ![m] = Tail(@)]
      /\ UNCHANGED <<blocks, new_blocks, peer, todo, orphan_blocks>>
  BY <1>2, <1>3 DEF Dispatch, nodeVars, workerVars
<1>6. ASSUME NEW k \in up, NEW type, NEW b, Carries(k, type, b) PROVE Carries(k, type, b)'
  <2>1. k \in Links /\ chan[k] \in Seq(Message)
    BY DEF Inv, TypeOK
  <2>2. PICK s \in Seq(Message) : s = chan[k]
    BY <2>1
  <2>3. PICK msg \in Message : msg = NewBlockHashes(hs)
    BY <1>4
  <2>4. <<msg>> \in Seq(Message) /\ Append(s, msg) = s \o <<msg>>
    BY AppendOne
  <2>5. Names(s \o <<msg>>, type, b)
    BY <1>6, <2>2, <2>4, NamesEnds DEF Carries
  <2> QED
    BY <1>5, <1>6, <2>1, <2>2, <2>3, <2>4, <2>5 DEF Carries
<1>7. ASSUME NEW b, Queued(l[1], b)
      PROVE  Queued(l[1], b)' \/ Carries(l, "NewBlockHashes", b)'
  <2>1. CASE l[1] # m
    <3>1. control_chan'[l[1]] = control_chan[l[1]]
      BY <1>1, <1>5, <2>1
    <3> QED
      BY <1>7, <3>1 DEF Queued
  <2>2. CASE l[1] = m
    <3>1. PICK i \in 1 .. Len(chans) : In(b, chans[i])
      BY <1>2, <1>7, <2>2 DEF Queued
    <3>2. /\ Len(chans) \in Nat /\ hs = chans[1] /\ Len(Tail(chans)) = Len(chans) - 1
          /\ \A j \in 1 .. Len(chans) - 1 : Tail(chans)[j] = chans[j + 1]
      BY <1>2, <1>3
    <3>3. CASE i = 1
      <4>1. PICK s \in Seq(Message) : s = chan[l]
        BY <1>1 DEF Inv, TypeOK
      <4>2. PICK msg \in Message : msg = NewBlockHashes(hs)
        BY <1>4
      <4>3. msg.hashes = hs /\ msg.type = "NewBlockHashes"
        BY <4>2 DEF NewBlockHashes
      <4>4. <<msg>> \in Seq(Message) /\ Append(s, msg) = s \o <<msg>>
        BY AppendOne
      <4>5. chan'[l] = s \o <<msg>>
        BY <1>1, <1>5, <2>2, <4>1, <4>2, <4>4
      <4>6. Names(<<msg>>, "NewBlockHashes", b)
        BY <3>1, <3>2, <3>3, <4>3, NamesOne, Zenon
      <4>7. Names(s \o <<msg>>, "NewBlockHashes", b)
        BY <4>4, <4>6, NamesEnds
      <4> QED
        BY <4>5, <4>7 DEF Carries
    <3>4. CASE i # 1
      <4>1. PICK j \in 1 .. Len(chans) - 1 : i = j + 1
        <5>1. i - 1 \in 1 .. Len(chans) - 1 /\ i = (i - 1) + 1
          BY <3>2, <3>4
        <5> QED
          BY <5>1
      <4>2. Tail(chans)[j] = chans[i] /\ j \in 1 .. Len(Tail(chans))
        BY <3>2, <4>1
      <4>3. control_chan'[l[1]] = Tail(chans)
        BY <1>1, <1>2, <1>5, <2>2 DEF Inv, TypeOK
      <4> QED
        BY <3>1, <4>2, <4>3 DEF Queued
    <3> QED
      BY <3>3, <3>4
  <2> QED
    BY <2>1, <2>2
<1>8. ASSUME NEW b, OnItsWay(l, b, asked) PROVE OnItsWay(l, b, asked)'
  <2>1. /\ Pushed(l[1], b)' = Pushed(l[1], b) /\ Handled(l, b)' = Handled(l, b)
        /\ Waits(l[2], b)' = Waits(l[2], b) /\ Stored(l[2], b)' = Stored(l[2], b)
    BY <1>5 DEF Pushed, Handled, Waits, Stored
  <2> QED
    BY <1>1, <1>6, <1>7, <1>8, <2>1 DEF OnItsWay
<1>9. asked \cup {} = asked /\ DOMAIN blocks'[l[1]] = DOMAIN blocks[l[1]]
  BY <1>5
<1> QED
  BY <1>8, <1>9, FollowedBy

(* What a node has not is among what it asks for.                          *)
LEMMA UnknownNames ==
  ASSUME NEW m \in Node, NEW S, NEW hs \in Seq(S), NEW b, In(b, hs),
         b \notin DOMAIN blocks[m]
  PROVE  In(b, Unknown(m, hs))
<1> DEFINE wanted == Wanted(m, hs)
           upto(i) == UpTo(m, hs, i)
           c == Cardinality(wanted)
           place(k) == CHOOSE i \in wanted : Cardinality(upto(i)) = k
<1>1. /\ wanted \subseteq 1 .. Len(hs)
      /\ IsFiniteSet(wanted) /\ c \in Nat
      /\ \A i \in wanted : Cardinality(upto(i)) \in 1 .. c
      /\ \A i, j \in wanted : Cardinality(upto(i)) = Cardinality(upto(j)) => i = j
  BY Ranks
<1>2. PICK i \in wanted : hs[i] = b
  BY DEF In, Wanted
<1>3. PICK k \in 1 .. c : k = Cardinality(upto(i))
  BY <1>1
<1>4. Unknown(m, hs) = [r \in 1 .. c |-> hs[place(r)]]
  BY DEF Unknown, Wanted, UpTo
<1>5. place(k) \in wanted /\ Cardinality(upto(place(k))) = k
  <2> HIDE DEF upto, wanted
  <2> QED
    BY <1>3
<1>6. place(k) = i
  <2> HIDE DEF upto, wanted, place
  <2> QED
    BY <1>1, <1>3, <1>5
<1> HIDE DEF upto, wanted, place, c
<1>7. Unknown(m, hs)[k] = b /\ Len(Unknown(m, hs)) = c
  BY <1>1, <1>2, <1>4, <1>6
<1> QED
  BY <1>7 DEF In

(* The handlers, which leave the stores alone.                             *)
LEMMA FollowedByHandler ==
  ASSUME Inv, NEW l \in up, NEW asked, Following(l, asked),
         UNCHANGED <<blocks, control_chan, new_blocks, orphan_blocks>>,
         \A b : Carries(l, "NewBlockHashes", b) => OnItsWay(l, b, asked)',
         \A b : Carries(Back(l), "GetBlocks", b) => OnItsWay(l, b, asked)',
         \A b : Carries(l, "Blocks", b) => OnItsWay(l, b, asked)',
         \A b : Handled(l, b) => OnItsWay(l, b, asked)'
  PROVE  Followed(l, asked, {})
<1>1. ASSUME NEW b, OnItsWay(l, b, asked) PROVE OnItsWay(l, b, asked)'
  <2>1. /\ Queued(l[1], b)' = Queued(l[1], b) /\ Pushed(l[1], b)' = Pushed(l[1], b)
        /\ Waits(l[2], b)' = Waits(l[2], b) /\ Stored(l[2], b)' = Stored(l[2], b)
    BY DEF Queued, Pushed, Waits, Stored
  <2>2. CASE \/ Queued(l[1], b) \/ Pushed(l[1], b) \/ Stored(l[2], b)
             \/ Waits(l[2], b) /\ Parent(b) \in asked
    BY <2>1, <2>2 DEF OnItsWay
  <2> QED
    BY <1>1, <2>2 DEF OnItsWay
<1>2. asked \cup {} = asked /\ DOMAIN blocks'[l[1]] = DOMAIN blocks[l[1]]
  OBVIOUS
<1> QED
  BY <1>1, <1>2, FollowedBy

LEMMA FollowedByHandleNewBlockHashes ==
  ASSUME Inv, NEW l \in up, NEW asked, Following(l, asked),
         NEW m \in Node, NEW w \in Worker, NEW k \in Links, HandleNewBlockHashes(m, w, k)
  PROVE  Followed(l, asked, {})
<1>1. /\ Back(l) \in up /\ Back(l) # l /\ Back(l)[1] = l[2] /\ l \in Links
      /\ l[1] \in Node /\ l[2] \in Node
  BY UpFacts
<1>2. PICK wanted : wanted = Unknown(m, Heard(k))
  OBVIOUS
<1>3. PICK answer : answer = IF wanted = <<>> THEN <<>> ELSE <<GetBlocks(wanted)>>
  OBVIOUS
<1>4. /\ k[2] = m /\ chan[k] # <<>> /\ Head(chan[k]).type = "NewBlockHashes"
      /\ Answered(k, answer)
      /\ UNCHANGED <<blocks, control_chan, new_blocks, orphan_blocks, peer, todo>>
  BY <1>2, <1>3 DEF HandleNewBlockHashes, Receives, nodeVars, workerVars
<1>5. Heard(k) \in Seq(Hash)
  BY <1>4, Received
<1>6. wanted \in Seq(Hash)
  BY <1>2, <1>5, UnknownSeq
<1>7. answer \in Seq(Message)
  <2>1. GetBlocks(wanted) \in Message
    BY <1>6 DEF GetBlocks, Message
  <2>2. <<>> \in Seq(Message) /\ <<GetBlocks(wanted)>> \in Seq(Message)
    BY <2>1
  <2> QED
    BY <1>3, <2>2
<1>8. ASSUME NEW b, Carries(l, "NewBlockHashes", b) PROVE OnItsWay(l, b, asked)'
  <2>1. CASE Carries(l, "NewBlockHashes", b)'
    BY <2>1 DEF OnItsWay
  <2>2. CASE l = k /\ In(b, Heard(k))
    <3>1. CASE b \in DOMAIN blocks[m]
      BY <1>4, <2>2, <3>1 DEF OnItsWay, Stored
    <3>2. CASE b \notin DOMAIN blocks[m]
      <4>1. In(b, wanted) /\ wanted # <<>>
        <5>1. In(b, wanted)
          BY <1>2, <1>5, <2>2, <3>2, UnknownNames
        <5> QED
          BY <5>1, <1>6, InEnds
      <4>2. Names(answer, "GetBlocks", b)
        <5>1. PICK msg : msg = GetBlocks(wanted)
          OBVIOUS
        <5>2. msg.type = "GetBlocks" /\ msg.hashes = wanted
          BY <5>1 DEF GetBlocks
        <5>3. answer = <<msg>>
          BY <1>3, <4>1, <5>1
        <5> QED
          BY <4>1, <5>2, <5>3, NamesOne
      <4>3. Carries(Back(l), "GetBlocks", b)'
        <5>1. PICK back \in up : back = Back(k)
          BY <1>1, <2>2
        <5>2. Carries(back, "GetBlocks", b)'
          BY <1>4, <1>7, <4>2, <5>1, AnsweredCarries
        <5> QED
          BY <2>2, <5>1, <5>2
      <4> QED
        BY <4>3 DEF OnItsWay
    <3> QED
      BY <3>1, <3>2
  <2> QED
    BY <1>4, <1>7, <1>8, <2>1, <2>2, AnsweredCarries
<1>9. ASSUME NEW b, Carries(Back(l), "GetBlocks", b) PROVE OnItsWay(l, b, asked)'
  <2>1. Carries(Back(l), "GetBlocks", b)'
    <3>1. PICK back \in up : back = Back(l)
      BY <1>1
    <3> QED
      BY <1>4, <1>7, <1>9, <3>1, AnsweredCarries
  <2> QED
    BY <2>1 DEF OnItsWay
<1>10. ASSUME NEW b, Carries(l, "Blocks", b) PROVE OnItsWay(l, b, asked)'
  <2>1. Carries(l, "Blocks", b)'
    BY <1>4, <1>7, <1>10, AnsweredCarries
  <2> QED
    BY <2>1 DEF OnItsWay
<1>11. ASSUME NEW b, Handled(l, b) PROVE OnItsWay(l, b, asked)'
  <2>1. Handled(l, b)'
    BY <1>4, <1>11 DEF Handled
  <2> QED
    BY <2>1 DEF OnItsWay
<1> QED
  BY <1>4, <1>8, <1>9, <1>10, <1>11, FollowedByHandler

LEMMA FollowedByHandleGetBlocks ==
  ASSUME Inv, NEW l \in up, NEW asked, Following(l, asked),
         NEW m \in Node, NEW w \in Worker, NEW k \in Links, HandleGetBlocks(m, w, k)
  PROVE  Followed(l, asked, {})
<1>1. /\ Back(l) \in up /\ Back(l) # l /\ Back(l)[1] = l[2] /\ Back(l)[2] = l[1]
      /\ l \in Links /\ Back(Back(l)) = l
  BY UpFacts
<1>2. PICK answer : answer = IF ToSet(Heard(k)) \subseteq DOMAIN blocks[m]
                             THEN <<Blocks(Heard(k))>> ELSE <<>>
  OBVIOUS
<1>3. /\ k[2] = m /\ chan[k] # <<>> /\ Head(chan[k]).type = "GetBlocks"
      /\ Answered(k, answer)
      /\ UNCHANGED <<blocks, control_chan, new_blocks, orphan_blocks, peer, todo>>
  BY <1>2 DEF HandleGetBlocks, Receives, nodeVars, workerVars
<1>4. Heard(k) \in Seq(Hash)
  BY <1>3, Received
<1>5. answer \in Seq(Message)
  <2>1. Blocks(Heard(k)) \in Message
    BY <1>4 DEF Blocks, Message
  <2>2. <<>> \in Seq(Message) /\ <<Blocks(Heard(k))>> \in Seq(Message)
    BY <2>1
  <2> QED
    BY <1>2, <2>2
<1>6. ASSUME NEW b, Carries(l, "NewBlockHashes", b) PROVE OnItsWay(l, b, asked)'
  <2>1. Carries(l, "NewBlockHashes", b)'
    BY <1>3, <1>5, <1>6, AnsweredCarries
  <2> QED
    BY <2>1 DEF OnItsWay
<1>7. ASSUME NEW b, Carries(Back(l), "GetBlocks", b) PROVE OnItsWay(l, b, asked)'
  <2>1. PICK back \in up : back = Back(l)
    BY <1>1
  <2>2. CASE Carries(back, "GetBlocks", b)'
    BY <2>1, <2>2 DEF OnItsWay
  <2>3. CASE back = k /\ In(b, Heard(k))
    <3>1. ToSet(Heard(k)) \subseteq DOMAIN blocks[m]
      <4>1. Heard(k) \in Seq(Known(m))
        BY <1>3, <2>1, <2>3, Received, BackedMessages DEF Heard, Known
      <4> QED
        BY <4>1 DEF Known, ToSet
    <3>2. PICK msg : msg = Blocks(Heard(k))
      OBVIOUS
    <3>3. msg.type = "Blocks" /\ msg.hashes = Heard(k) /\ answer = <<msg>>
      BY <1>2, <3>1, <3>2 DEF Blocks
    <3>4. Names(answer, "Blocks", b)
      BY <2>3, <3>3, NamesOne
    <3>5. Carries(l, "Blocks", b)'
      BY <1>1, <1>3, <1>5, <2>1, <2>3, <3>4, AnsweredCarries
    <3> QED
      BY <3>5 DEF OnItsWay
  <2> QED
    BY <1>3, <1>5, <1>7, <2>1, <2>2, <2>3, AnsweredCarries
<1>8. ASSUME NEW b, Carries(l, "Blocks", b) PROVE OnItsWay(l, b, asked)'
  <2>1. Carries(l, "Blocks", b)'
    BY <1>3, <1>5, <1>8, AnsweredCarries
  <2> QED
    BY <2>1 DEF OnItsWay
<1>9. ASSUME NEW b, Handled(l, b) PROVE OnItsWay(l, b, asked)'
  <2>1. Handled(l, b)'
    BY <1>3, <1>9 DEF Handled
  <2> QED
    BY <2>1 DEF OnItsWay
<1> QED
  BY <1>3, <1>6, <1>7, <1>8, <1>9, FollowedByHandler

LEMMA FollowedByHandleBlocks ==
  ASSUME Inv, NEW l \in up, NEW asked, Following(l, asked),
         NEW m \in Node, NEW w \in Worker, NEW k \in Links, HandleBlocks(m, w, k)
  PROVE  Followed(l, asked, {})
<1> DEFINE t == <<m, w>>
<1>1. Back(l) \in up /\ Back(l) # l /\ l \in Links /\ l # None
  BY UpFacts, NoneAssumption
<1>2. /\ t \in Thread /\ peer[t] = None
      /\ k[2] = m /\ chan[k] # <<>> /\ Head(chan[k]).type = "Blocks"
      /\ Answered(k, <<>>)
      /\ todo' = [todo EXCEPT ![t] = Heard(k)]
      /\ peer' = [peer EXCEPT ![t] = k]
      /\ UNCHANGED <<blocks, control_chan, new_blocks, orphan_blocks>>
  BY DEF HandleBlocks, Receives, Idle, nodeVars, workerVars, Thread
<1> HIDE DEF t
<1>3. /\ peer'[t] = k /\ todo'[t] = Heard(k)
      /\ \A u \in Thread \ {t} : peer'[u] = peer[u] /\ todo'[u] = todo[u]
  BY <1>2 DEF Inv, TypeOK
<1>4. <<>> \in Seq(Message)
  OBVIOUS
<1>5. ASSUME NEW b, Carries(l, "NewBlockHashes", b) PROVE OnItsWay(l, b, asked)'
  <2>1. Carries(l, "NewBlockHashes", b)'
    BY <1>2, <1>4, <1>5, AnsweredCarries
  <2> QED
    BY <2>1 DEF OnItsWay
<1>6. ASSUME NEW b, Carries(Back(l), "GetBlocks", b) PROVE OnItsWay(l, b, asked)'
  <2>1. PICK back \in up : back = Back(l)
    BY <1>1
  <2>2. Carries(back, "GetBlocks", b)'
    BY <1>2, <1>4, <1>6, <2>1, AnsweredCarries
  <2> QED
    BY <2>1, <2>2 DEF OnItsWay
<1>7. ASSUME NEW b, Carries(l, "Blocks", b) PROVE OnItsWay(l, b, asked)'
  <2>1. CASE Carries(l, "Blocks", b)'
    BY <2>1 DEF OnItsWay
  <2>2. CASE l = k /\ In(b, Heard(k))
    <3>1. Handled(l, b)'
      BY <1>2, <1>3, <2>2 DEF Handled
    <3> QED
      BY <3>1 DEF OnItsWay
  <2> QED
    BY <1>2, <1>4, <1>7, <2>1, <2>2, AnsweredCarries
<1>8. ASSUME NEW b, Handled(l, b) PROVE OnItsWay(l, b, asked)'
  <2>1. PICK u \in Thread : peer[u] = l /\ In(b, todo[u])
    BY <1>8 DEF Handled
  <2>2. u # t
    BY <1>1, <1>2, <2>1
  <2>3. Handled(l, b)'
    BY <1>3, <2>1, <2>2 DEF Handled
  <2> QED
    BY <2>3 DEF OnItsWay
<1> QED
  BY <1>2, <1>5, <1>6, <1>7, <1>8, FollowedByHandler

LEMMA FollowedBySkipKnown ==
  ASSUME Inv, NEW l \in up, NEW asked, Following(l, asked),
         NEW m \in Node, NEW w \in Worker, SkipKnown(m, w)
  PROVE  Followed(l, asked, {})
<1> DEFINE t == <<m, w>>
<1>1. /\ t \in Thread /\ t[1] = m /\ todo[t] # <<>>
      /\ Head(todo[t]) \in DOMAIN blocks[m]
      /\ todo' = [todo EXCEPT ![t] = Tail(@)]
      /\ UNCHANGED <<blocks, control_chan, new_blocks, orphan_blocks, peer, chan>>
  BY DEF SkipKnown, AtBlock, nodeVars, Thread
<1> HIDE DEF t
<1>2. PICK s \in Seq(Hash) : s = todo[t]
  BY <1>1 DEF Inv, TypeOK
<1>3. todo'[t] = Tail(s) /\ \A u \in Thread \ {t} : todo'[u] = todo[u]
  BY <1>1, <1>2 DEF Inv, TypeOK
<1>4. \A b, type : /\ Carries(l, type, b) => Carries(l, type, b)'
                   /\ Carries(Back(l), type, b) => Carries(Back(l), type, b)'
  BY <1>1 DEF Carries
<1>5. ASSUME NEW b, Handled(l, b) PROVE OnItsWay(l, b, asked)'
  <2>1. PICK u \in Thread : peer[u] = l /\ In(b, todo[u])
    BY <1>5 DEF Handled
  <2>2. CASE u # t
    <3>1. Handled(l, b)'
      BY <1>1, <1>3, <2>1, <2>2 DEF Handled
    <3> QED
      BY <3>1 DEF OnItsWay
  <2>3. CASE u = t
    <3>1. l[2] = m
      BY <1>1, <2>1, <2>3, UpFacts, NoneAssumption DEF Inv, InHand
    <3>2. b = Head(s) \/ In(b, Tail(s))
      BY <1>1, <1>2, <2>1, <2>3, InEnds
    <3>3. CASE b = Head(s)
      BY <1>1, <1>2, <3>1, <3>3 DEF OnItsWay, Stored
    <3>4. CASE In(b, Tail(s))
      <4>1. Handled(l, b)'
        BY <1>1, <1>3, <2>1, <2>3, <3>4 DEF Handled
      <4> QED
        BY <4>1 DEF OnItsWay
    <3> QED
      BY <3>2, <3>3, <3>4
  <2> QED
    BY <2>2, <2>3
<1>6. \A b : /\ Carries(l, "NewBlockHashes", b) => OnItsWay(l, b, asked)'
             /\ Carries(Back(l), "GetBlocks", b) => OnItsWay(l, b, asked)'
             /\ Carries(l, "Blocks", b) => OnItsWay(l, b, asked)'
  BY <1>4 DEF OnItsWay
<1> QED
  BY <1>1, <1>5, <1>6, FollowedByHandler

(* A block is inserted and pushed, off the message or out of the buffer.   *)
LEMMA FollowedByPush ==
  ASSUME Inv, NEW l \in up, NEW asked, Following(l, asked),
         NEW m \in Node, NEW t \in Thread, t[1] = m, NEW b \in Hash, Insert(m, b),
         new_blocks' = [new_blocks EXCEPT ![t] = Append(@, b)],
         UNCHANGED <<peer, control_chan, chan>>,
         \A u \in Thread : \A c : In(c, todo[u]) => In(c, todo'[u]) \/ (u = t /\ c = b),
         \A u \in Thread : \A c :
           In(c, orphan_blocks[u]) => In(c, orphan_blocks'[u]) \/ (u = t /\ c = b)
  PROVE  \E more : Followed(l, asked, more)
<1> DEFINE more == IF l[1] = m THEN {b} ELSE {}
<1>1. l[1] \in Node /\ l[2] \in Node
  BY UpFacts
<1>2. /\ DOMAIN blocks'[m] = DOMAIN blocks[m] \cup {b}
      /\ \A k \in Node \ {m} : blocks'[k] = blocks[k]
      /\ \A k \in Node : \A c : Stored(k, c) => Stored(k, c)'
  BY InsertDomain
<1>3. /\ \A u \in Thread : \A c : In(c, new_blocks[u]) => In(c, new_blocks'[u])
      /\ In(b, new_blocks'[t])
  <2>1. PICK s \in Seq(Hash) : s = new_blocks[t]
    BY DEF Inv, TypeOK
  <2>2. new_blocks'[t] = Append(s, b) /\ \A u \in Thread \ {t} : new_blocks'[u] = new_blocks[u]
    BY <2>1 DEF Inv, TypeOK
  <2>3. \A c, d : In(c, Append(s, d)) <=> In(c, s) \/ c = d
    BY InEnds
  <2> QED
    BY <2>1, <2>2, <2>3
<1>4. ASSUME NEW c, OnItsWay(l, c, asked) PROVE OnItsWay(l, c, asked \cup more)'
  <2>1. /\ Queued(l[1], c)' = Queued(l[1], c)
        /\ \A k, type : Carries(k, type, c)' = Carries(k, type, c)
    BY DEF Queued, Carries
  <2>2. CASE Pushed(l[1], c)
    <3>1. Pushed(l[1], c)'
      BY <1>3, <2>2 DEF Pushed
    <3> QED
      BY <3>1 DEF OnItsWay
  <2>3. CASE Handled(l, c)
    <3>1. PICK u \in Thread : peer[u] = l /\ In(c, todo[u])
      BY <2>3 DEF Handled
    <3>2. CASE u = t /\ c = b
      <4>1. l[2] = m
        BY <3>1, <3>2, UpFacts, NoneAssumption DEF Inv, InHand
      <4> QED
        BY <1>2, <3>2, <4>1 DEF OnItsWay, Stored
    <3>3. CASE In(c, todo'[u])
      BY <3>1, <3>3 DEF OnItsWay, Handled
    <3> QED
      BY <3>1, <3>2, <3>3
  <2>4. CASE Waits(l[2], c) /\ Parent(c) \in asked
    <3>1. PICK u \in Thread : u[1] = l[2] /\ In(c, orphan_blocks[u])
      BY <2>4 DEF Waits
    <3>2. CASE u = t /\ c = b
      BY <1>2, <3>1, <3>2 DEF OnItsWay, Stored
    <3>3. CASE In(c, orphan_blocks'[u])
      <4>1. Waits(l[2], c)'
        BY <3>1, <3>3 DEF Waits
      <4> QED
        BY <2>4, <4>1 DEF OnItsWay
    <3> QED
      BY <3>1, <3>2, <3>3
  <2>5. CASE Stored(l[2], c)
    BY <1>1, <1>2, <2>5 DEF OnItsWay
  <2> QED
    BY <1>4, <2>1, <2>2, <2>3, <2>4, <2>5 DEF OnItsWay
<1>5. \A c \in more : OnItsWay(l, c, asked \cup more)'
  BY <1>3 DEF OnItsWay, Pushed
<1>6. /\ more \subseteq DOMAIN blocks'[l[1]]
      /\ DOMAIN blocks[l[1]] \subseteq DOMAIN blocks'[l[1]]
      /\ DOMAIN blocks'[l[1]] \subseteq DOMAIN blocks[l[1]] \cup more
  BY <1>1, <1>2
<1> HIDE DEF more
<1> QED
  BY <1>4, <1>5, <1>6, FollowedBy

LEMMA FollowedByStoreBlock ==
  ASSUME Inv, NEW l \in up, NEW asked, Following(l, asked),
         NEW m \in Node, NEW w \in Worker, StoreBlock(m, w)
  PROVE  \E more : Followed(l, asked, more)
<1>0. <<m, w>> \in Thread /\ <<m, w>>[1] = m
  BY DEF Thread
<1>1. PICK t \in Thread : t = <<m, w>> /\ t[1] = m
  BY <1>0
<1>2. PICK s \in Seq(Hash) : s = todo[t]
  BY DEF Inv, TypeOK
<1>3. s # <<>> /\ Head(s) \in Hash
  <2>1. AtBlock(<<m, w>>)
    BY DEF StoreBlock
  <2>2. s # <<>>
    BY <1>1, <1>2, <2>1 DEF AtBlock
  <2> QED
    BY <2>2
<1>4. PICK b \in Hash : b = Head(s)
  BY <1>3
<1>5. /\ Insert(m, b)
      /\ new_blocks' = [new_blocks EXCEPT ![t] = Append(@, b)]
      /\ todo' = [todo EXCEPT ![t] = Tail(@)]
      /\ UNCHANGED <<peer, control_chan, chan, orphan_blocks>>
  BY <1>1, <1>2, <1>4 DEF StoreBlock
<1>6. \A u \in Thread : \A c : In(c, todo[u]) => In(c, todo'[u]) \/ (u = t /\ c = b)
  <2>1. todo'[t] = Tail(s) /\ \A u \in Thread \ {t} : todo'[u] = todo[u]
    BY <1>2, <1>5 DEF Inv, TypeOK
  <2>2. \A c : In(c, s) => c = b \/ In(c, Tail(s))
    BY <1>3, <1>4, InEnds
  <2> QED
    BY <1>2, <2>1, <2>2
<1> QED
  BY <1>1, <1>5, <1>6, FollowedByPush

LEMMA FollowedByReleaseOrphan ==
  ASSUME Inv, NEW l \in up, NEW asked, Following(l, asked),
         NEW m \in Node, NEW w \in Worker, ReleaseOrphan(m, w)
  PROVE  \E more : Followed(l, asked, more)
<1>0. <<m, w>> \in Thread /\ <<m, w>>[1] = m
  BY DEF Thread
<1>1. PICK t \in Thread : t = <<m, w>> /\ t[1] = m
  BY <1>0
<1>2. PICK s \in Seq(Hash) : s = orphan_blocks[t]
  BY DEF Inv, TypeOK
<1>3. PICK i \in Releasable(t) :
        /\ Insert(m, s[i])
        /\ new_blocks' = [new_blocks EXCEPT ![t] = Append(@, s[i])]
        /\ orphan_blocks' = [orphan_blocks EXCEPT ![t] = RemoveAt(@, i)]
  BY <1>1, <1>2 DEF ReleaseOrphan
<1>4. i \in 1 .. Len(s) /\ s[i] \in Hash
  BY <1>2 DEF Releasable
<1>5. PICK b \in Hash : b = s[i]
  BY <1>4
<1>6. UNCHANGED <<peer, control_chan, chan, todo>>
  BY DEF ReleaseOrphan
<1>7. \A u \in Thread : \A c :
        In(c, orphan_blocks[u]) => In(c, orphan_blocks'[u]) \/ (u = t /\ c = b)
  <2>1. /\ orphan_blocks'[t] = RemoveAt(s, i)
        /\ \A u \in Thread \ {t} : orphan_blocks'[u] = orphan_blocks[u]
    BY <1>2, <1>3 DEF Inv, TypeOK
  <2>2. \A c : In(c, s) => In(c, RemoveAt(s, i)) \/ c = b
    BY <1>4, <1>5, InRemoved
  <2> QED
    BY <1>2, <2>1, <2>2
<1> QED
  BY <1>1, <1>3, <1>5, <1>6, <1>7, FollowedByPush

(* The parent of an orphan is a block its live sender has.                 *)
LEMMA ParentAsked ==
  ASSUME Inv, NEW t \in Thread, NEW l \in up, peer[t] = l, todo[t] # <<>>,
         Parent(Head(todo[t])) \notin DOMAIN blocks[t[1]]
  PROVE  Parent(Head(todo[t])) \in Hash /\ Parent(Head(todo[t])) \in DOMAIN blocks[l[1]]
<1>1. l \in Links /\ l[1] \in Node /\ t[1] \in Node
  BY UpFacts DEF Thread
<1>2. PICK b : b = Head(todo[t])
  OBVIOUS
<1>3. todo[t] \in Seq(Known(l[1]))
  BY DEF Inv, InHand
<1>4. b \in Known(l[1])
  BY <1>2, <1>3
<1>5. Parent(b) \in DOMAIN blocks[l[1]] /\ DOMAIN blocks[l[1]] \subseteq Hash \cup {Genesis}
  BY <1>1, <1>4 DEF Inv, TypeOK, Stores, Eligible
<1>6. Parent(b) # Genesis
  BY <1>1, <1>2 DEF Inv, Stores
<1> QED
  BY <1>2, <1>5, <1>6

LEMMA FollowedByKeepOrphan ==
  ASSUME Inv, NEW l \in up, NEW asked, Following(l, asked),
         NEW m \in Node, NEW w \in Worker, KeepOrphan(m, w)
  PROVE  \E more : /\ Followed(l, asked, more)
                   /\ peer[<<m, w>>] = l => Parent(Head(todo[<<m, w>>])) \in more
<1>0. <<m, w>> \in Thread /\ <<m, w>>[1] = m
  BY DEF Thread
<1>1. PICK t \in Thread : t = <<m, w>> /\ t[1] = m
  BY <1>0
<1>2. PICK s \in Seq(Hash) : s = todo[t]
  BY DEF Inv, TypeOK
<1>3. s # <<>> /\ Head(s) \in Hash
  <2>1. AtBlock(<<m, w>>)
    BY DEF KeepOrphan
  <2>2. s # <<>>
    BY <1>1, <1>2, <2>1 DEF AtBlock
  <2> QED
    BY <2>2
<1>4. PICK b \in Hash : b = Head(s)
  BY <1>3
<1>5. PICK k : k = peer[t]
  OBVIOUS
<1>6. k \in Links /\ k \in used /\ k[2] = m
  BY <1>1, <1>5 DEF KeepOrphan, AtBlock, Idle, Inv, TypeOK, InHand
<1>7. PICK back \in Links : back = Back(k)
  BY <1>6, LinkFacts
<1> DEFINE request == <<GetBlocks(<<Parent(b)>>)>>
<1>8. /\ Parent(b) \notin DOMAIN blocks[m]
      /\ orphan_blocks' = [orphan_blocks EXCEPT ![t] = Append(@, b)]
      /\ chan' = [chan EXCEPT ![back] = @ \o Written(back, request)]
      /\ todo' = [todo EXCEPT ![t] = Tail(@)]
      /\ UNCHANGED <<blocks, peer, new_blocks, control_chan>>
  BY <1>1, <1>2, <1>4, <1>5, <1>7 DEF KeepOrphan, nodeVars
<1>9. /\ l \in Links /\ Back(l) \in up /\ Back(l) \in Links /\ Back(l)[1] = l[2]
      /\ l[1] \in Node /\ l[2] \in Node
  BY UpFacts
<1>10. ASSUME k = l
       PROVE  /\ Parent(b) \in DOMAIN blocks[l[1]] /\ Parent(b) \in Hash
              /\ back \in up
  BY <1>1, <1>2, <1>3, <1>4, <1>5, <1>7, <1>8, <1>9, <1>10, ParentAsked
<1>11. ASSUME back \in up PROVE Parent(b) \in Hash
  <2>1. k \in up
    BY <1>6, <1>7, <1>11, LinkFacts DEF Inv, Paired
  <2> QED
    BY <1>1, <1>2, <1>3, <1>4, <1>5, <1>8, <2>1, ParentAsked
<1>12. PICK more \in SUBSET Hash :
         more = IF k = l THEN {Parent(b)} ELSE {}
  <2>1. (IF k = l THEN {Parent(b)} ELSE {}) \in SUBSET Hash
    BY <1>10
  <2> QED
    BY <2>1
<1>13. PICK written \in Seq(Message) :
         /\ written = Written(back, request)
         /\ back \in up => Names(written, "GetBlocks", Parent(b))
  <2>1. CASE back \in up
    <3>1. PICK msg : msg = GetBlocks(<<Parent(b)>>)
      OBVIOUS
    <3>2. msg \in Message /\ msg.type = "GetBlocks" /\ msg.hashes = <<Parent(b)>>
      BY <1>11, <2>1, <3>1 DEF GetBlocks, Message
    <3>3. <<msg>> \in Seq(Message) /\ Names(<<msg>>, "GetBlocks", Parent(b))
      BY <3>2, NamesOne, InOne
    <3> QED
      BY <2>1, <3>1, <3>3 DEF Written
  <2>2. CASE back \notin up
    <3>1. Written(back, request) = <<>> /\ <<>> \in Seq(Message)
      BY <2>2 DEF Written
    <3> QED
      BY <2>2, <3>1
  <2> QED
    BY <2>1, <2>2
<1> HIDE DEF request
<1>14. /\ \A j \in Links : \A type, c : Carries(j, type, c) => Carries(j, type, c)'
       /\ back \in up => Carries(back, "GetBlocks", Parent(b))'
  <2>1. PICK messages \in Seq(Message) : messages = chan[back]
    BY DEF Inv, TypeOK
  <2>2. /\ chan'[back] = messages \o written
        /\ \A j \in Links \ {back} : chan'[j] = chan[j]
    BY <1>8, <1>13, <2>1 DEF Inv, TypeOK
  <2>3. \A type, c : /\ Names(messages, type, c) => Names(messages \o written, type, c)
                     /\ Names(written, type, c) => Names(messages \o written, type, c)
    BY NamesEnds
  <2> QED
    BY <1>13, <2>1, <2>2, <2>3 DEF Carries
<1>15. /\ \A u \in Thread : \A c : In(c, orphan_blocks[u]) => In(c, orphan_blocks'[u])
       /\ In(b, orphan_blocks'[t])
  <2>1. PICK orphans \in Seq(Hash) : orphans = orphan_blocks[t]
    BY DEF Inv, TypeOK
  <2>2. /\ orphan_blocks'[t] = Append(orphans, b)
        /\ \A u \in Thread \ {t} : orphan_blocks'[u] = orphan_blocks[u]
    BY <1>8, <2>1 DEF Inv, TypeOK
  <2>3. \A c, d : In(c, Append(orphans, d)) <=> In(c, orphans) \/ c = d
    BY InEnds
  <2> QED
    BY <2>1, <2>2, <2>3
<1>16. \A u \in Thread : \A c : In(c, todo[u]) => In(c, todo'[u]) \/ (u = t /\ c = b)
  <2>1. todo'[t] = Tail(s) /\ \A u \in Thread \ {t} : todo'[u] = todo[u]
    BY <1>2, <1>8 DEF Inv, TypeOK
  <2>2. \A c : In(c, s) => c = b \/ In(c, Tail(s))
    BY <1>3, <1>4, InEnds
  <2> QED
    BY <1>2, <2>1, <2>2
<1>17. ASSUME NEW c, OnItsWay(l, c, asked) PROVE OnItsWay(l, c, asked \cup more)'
  <2>1. /\ Queued(l[1], c)' = Queued(l[1], c) /\ Pushed(l[1], c)' = Pushed(l[1], c)
        /\ Stored(l[2], c)' = Stored(l[2], c)
    BY <1>8 DEF Queued, Pushed, Stored
  <2>2. Waits(l[2], c) => Waits(l[2], c)'
    BY <1>15 DEF Waits
  <2>3. CASE Handled(l, c)
    <3>1. PICK u \in Thread : peer[u] = l /\ In(c, todo[u])
      BY <2>3 DEF Handled
    <3>2. CASE u = t /\ c = b
      <4>1. k = l /\ Waits(l[2], b)'
        BY <1>1, <1>5, <1>6, <1>15, <3>1, <3>2 DEF Waits
      <4>2. Parent(b) \in asked \cup more
        BY <1>12, <4>1
      <4> QED
        BY <3>2, <4>1, <4>2 DEF OnItsWay
    <3>3. CASE In(c, todo'[u])
      BY <1>8, <3>1, <3>3 DEF OnItsWay, Handled
    <3> QED
      BY <1>16, <3>1, <3>2, <3>3
  <2>4. /\ Carries(l, "NewBlockHashes", c) => Carries(l, "NewBlockHashes", c)'
        /\ Carries(Back(l), "GetBlocks", c) => Carries(Back(l), "GetBlocks", c)'
        /\ Carries(l, "Blocks", c) => Carries(l, "Blocks", c)'
    <3>1. PICK j \in Links : j = Back(l)
      BY <1>9
    <3>2. Carries(j, "GetBlocks", c) => Carries(j, "GetBlocks", c)'
      BY <1>14
    <3> QED
      BY <1>9, <1>14, <3>1, <3>2
  <2> QED
    BY <1>17, <2>1, <2>2, <2>3, <2>4 DEF OnItsWay
<1>18. \A c \in more : OnItsWay(l, c, asked \cup more)'
  <2> SUFFICES ASSUME NEW c \in more PROVE OnItsWay(l, c, asked \cup more)'
    OBVIOUS
  <2>1. k = l /\ c = Parent(b)
    BY <1>12
  <2>2. Carries(Back(l), "GetBlocks", c)'
    BY <1>7, <1>10, <1>14, <2>1
  <2> QED
    BY <2>2 DEF OnItsWay
<1>19. more \subseteq DOMAIN blocks'[l[1]] /\ DOMAIN blocks'[l[1]] = DOMAIN blocks[l[1]]
  BY <1>8, <1>10, <1>12
<1>20. Followed(l, asked, more)
  BY <1>17, <1>18, <1>19, FollowedBy
<1>21. peer[<<m, w>>] = l => Parent(Head(todo[<<m, w>>])) \in more
  BY <1>1, <1>2, <1>4, <1>5, <1>12
<1> QED
  BY <1>20, <1>21

LEMMA FollowedByFinish ==
  ASSUME Inv, NEW l \in up, NEW asked, Following(l, asked),
         NEW m \in Node, NEW w \in Worker, Finish(m, w)
  PROVE  Followed(l, asked, {})
<1>0. <<m, w>> \in Thread /\ <<m, w>>[1] = m
  BY DEF Thread
<1>1. PICK t \in Thread : t = <<m, w>> /\ t[1] = m
  BY <1>0
<1>2. PICK hs \in Seq(Hash) : hs = new_blocks[t]
  BY DEF Inv, TypeOK
<1>3. /\ (hs = <<>> /\ UNCHANGED control_chan) \/ Broadcast(m, hs)
      /\ todo[t] = <<>>
      /\ new_blocks' = [new_blocks EXCEPT ![t] = <<>>]
      /\ peer' = [peer EXCEPT ![t] = None]
      /\ UNCHANGED <<blocks, orphan_blocks, todo, chan>>
  BY <1>1, <1>2 DEF Finish, nodeVars
<1>4. /\ \A k \in Node : \A b : Queued(k, b) => Queued(k, b)'
      /\ \A b : In(b, hs) => Queued(m, b)'
  <2>1. CASE hs = <<>> /\ UNCHANGED control_chan
    BY <2>1, InEnds DEF Queued
  <2>2. CASE Broadcast(m, hs)
    BY <2>2, QueuedMore
  <2> QED
    BY <1>3, <2>1, <2>2
<1>5. l[1] \in Node /\ l[2] \in Node
  BY UpFacts
<1>6. \A u \in Thread \ {t} : new_blocks'[u] = new_blocks[u] /\ peer'[u] = peer[u]
  BY <1>3 DEF Inv, TypeOK
<1>7. ASSUME NEW b, OnItsWay(l, b, asked) PROVE OnItsWay(l, b, asked)'
  <2>1. /\ Waits(l[2], b)' = Waits(l[2], b) /\ Stored(l[2], b)' = Stored(l[2], b)
        /\ \A k, type : Carries(k, type, b)' = Carries(k, type, b)
    BY <1>3 DEF Waits, Stored, Carries
  <2>2. Queued(l[1], b) => Queued(l[1], b)'
    BY <1>4, <1>5
  <2>3. Pushed(l[1], b) => Pushed(l[1], b)' \/ Queued(l[1], b)'
    <3>1. ASSUME NEW u \in Thread, u[1] = l[1], In(b, new_blocks[u])
          PROVE  Pushed(l[1], b)' \/ Queued(l[1], b)'
      <4>1. CASE u = t
        BY <1>1, <1>2, <1>4, <3>1, <4>1
      <4>2. CASE u # t
        BY <1>6, <3>1, <4>2 DEF Pushed
      <4> QED
        BY <4>1, <4>2
    <3> QED
      BY <3>1 DEF Pushed
  <2>4. Handled(l, b) => Handled(l, b)'
    <3>1. ASSUME NEW u \in Thread, peer[u] = l, In(b, todo[u]) PROVE Handled(l, b)'
      <4>1. ~ In(b, <<>>)
        BY DEF In
      <4>2. u # t
        BY <1>3, <3>1, <4>1
      <4> QED
        BY <1>3, <1>6, <3>1, <4>2 DEF Handled
    <3> QED
      BY <3>1 DEF Handled
  <2> QED
    BY <1>7, <2>1, <2>2, <2>3, <2>4 DEF OnItsWay
<1>8. asked \cup {} = asked /\ DOMAIN blocks'[l[1]] = DOMAIN blocks[l[1]]
  BY <1>3
<1> QED
  BY <1>7, <1>8, FollowedBy

LEMMA FollowedStep ==
  ASSUME Inv, [Next]_vars, NEW l \in up, l \in up', NEW asked, Following(l, asked)
  PROVE  \E more : Followed(l, asked, more)
<1>1. ASSUME NEW m \in Node, NEW w \in Worker, Deliver(m, w)
      PROVE  \E more : Followed(l, asked, more)
  BY <1>1, FollowedByHandleNewBlockHashes, FollowedByHandleGetBlocks, FollowedByHandleBlocks,
     FollowedBySkipKnown, FollowedByStoreBlock, FollowedByKeepOrphan,
     FollowedByReleaseOrphan, FollowedByFault, FollowedByFinish
     DEF Deliver
<1> QED
  BY <1>1, FollowedByFault, FollowedByStoreFinished, FollowedByDispatch DEF Next

-----------------------------------------------------------------------------
(* All that was stored at the start of a link since it is up is on its     *)
(* way, and a worker between messages has broadcast all it has stored.     *)
Caught == \A l \in up : \E asked : Following(l, asked) /\ Shared(l) \subseteq asked

AllTold == \A t \in Thread : Idle(t) => new_blocks[t] = <<>>

LEMMA LinksKept ==
  [Next]_vars => (\E m \in Node : Connect(m)) \/ (UNCHANGED before /\ up' \subseteq up)
<1> SUFFICES ASSUME [Next]_vars
             PROVE  (\E m \in Node : Connect(m)) \/ (UNCHANGED before /\ up' \subseteq up)
  OBVIOUS
<1> USE DEF linkVars
<1>1. ASSUME NEW m \in Node, NEW w \in Worker, Deliver(m, w) PROVE UNCHANGED <<before, up>>
  <2>1. ASSUME NEW l \in Links, \/ HandleNewBlockHashes(m, w, l) \/ HandleGetBlocks(m, w, l)
                                \/ HandleBlocks(m, w, l)
        PROVE  UNCHANGED <<before, up>>
    BY <2>1 DEF HandleNewBlockHashes, HandleGetBlocks, HandleBlocks
  <2>2. CASE \/ SkipKnown(m, w) \/ StoreBlock(m, w) \/ KeepOrphan(m, w)
             \/ ReleaseOrphan(m, w) \/ NextNewBlock(m, w) \/ Finish(m, w)
    BY <2>2 DEF SkipKnown, StoreBlock, KeepOrphan, ReleaseOrphan, NextNewBlock, Finish
  <2> QED
    BY <1>1, <2>1, <2>2 DEF Deliver
<1>2. ASSUME NEW m \in Node, \/ ReadTip(m) \/ StoreFinished(m) \/ Dispatch(m)
                             \/ \E b \in Hash : Mine(m, b)
      PROVE  UNCHANGED <<before, up>>
  BY <1>2 DEF ReadTip, StoreFinished, Dispatch, Mine
<1>3. ASSUME NEW l \in Links, Break(l) PROVE UNCHANGED before /\ up' \subseteq up
  BY <1>3 DEF Break
<1>4. ASSUME NEW m \in Node, Restart(m) PROVE UNCHANGED before /\ up' \subseteq up
  BY <1>4 DEF Restart
<1>5. CASE UNCHANGED vars
  BY <1>5 DEF vars
<1> QED
  BY <1>1, <1>2, <1>3, <1>4, <1>5 DEF Next

LEMMA CaughtStep == Inv /\ Caught /\ [Next]_vars => Caught'
<1> SUFFICES ASSUME Inv, Caught, [Next]_vars, NEW l \in up'
             PROVE  \E asked : (Following(l, asked) /\ Shared(l) \subseteq asked)'
  BY DEF Caught
<1>1. CASE l \in up
  <2>1. PICK asked : Following(l, asked) /\ Shared(l) \subseteq asked
    BY <1>1 DEF Caught
  <2>2. PICK more : Followed(l, asked, more)
    BY <1>1, <2>1, FollowedStep
  <2>3. before'[l] = before[l]
    <3>1. l \in used /\ l \in Links
      BY <1>1 DEF Inv, TypeOK
    <3>2. CASE \E m \in Node : Connect(m)
      <4>1. PICK k \in Links \ used :
              before' = [e \in Links |-> IF e \in {k, Back(k)} THEN DOMAIN blocks[e[1]]
                                         ELSE before[e]]
        BY <3>2 DEF Connect
      <4>2. l # k /\ l # Back(k)
        BY <3>1, <4>1, LinkFacts DEF Inv, Paired
      <4> QED
        BY <3>1, <4>1, <4>2
    <3>3. CASE ~ \E m \in Node : Connect(m)
      <4>1. UNCHANGED before
        BY <3>3, LinksKept
      <4> QED
        BY <4>1
    <3> QED
      BY <3>2, <3>3
  <2>4. Following(l, asked \cup more)'
    BY <2>2 DEF Followed
  <2>5. Shared(l)' \subseteq asked \cup more
    BY <2>1, <2>2, <2>3 DEF Followed, Shared
  <2> QED
    BY <2>4, <2>5
<1>2. CASE l \notin up
  <2>1. PICK m \in Node : Connect(m)
    <3>1. CASE ~ \E m \in Node : Connect(m)
      <4>1. up' \subseteq up
        BY <3>1, LinksKept
      <4> QED
        BY <1>2, <4>1
    <3> QED
      BY <3>1
  <2>2. PICK k \in Links \ used :
          /\ up' = up \cup {k, Back(k)}
          /\ before' = [e \in Links |-> IF e \in {k, Back(k)} THEN DOMAIN blocks[e[1]]
                                        ELSE before[e]]
    BY <2>1 DEF Connect
  <2>3. l \in {k, Back(k)} /\ l \in Links
    BY <1>2, <2>2, LinkFacts
  <2>4. before'[l] = DOMAIN blocks[l[1]] /\ UNCHANGED blocks
    BY <2>1, <2>2, <2>3 DEF Connect, nodeVars
  <2>5. Shared(l)' = {}
    BY <2>4 DEF Shared
  <2>6. Following(l, {})'
    BY DEF Following
  <2> QED
    BY <2>5, <2>6
<1> QED
  BY <1>1, <1>2

LEMMA AllToldStep == Inv /\ AllTold /\ [Next]_vars => AllTold'
<1> SUFFICES ASSUME Inv, AllTold, [Next]_vars, NEW t \in Thread, peer'[t] = None
             PROVE  new_blocks'[t] = <<>>
  BY DEF AllTold, Idle
<1> USE DEF nodeVars, minerVars, workerVars, linkVars, faultVars
<1>1. peer \in [Thread -> Links \cup {None}] /\ new_blocks \in [Thread -> Seq(Hash)]
  BY DEF Inv, TypeOK
<1>2. peer[t] = None => new_blocks[t] = <<>>
  BY DEF AllTold, Idle
<1>3. CASE UNCHANGED <<peer, new_blocks>>
  BY <1>2, <1>3
<1>4. ASSUME NEW m \in Node, Restart(m) PROVE new_blocks'[t] = <<>>
  <2>1. /\ peer' = [u \in Thread |-> IF u[1] = m THEN None ELSE peer[u]]
        /\ new_blocks' = [u \in Thread |-> IF u[1] = m THEN <<>> ELSE new_blocks[u]]
    BY <1>4 DEF Restart
  <2> QED
    BY <1>2, <2>1
<1>5. ASSUME NEW m \in Node, NEW w \in Worker, Deliver(m, w) PROVE new_blocks'[t] = <<>>
  <2>0. <<m, w>> \in Thread
    BY DEF Thread
  <2>1. PICK u \in Thread : u = <<m, w>>
    BY <2>0
  <2>2. ASSUME NEW l \in Links, HandleBlocks(m, w, l) PROVE new_blocks'[t] = <<>>
    <3>1. peer' = [peer EXCEPT ![u] = l] /\ UNCHANGED new_blocks
      BY <2>1, <2>2 DEF HandleBlocks
    <3> QED
      BY <1>1, <1>2, <3>1, NoneAssumption
  <2>3. CASE StoreBlock(m, w) \/ ReleaseOrphan(m, w)
    <3>1. peer[u] # None
      <4>1. CASE StoreBlock(m, w)
        BY <2>1, <4>1 DEF StoreBlock, AtBlock, Idle
      <4>2. CASE ReleaseOrphan(m, w)
        <5>1. n[u] < Len(new_blocks[u]) /\ n[u] \in Nat
          BY <2>1, <4>2 DEF ReleaseOrphan, Inv, TypeOK
        <5>2. new_blocks[u] # <<>>
          BY <5>1
        <5> QED
          BY <5>2 DEF AllTold, Idle
      <4> QED
        BY <2>3, <4>1, <4>2
    <3>2. UNCHANGED peer /\ \A v \in Thread \ {u} : new_blocks'[v] = new_blocks[v]
      BY <1>1, <2>1, <2>3 DEF StoreBlock, ReleaseOrphan
    <3> QED
      BY <1>2, <3>1, <3>2
  <2>4. CASE Finish(m, w)
    <3>1. /\ peer' = [peer EXCEPT ![u] = None]
          /\ new_blocks' = [new_blocks EXCEPT ![u] = <<>>]
      BY <2>1, <2>4 DEF Finish
    <3> QED
      BY <1>1, <1>2, <3>1
  <2>5. CASE \/ \E l \in Links : HandleNewBlockHashes(m, w, l) \/ HandleGetBlocks(m, w, l)
             \/ SkipKnown(m, w) \/ KeepOrphan(m, w) \/ NextNewBlock(m, w)
    BY <1>3, <2>5 DEF HandleNewBlockHashes, HandleGetBlocks, SkipKnown, KeepOrphan, NextNewBlock
  <2> QED
    BY <1>5, <2>2, <2>3, <2>4, <2>5 DEF Deliver
<1>6. CASE \/ \E l \in Links : Break(l)
           \/ \E m \in Node : \/ Connect(m) \/ ReadTip(m) \/ \E b \in Hash : Mine(m, b)
                              \/ StoreFinished(m) \/ Dispatch(m)
           \/ UNCHANGED vars
  BY <1>3, <1>6 DEF Break, Connect, ReadTip, Mine, StoreFinished, Dispatch, vars
<1> QED
  BY <1>4, <1>5, <1>6 DEF Next

LEMMA CaughtQuiet ==
  ASSUME Inv, AllTold, Quiet, NEW l \in up, NEW asked, Following(l, asked), NEW b \in asked
  PROVE  Stored(l[2], b) \/ (Waits(l[2], b) /\ Parent(b) \in asked)
<1>1. l[1] \in Node /\ l \in Links /\ Back(l) \in Links /\ l # None
  BY UpFacts, NoneAssumption
<1>2. OnItsWay(l, b, asked)
  BY DEF Following
<1>3. ~ Queued(l[1], b)
  BY <1>1 DEF Quiet, Queued
<1>4. ~ Pushed(l[1], b)
  BY DEF Quiet, Pushed, AllTold, In
<1>5. \A type : ~ Carries(l, type, b) /\ ~ Carries(Back(l), type, b)
  BY <1>1 DEF Quiet, Carries, Names
<1>6. ~ Handled(l, b)
  BY <1>1 DEF Quiet, Handled, Idle
<1> QED
  BY <1>2, <1>3, <1>4, <1>5, <1>6 DEF OnItsWay

(* What a node stores while a link is up the other end has when nothing is *)
(* under way, in its chain or in the buffer of a worker: whatever other    *)
(* connections lost, and however the workers share the messages.           *)
THEOREM GossipQuietMeansHeard == Spec => []QuietMeansHeard
<1>1. Init => Caught /\ AllTold
  BY DEF Init, Caught, AllTold
<1>2. Inv /\ Caught /\ AllTold => QuietMeansHeard
  <2> SUFFICES ASSUME Inv, Caught, AllTold, Quiet, NEW l \in up, NEW b \in Shared(l)
               PROVE  b \in DOMAIN blocks[l[2]] \cup Buffered(l[2])
    BY DEF QuietMeansHeard
  <2>1. PICK asked : Following(l, asked) /\ Shared(l) \subseteq asked
    BY DEF Caught
  <2>2. CASE Stored(l[2], b)
    BY <2>2 DEF Stored
  <2>3. CASE Waits(l[2], b)
    <3>1. PICK t \in Thread : t[1] = l[2] /\ In(b, orphan_blocks[t])
      BY <2>3 DEF Waits
    <3>2. PICK w \in Worker : t = <<l[2], w>>
      BY <3>1 DEF Thread
    <3>3. b \in ToSet(orphan_blocks[t])
      <4>1. orphan_blocks[t] \in Seq(Hash)
        BY DEF Inv, TypeOK
      <4> QED
        BY <3>1, <4>1 DEF In, ToSet
    <3> QED
      BY <3>2, <3>3 DEF Buffered
  <2> QED
    BY <2>1, <2>2, <2>3, CaughtQuiet
<1> QED
  BY <1>1, <1>2, CaughtStep, AllToldStep, GossipInv, PTL DEF Spec

-----------------------------------------------------------------------------
(* The heights in a store, each one more than the parent's.                *)
Heights ==
  \A m \in Node : \A b \in DOMAIN blocks[m] :
    /\ blocks[m][b] \in Nat
    /\ b \in Hash => blocks[m][b] = blocks[m][Parent(b)] + 1

LEMMA InsertHeights ==
  ASSUME Inv, Heights, NEW m \in Node, NEW b \in Eligible(m), Insert(m, b)
  PROVE  Heights'
<1>1. /\ b \in Hash /\ Parent(b) \in DOMAIN blocks[m]
      /\ DOMAIN blocks = Node /\ Known(m) \subseteq Eligible(m)
      /\ DOMAIN blocks[m] \subseteq Hash \cup {Genesis}
  BY DEF Eligible, Inv, TypeOK, Stores
<1>2. PICK old : old = blocks[m]
  OBVIOUS
<1>3. PICK new : new = blocks'[m]
  OBVIOUS
<1>4. /\ new = [h \in DOMAIN old \cup {b} |->
                  IF h = b THEN old[Parent(b)] + 1 ELSE old[h]]
      /\ \A k \in Node \ {m} : blocks'[k] = blocks[k]
  BY <1>1, <1>2, <1>3 DEF Insert, BlocksWith
<1>5. /\ \A h \in DOMAIN old : old[h] \in Nat /\ (h \in Hash => old[h] = old[Parent(h)] + 1)
      /\ Parent(b) \in DOMAIN old /\ b \in Hash
      /\ DOMAIN old \subseteq Hash \cup {Genesis}
      /\ \A h \in DOMAIN old : h \in Hash => Parent(h) \in DOMAIN old
  BY <1>1, <1>2 DEF Heights, Known, Eligible
<1>6. b \in DOMAIN old => old[b] = old[Parent(b)] + 1
  BY <1>5
<1>7. ASSUME NEW h \in DOMAIN old PROVE new[h] = old[h]
  BY <1>4, <1>6
<1>8. ASSUME NEW h \in DOMAIN new
      PROVE  new[h] \in Nat /\ (h \in Hash => new[h] = new[Parent(h)] + 1)
  <2>1. CASE h \in DOMAIN old
    BY <1>5, <1>7, <2>1
  <2>2. CASE h = b
    <3>1. new[h] = old[Parent(b)] + 1 /\ old[Parent(b)] \in Nat
      BY <1>4, <1>5, <2>2
    <3>2. new[Parent(b)] = old[Parent(b)]
      BY <1>5, <1>7
    <3> QED
      BY <2>2, <3>1, <3>2
  <2> QED
    BY <1>4, <2>1, <2>2
<1> SUFFICES ASSUME NEW k \in Node, NEW h \in DOMAIN blocks'[k]
             PROVE  /\ blocks'[k][h] \in Nat
                    /\ h \in Hash => blocks'[k][h] = blocks'[k][Parent(h)] + 1
  BY DEF Heights
<1>9. CASE k = m
  BY <1>3, <1>8, <1>9
<1>10. CASE k # m
  <2>1. blocks'[k] = blocks[k]
    BY <1>4, <1>10
  <2> QED
    BY <2>1 DEF Heights
<1> QED
  BY <1>9, <1>10

(* The ways a store changes.                                               *)
LEMMA StoreSteps ==
  ASSUME Inv, [Next]_vars
  PROVE  \/ UNCHANGED blocks
         \/ \E m \in Node : \E b \in Eligible(m) : Insert(m, b)
         \/ \E m \in Node : Restart(m)
<1> USE DEF nodeVars
<1>1. ASSUME NEW m \in Node, NEW w \in Worker, Deliver(m, w)
      PROVE  UNCHANGED blocks \/ \E b \in Eligible(m) : Insert(m, b)
  <2>0. <<m, w>> \in Thread /\ <<m, w>>[1] = m
    BY DEF Thread
  <2>1. PICK t \in Thread : t = <<m, w>> /\ t[1] = m
    BY <2>0
  <2>2. CASE StoreBlock(m, w)
    <3>1. /\ Insert(m, Head(todo[t])) /\ todo[t] # <<>>
          /\ Parent(Head(todo[t])) \in DOMAIN blocks[m]
      BY <2>1, <2>2 DEF StoreBlock, AtBlock
    <3>2. todo[t] \in Seq(Hash)
      BY DEF Inv, TypeOK
    <3> QED
      BY <3>1, <3>2 DEF Eligible
  <2>3. CASE ReleaseOrphan(m, w)
    <3>1. PICK i \in Releasable(t) : Insert(m, orphan_blocks[t][i]) /\ n[t] < Len(new_blocks[t])
      BY <2>1, <2>3 DEF ReleaseOrphan
    <3>2. /\ orphan_blocks[t] \in Seq(Hash) /\ new_blocks[t] \in Seq(Known(m)) /\ n[t] \in Nat
      BY <2>1 DEF Inv, TypeOK, InHand
    <3>3. /\ orphan_blocks[t][i] \in Hash
          /\ Parent(orphan_blocks[t][i]) = new_blocks[t][n[t] + 1]
      BY <3>1, <3>2 DEF Releasable
    <3>4. new_blocks[t][n[t] + 1] \in Known(m)
      BY <3>1, <3>2
    <3> QED
      BY <3>1, <3>3, <3>4 DEF Eligible, Known
  <2>4. ASSUME NEW l \in Links, \/ HandleNewBlockHashes(m, w, l) \/ HandleGetBlocks(m, w, l)
                                \/ HandleBlocks(m, w, l)
        PROVE  UNCHANGED blocks
    BY <2>4 DEF HandleNewBlockHashes, HandleGetBlocks, HandleBlocks
  <2>5. CASE SkipKnown(m, w) \/ KeepOrphan(m, w) \/ NextNewBlock(m, w) \/ Finish(m, w)
    BY <2>5 DEF SkipKnown, KeepOrphan, NextNewBlock, Finish
  <2> QED
    BY <1>1, <2>2, <2>3, <2>4, <2>5 DEF Deliver
<1>2. ASSUME NEW m \in Node, StoreFinished(m) PROVE \E b \in Eligible(m) : Insert(m, b)
  <2>1. finished[m] \in Seq(Eligible(m)) /\ finished[m] # <<>> /\ Insert(m, Head(finished[m]))
    BY <1>2 DEF StoreFinished, Inv, Stores
  <2> QED
    BY <2>1
<1>3. ASSUME \/ \E l \in Links : Break(l)
             \/ \E m \in Node : \/ Connect(m) \/ ReadTip(m) \/ Dispatch(m)
                                \/ \E b \in Hash : Mine(m, b)
             \/ UNCHANGED vars
      PROVE  UNCHANGED blocks
  BY <1>3 DEF Break, Connect, ReadTip, Dispatch, Mine, vars
<1> QED
  BY <1>1, <1>2, <1>3 DEF Next

LEMMA HeightsStep == Inv /\ Heights /\ [Next]_vars => Heights'
<1> SUFFICES ASSUME Inv, Heights, [Next]_vars PROVE Heights'
  OBVIOUS
<1>1. CASE UNCHANGED blocks
  BY <1>1 DEF Heights
<1>2. CASE \E m \in Node : \E b \in Eligible(m) : Insert(m, b)
  BY <1>2, InsertHeights
<1>3. ASSUME NEW m \in Node, Restart(m) PROVE Heights'
  <2>1. /\ blocks'[m] = NewBlocks
        /\ \A k \in Node \ {m} : blocks'[k] = blocks[k]
    BY <1>3 DEF Restart, Inv, TypeOK
  <2> QED
    BY <2>1, BlockAssumption DEF Heights, NewBlocks
<1> QED
  BY <1>1, <1>2, <1>3, StoreSteps

-----------------------------------------------------------------------------
(* A block its finder has yet to store is nowhere else, and no block is    *)
(* built on it.  Told are the blocks that are past that.                   *)
Told == {Genesis} \cup {b \in mined : \A m \in Node : ~ In(b, finished[m])}

Honest == {msg \in Message : msg.type = "Blocks" => msg.hashes \in Seq(Told)}

Finished ==
  /\ \A m \in Node : finished[m] \in Seq(mined)
  /\ \A m, k \in Node : \A i \in 1 .. Len(finished[m]) : \A j \in 1 .. Len(finished[k]) :
       finished[m][i] = finished[k][j] => m = k /\ i = j

OnlyTold ==
  /\ \A m \in Node : DOMAIN blocks[m] \subseteq Told
  /\ \A b \in mined : Parent(b) \in Told
  /\ \A t \in Thread : todo[t] \in Seq(Told) /\ orphan_blocks[t] \in Seq(Told)
  /\ \A l \in Links : chan[l] \in Seq(Honest)

Untold == Finished /\ OnlyTold

(* Every step tells more; storing a finished block tells that block.       *)
LEMMA FinishedSteps ==
  ASSUME Inv, [Next]_vars
  PROVE  \/ UNCHANGED <<finished, mined>>
         \/ \E m \in Node, b \in Hash : Mine(m, b)
         \/ \E m \in Node : Restart(m) \/ StoreFinished(m)
<1> USE DEF minerVars
<1>1. ASSUME NEW m \in Node, NEW w \in Worker, Deliver(m, w) PROVE UNCHANGED <<finished, mined>>
  <2>1. ASSUME NEW l \in Links, \/ HandleNewBlockHashes(m, w, l) \/ HandleGetBlocks(m, w, l)
                                \/ HandleBlocks(m, w, l)
        PROVE  UNCHANGED <<finished, mined>>
    BY <2>1 DEF HandleNewBlockHashes, HandleGetBlocks, HandleBlocks
  <2>2. CASE \/ SkipKnown(m, w) \/ StoreBlock(m, w) \/ KeepOrphan(m, w)
             \/ ReleaseOrphan(m, w) \/ NextNewBlock(m, w) \/ Finish(m, w)
    BY <2>2 DEF SkipKnown, StoreBlock, KeepOrphan, ReleaseOrphan, NextNewBlock, Finish
  <2> QED
    BY <1>1, <2>1, <2>2 DEF Deliver
<1>2. ASSUME \/ \E l \in Links : Break(l)
             \/ \E m \in Node : Connect(m) \/ ReadTip(m) \/ Dispatch(m)
             \/ UNCHANGED vars
      PROVE  UNCHANGED <<finished, mined>>
  BY <1>2 DEF Break, Connect, ReadTip, Dispatch, vars
<1> QED
  BY <1>1, <1>2 DEF Next

LEMMA FinishedStep ==
  ASSUME Inv, Untold, [Next]_vars
  PROVE  /\ Finished'
         /\ Told \subseteq Told'
         /\ \A m \in Node : StoreFinished(m) => Head(finished[m]) \in Told'
<1>1. /\ DOMAIN finished = Node
      /\ \A m \in Node : finished[m] \in Seq(mined) /\ finished[m] \in Seq(Hash)
  BY DEF Untold, Finished, Inv, TypeOK
<1>2. CASE UNCHANGED <<finished, mined>>
  <2>1. Finished' /\ Told' = Told
    BY <1>2 DEF Untold, Finished, Told
  <2>2. ASSUME NEW m \in Node, StoreFinished(m) PROVE FALSE
    <3>1. PICK s \in Seq(mined) : s = finished[m] /\ s # <<>>
      BY <1>1, <2>2 DEF StoreFinished
    <3>2. finished'[m] = Tail(s)
      BY <1>1, <2>2, <3>1 DEF StoreFinished
    <3>3. Len(Tail(s)) = Len(s) - 1 /\ Len(s) \in Nat
      BY <3>1
    <3>4. Tail(s) = s
      BY <1>2, <3>1, <3>2
    <3> QED
      BY <3>3, <3>4
  <2> QED
    BY <2>1, <2>2
<1>3. ASSUME NEW m \in Node, NEW b \in Hash, Mine(m, b)
      PROVE  /\ Finished' /\ Told \subseteq Told' /\ UNCHANGED blocks
  <2>1. PICK s \in Seq(mined) : s = finished[m]
    BY <1>1
  <2>2. /\ b \notin mined /\ mined' = mined \cup {b} /\ UNCHANGED blocks
        /\ finished'[m] = Append(s, b) /\ DOMAIN finished' = Node
        /\ \A k \in Node \ {m} : finished'[k] = finished[k]
    BY <1>1, <1>3, <2>1 DEF Mine, nodeVars
  <2>3. ASSUME NEW k \in Node PROVE finished'[k] \in Seq(mined')
    <3>1. Append(s, b) \in Seq(mined')
      <4>1. s \in Seq(mined') /\ b \in mined'
        BY <2>1, <2>2, SeqMonotone
      <4> QED
        BY <4>1
    <3>2. finished[k] \in Seq(mined')
      BY <1>1, <2>2, SeqMonotone
    <3> QED
      BY <2>2, <3>1, <3>2
  <2>4. /\ Len(s) \in Nat /\ Len(Append(s, b)) = Len(s) + 1 /\ Append(s, b)[Len(s) + 1] = b
        /\ \A i \in 1 .. Len(s) : Append(s, b)[i] = s[i]
    OBVIOUS
  <2>5. ASSUME NEW k \in Node, NEW i \in 1 .. Len(finished'[k])
        PROVE  \/ i \in 1 .. Len(finished[k]) /\ finished'[k][i] = finished[k][i]
               \/ k = m /\ i = Len(s) + 1 /\ finished'[k][i] = b
    <3>1. CASE k # m
      BY <2>2, <3>1
    <3>2. CASE k = m
      <4>1. i \in 1 .. Len(s) + 1 /\ finished'[k] = Append(s, b)
        BY <2>2, <2>4, <3>2
      <4>2. i \in 1 .. Len(s) \/ i = Len(s) + 1
        BY <2>4, <4>1
      <4> QED
        BY <2>1, <2>4, <3>2, <4>1, <4>2
    <3> QED
      BY <3>1, <3>2
  <2>6. \A k \in Node : \A i \in 1 .. Len(finished[k]) : finished[k][i] \in mined
    BY <1>1
  <2>7. ASSUME NEW k1 \in Node, NEW k2 \in Node, NEW i \in 1 .. Len(finished'[k1]),
               NEW j \in 1 .. Len(finished'[k2]), finished'[k1][i] = finished'[k2][j]
        PROVE  k1 = k2 /\ i = j
    <3>1. CASE i \in 1 .. Len(finished[k1]) /\ finished'[k1][i] = finished[k1][i]
      <4>1. finished'[k2][j] # b
        BY <2>2, <2>6, <2>7, <3>1
      <4>2. j \in 1 .. Len(finished[k2]) /\ finished'[k2][j] = finished[k2][j]
        BY <2>5, <4>1
      <4>3. finished[k1][i] = finished[k2][j]
        BY <2>7, <3>1, <4>2
      <4> QED
        BY <3>1, <4>2, <4>3 DEF Untold, Finished
    <3>2. CASE k1 = m /\ i = Len(s) + 1 /\ finished'[k1][i] = b
      <4>1. ~ (j \in 1 .. Len(finished[k2]) /\ finished'[k2][j] = finished[k2][j])
        BY <2>2, <2>6, <2>7, <3>2
      <4> QED
        BY <2>5, <3>2, <4>1
    <3> QED
      BY <2>5, <3>1, <3>2
  <2>8. Finished'
    BY <2>3, <2>7 DEF Finished
  <2>9. ASSUME NEW c \in mined, \A k \in Node : ~ In(c, finished[k])
        PROVE  c \in mined' /\ \A k \in Node : ~ In(c, finished'[k])
    <3>1. ASSUME NEW k \in Node, In(c, finished'[k]) PROVE FALSE
      <4>1. PICK i \in 1 .. Len(finished'[k]) : finished'[k][i] = c
        BY <3>1 DEF In
      <4>2. i \in 1 .. Len(finished[k]) /\ finished[k][i] = c
        BY <2>2, <2>5, <4>1
      <4> QED
        BY <2>9, <4>2 DEF In
    <3> QED
      BY <2>2, <3>1
  <2> QED
    BY <2>2, <2>8, <2>9 DEF Told
<1>4. ASSUME NEW m \in Node, Restart(m)
      PROVE  Finished' /\ Told \subseteq Told'
  <2>1. /\ finished'[m] = <<>> /\ UNCHANGED mined /\ DOMAIN finished' = Node
        /\ \A k \in Node \ {m} : finished'[k] = finished[k]
    BY <1>1, <1>4 DEF Restart
  <2>2. \A k \in Node : \A i \in 1 .. Len(finished'[k]) :
          k # m /\ i \in 1 .. Len(finished[k]) /\ finished'[k][i] = finished[k][i]
    BY <2>1
  <2>3. ASSUME NEW k \in Node PROVE finished'[k] \in Seq(mined')
    <3>1. <<>> \in Seq(mined)
      OBVIOUS
    <3>2. CASE k = m
      BY <2>1, <3>1, <3>2
    <3>3. CASE k # m
      BY <1>1, <2>1, <3>3
    <3> QED
      BY <3>2, <3>3
  <2>4. Finished'
    <3>1. ASSUME NEW k1 \in Node, NEW k2 \in Node, NEW i \in 1 .. Len(finished'[k1]),
                 NEW j \in 1 .. Len(finished'[k2]), finished'[k1][i] = finished'[k2][j]
          PROVE  k1 = k2 /\ i = j
      <4>1. i \in 1 .. Len(finished[k1]) /\ finished'[k1][i] = finished[k1][i]
        BY <2>2
      <4>2. j \in 1 .. Len(finished[k2]) /\ finished'[k2][j] = finished[k2][j]
        BY <2>2
      <4>3. finished[k1][i] = finished[k2][j]
        BY <3>1, <4>1, <4>2
      <4> QED
        BY <4>1, <4>2, <4>3 DEF Untold, Finished
    <3> QED
      BY <2>3, <3>1 DEF Finished
  <2>5. \A k \in Node : \A c : In(c, finished'[k]) => In(c, finished[k])
    BY <2>2 DEF In
  <2> QED
    BY <2>1, <2>4, <2>5 DEF Told
<1>5. ASSUME NEW m \in Node, StoreFinished(m)
      PROVE  Finished' /\ Told \subseteq Told' /\ Head(finished[m]) \in Told'
  <2>1. PICK s \in Seq(mined) : s = finished[m] /\ s # <<>>
    BY <1>1, <1>5 DEF StoreFinished
  <2>2. /\ finished'[m] = Tail(s) /\ UNCHANGED mined /\ DOMAIN finished' = Node
        /\ \A k \in Node \ {m} : finished'[k] = finished[k]
    BY <1>1, <1>5, <2>1 DEF StoreFinished
  <2>3. /\ Len(s) \in Nat /\ Len(Tail(s)) = Len(s) - 1 /\ Tail(s) \in Seq(mined)
        /\ Head(s) = s[1] /\ Head(s) \in mined /\ 1 \in 1 .. Len(s)
        /\ \A i \in 1 .. Len(s) - 1 : i + 1 \in 1 .. Len(s) /\ Tail(s)[i] = s[i + 1]
    BY <2>1
  <2>4. \A k \in Node : finished'[k] \in Seq(mined')
    BY <1>1, <2>2, <2>3
  <2>5. ASSUME NEW k \in Node, NEW i \in 1 .. Len(finished'[k])
        PROVE  /\ i \in Int /\ i >= 1
               /\ k = m => i + 1 \in 1 .. Len(finished[k]) /\ finished'[k][i] = finished[k][i + 1]
               /\ k # m => i \in 1 .. Len(finished[k]) /\ finished'[k][i] = finished[k][i]
    BY <2>1, <2>2, <2>3
  <2>6. Finished'
    <3>1. ASSUME NEW k1 \in Node, NEW k2 \in Node, NEW i \in 1 .. Len(finished'[k1]),
                 NEW j \in 1 .. Len(finished'[k2]), finished'[k1][i] = finished'[k2][j]
          PROVE  k1 = k2 /\ i = j
      <4>1. PICK i1 \in 1 .. Len(finished[k1]) :
              finished[k1][i1] = finished'[k1][i] /\ i1 = IF k1 = m THEN i + 1 ELSE i
        BY <2>5
      <4>2. PICK j1 \in 1 .. Len(finished[k2]) :
              finished[k2][j1] = finished'[k2][j] /\ j1 = IF k2 = m THEN j + 1 ELSE j
        BY <2>5
      <4>3. k1 = k2 /\ i1 = j1
        BY <3>1, <4>1, <4>2 DEF Untold, Finished
      <4> QED
        BY <4>1, <4>2, <4>3
    <3> QED
      BY <2>4, <3>1 DEF Finished
  <2>7. \A k \in Node : \A c : In(c, finished'[k]) => In(c, finished[k])
    BY <2>5 DEF In
  <2>8. ASSUME NEW k \in Node, In(Head(s), finished'[k]) PROVE FALSE
    <3>1. PICK i \in 1 .. Len(finished'[k]) : finished'[k][i] = s[1]
      BY <2>3, <2>8 DEF In
    <3>2. PICK i1 \in 1 .. Len(finished[k]) :
            finished[k][i1] = s[1] /\ i1 = IF k = m THEN i + 1 ELSE i
      BY <2>5, <3>1
    <3>3. k = m /\ i1 = 1
      BY <2>1, <2>3, <3>2 DEF Untold, Finished
    <3> QED
      BY <2>5, <3>2, <3>3
  <2> QED
    BY <2>1, <2>2, <2>3, <2>6, <2>7, <2>8 DEF Told
<1>6. ASSUME NEW m \in Node, StoreFinished(m) PROVE Head(finished[m]) \in Told'
  BY <1>5, <1>6
<1> QED
  BY <1>2, <1>3, <1>4, <1>5, <1>6, FinishedSteps

LEMMA ToldFrame ==
  ASSUME Untold, Told \subseteq Told'
  PROVE  /\ \A m \in Node : DOMAIN blocks[m] \subseteq Told'
         /\ \A b \in mined : Parent(b) \in Told'
         /\ \A t \in Thread : todo[t] \in Seq(Told') /\ orphan_blocks[t] \in Seq(Told')
         /\ \A l \in Links : chan[l] \in Seq(Honest')
<1>1. Seq(Told) \subseteq Seq(Told')
  BY SeqMonotone
<1>2. Honest \subseteq Honest'
  BY <1>1 DEF Honest
<1>3. Seq(Honest) \subseteq Seq(Honest')
  BY <1>2, SeqMonotone
<1> QED
  BY <1>1, <1>3 DEF Untold, OnlyTold

(* The messages of a step: only HandleGetBlocks sends blocks, of its store. *)
LEMMA ToldInStep ==
  ASSUME Inv, Untold, [Next]_vars, Told \subseteq Told', NEW l \in Links
  PROVE  chan'[l] \in Seq(Honest')
<1> USE DEF nodeVars, minerVars, workerVars, linkVars
<1>1. /\ chan[l] \in Seq(Honest') /\ chan \in [Links -> Seq(Message)]
      /\ \A m \in Node : DOMAIN blocks[m] \subseteq Told'
  BY ToldFrame DEF Inv, TypeOK
<1>2. CASE UNCHANGED chan
  BY <1>1, <1>2
<1>3. ASSUME NEW k \in Links, chan[k] # <<>>, NEW messages \in Seq(Honest'), Answered(k, messages)
      PROVE  chan'[l] \in Seq(Honest')
  <2>1. PICK s \in Seq(Honest') : s = chan[l]
    BY <1>1
  <2>2. PICK answer \in Seq(Honest') : answer = Written(Back(k), messages)
    <3>1. <<>> \in Seq(Honest')
      OBVIOUS
    <3>2. Written(Back(k), messages) \in {<<>>, messages}
      BY DEF Written
    <3> QED
      BY <1>3, <3>1, <3>2
  <2>3. Back(k) \in Links /\ Back(k) # k
    BY LinkFacts
  <2>4. chan' = [chan EXCEPT ![k] = Tail(@), ![Back(k)] = @ \o answer]
    BY <1>3, <2>2 DEF Answered
  <2>5. CASE l = k
    <3>1. chan'[l] = Tail(s) /\ s # <<>>
      BY <1>1, <1>3, <2>1, <2>3, <2>4, <2>5
    <3>2. Tail(s) \in Seq(Honest')
      BY <3>1, HeadTailProperties
    <3> QED
      BY <3>1, <3>2
  <2>6. CASE l = Back(k)
    <3>1. chan'[l] = s \o answer
      BY <1>1, <2>1, <2>3, <2>4, <2>6
    <3>2. s \o answer \in Seq(Honest')
      BY <2>1, <2>2
    <3> QED
      BY <3>1, <3>2
  <2>7. CASE l # k /\ l # Back(k)
    BY <1>1, <2>1, <2>4, <2>7
  <2> QED
    BY <2>5, <2>6, <2>7
<1>4. ASSUME NEW msg \in Message, msg.type # "Blocks"
      PROVE  <<>> \in Seq(Honest') /\ <<msg>> \in Seq(Honest')
  <2>1. msg \in Honest'
    BY <1>4 DEF Honest
  <2> QED
    BY <2>1
<1>5. ASSUME NEW m \in Node, NEW w \in Worker, Deliver(m, w)
      PROVE  chan'[l] \in Seq(Honest')
  <2>0. <<m, w>> \in Thread /\ <<m, w>>[1] = m
    BY DEF Thread
  <2>1. PICK t \in Thread : t = <<m, w>> /\ t[1] = m
    BY <2>0
  <2>2. ASSUME NEW k \in Links, HandleNewBlockHashes(m, w, k) PROVE chan'[l] \in Seq(Honest')
    <3>1. PICK wanted : wanted = Unknown(m, Heard(k))
      OBVIOUS
    <3>2. /\ chan[k] # <<>>
          /\ Answered(k, IF wanted = <<>> THEN <<>> ELSE <<GetBlocks(wanted)>>)
      BY <2>2, <3>1 DEF HandleNewBlockHashes, Receives
    <3>3. wanted \in Seq(Hash)
      BY <3>1, <3>2, Received, UnknownSeq
    <3>4. PICK msg \in Message : msg = GetBlocks(wanted) /\ msg.type # "Blocks"
      <4>1. GetBlocks(wanted) \in Message /\ GetBlocks(wanted).type # "Blocks"
        BY <3>3 DEF GetBlocks, Message
      <4> QED
        BY <4>1
    <3>5. (IF wanted = <<>> THEN <<>> ELSE <<GetBlocks(wanted)>>) \in Seq(Honest')
      BY <1>4, <3>4
    <3> QED
      BY <1>3, <3>2, <3>5
  <2>3. ASSUME NEW k \in Links, HandleGetBlocks(m, w, k) PROVE chan'[l] \in Seq(Honest')
    <3>1. PICK hs : hs = Heard(k)
      OBVIOUS
    <3>2. /\ chan[k] # <<>>
          /\ Answered(k, IF ToSet(hs) \subseteq DOMAIN blocks[m] THEN <<Blocks(hs)>> ELSE <<>>)
      BY <2>3, <3>1 DEF HandleGetBlocks, Receives
    <3>3. hs \in Seq(Hash)
      BY <3>1, <3>2, Received
    <3>4. ASSUME ToSet(hs) \subseteq DOMAIN blocks[m] PROVE <<Blocks(hs)>> \in Seq(Honest')
      <4>1. ToSet(hs) \subseteq Told'
        BY <1>1, <3>4
      <4>2. hs \in Seq(Told')
        BY <3>3, <4>1 DEF ToSet
      <4>3. Blocks(hs) \in Honest'
        BY <3>3, <4>2 DEF Honest, Message, Blocks
      <4> QED
        BY <4>3
    <3>5. <<>> \in Seq(Honest')
      OBVIOUS
    <3>6. (IF ToSet(hs) \subseteq DOMAIN blocks[m] THEN <<Blocks(hs)>> ELSE <<>>) \in Seq(Honest')
      BY <3>4, <3>5
    <3> QED
      BY <1>3, <3>2, <3>6
  <2>4. ASSUME NEW k \in Links, HandleBlocks(m, w, k) PROVE chan'[l] \in Seq(Honest')
    <3>1. chan[k] # <<>> /\ Answered(k, <<>>)
      BY <2>4 DEF HandleBlocks, Receives
    <3>2. <<>> \in Seq(Honest')
      OBVIOUS
    <3> QED
      BY <1>3, <3>1, <3>2
  <2>5. CASE KeepOrphan(m, w)
    <3>1. PICK b : b = Head(todo[t])
      OBVIOUS
    <3>2. PICK back : back = Back(peer[t])
      OBVIOUS
    <3>3. /\ todo[t] # <<>> /\ peer[t] # None /\ Parent(b) \notin DOMAIN blocks[m]
          /\ chan' = [chan EXCEPT ![back] = @ \o Written(back, <<GetBlocks(<<Parent(b)>>)>>)]
      BY <2>1, <2>5, <3>1, <3>2 DEF KeepOrphan, AtBlock, Idle
    <3>4. peer[t] \in Links
      BY <3>3 DEF Inv, TypeOK
    <3>5. Written(back, <<GetBlocks(<<Parent(b)>>)>>) \in Seq(Honest')
      <4>1. CASE back \in up
        <5>1. PICK k \in up : k = peer[t]
          BY <3>2, <3>4, <4>1, LinkFacts DEF Inv, Paired
        <5>2. Parent(b) \in Hash
          BY <2>1, <3>1, <3>3, <5>1, ParentAsked
        <5>3. PICK msg \in Message : msg = GetBlocks(<<Parent(b)>>) /\ msg.type # "Blocks"
          <6>1. GetBlocks(<<Parent(b)>>) \in Message /\ GetBlocks(<<Parent(b)>>).type # "Blocks"
            BY <5>2 DEF GetBlocks, Message
          <6> QED
            BY <6>1
        <5>4. Written(back, <<GetBlocks(<<Parent(b)>>)>>) = <<msg>>
          BY <4>1, <5>3 DEF Written
        <5> QED
          BY <1>4, <5>3, <5>4
      <4>2. CASE back \notin up
        <5>1. Written(back, <<GetBlocks(<<Parent(b)>>)>>) = <<>> /\ <<>> \in Seq(Honest')
          BY <4>2 DEF Written
        <5> QED
          BY <5>1
      <4> QED
        BY <4>1, <4>2
    <3>6. PICK written \in Seq(Honest') : written = Written(back, <<GetBlocks(<<Parent(b)>>)>>)
      BY <3>5
    <3>7. CASE l = back
      <4>1. chan'[l] = chan[l] \o written
        BY <1>1, <3>3, <3>6, <3>7
      <4>2. chan[l] \o written \in Seq(Honest')
        BY <1>1
      <4> QED
        BY <4>1, <4>2
    <3>8. CASE l # back
      BY <1>1, <3>3, <3>8
    <3> QED
      BY <3>7, <3>8
  <2>6. CASE \/ SkipKnown(m, w) \/ StoreBlock(m, w) \/ ReleaseOrphan(m, w)
             \/ NextNewBlock(m, w) \/ Finish(m, w)
    BY <1>2, <2>6 DEF SkipKnown, StoreBlock, ReleaseOrphan, NextNewBlock, Finish
  <2> QED
    BY <1>5, <2>2, <2>3, <2>4, <2>5, <2>6 DEF Deliver
<1>6. ASSUME NEW k \in Links, Break(k) PROVE chan'[l] \in Seq(Honest')
  <2>1. PICK cut \in Cuts({k, Back(k)}) :
          chan' = [j \in Links |-> IF j \in {k, Back(k)} THEN cut[j] ELSE chan[j]]
    BY <1>6 DEF Break
  <2>2. l \in {k, Back(k)} => cut[l] \in Seq(Honest')
    BY <1>1, CutsFacts
  <2> QED
    BY <1>1, <2>1, <2>2
<1>7. ASSUME NEW m \in Node, Restart(m) PROVE chan'[l] \in Seq(Honest')
  <2>1. PICK cut \in Cuts({k \in up : k[1] = m}) :
          chan' = [j \in Links |-> CASE j[2] = m -> <<>>
                                      [] j[1] = m /\ j \in up -> cut[j]
                                      [] OTHER -> chan[j]]
    BY <1>7 DEF Restart
  <2>2. l[1] = m /\ l \in up => cut[l] \in Seq(Honest')
    BY <1>1, CutsFacts
  <2>3. <<>> \in Seq(Honest')
    OBVIOUS
  <2> QED
    BY <1>1, <2>1, <2>2, <2>3
<1>8. ASSUME NEW m \in Node, Dispatch(m) PROVE chan'[l] \in Seq(Honest')
  <2>1. PICK hs \in Seq(Hash) : hs = Head(control_chan[m])
    BY <1>8 DEF Dispatch, Inv, TypeOK
  <2>2. PICK msg \in Message : msg = NewBlockHashes(hs) /\ msg.type # "Blocks"
    <3>1. NewBlockHashes(hs) \in Message /\ NewBlockHashes(hs).type # "Blocks"
      BY <2>1 DEF NewBlockHashes, Message
    <3> QED
      BY <3>1
  <2>3. msg \in Honest'
    BY <2>2 DEF Honest
  <2>4. Append(chan[l], msg) \in Seq(Honest')
    BY <1>1, <2>3
  <2>5. chan' = [j \in Links |-> IF j[1] = m /\ j \in up THEN Append(chan[j], msg) ELSE chan[j]]
    BY <1>8, <2>1, <2>2 DEF Dispatch
  <2> QED
    BY <1>1, <2>4, <2>5
<1>9. CASE \/ \E m \in Node : \/ Connect(m) \/ ReadTip(m) \/ StoreFinished(m)
                              \/ \E b \in Hash : Mine(m, b)
           \/ UNCHANGED vars
  BY <1>2, <1>9 DEF Connect, ReadTip, StoreFinished, Mine, vars
<1> QED
  BY <1>5, <1>6, <1>7, <1>8, <1>9 DEF Next

LEMMA ToldStored ==
  ASSUME Inv, Untold, [Next]_vars, Told \subseteq Told',
         \A m \in Node : StoreFinished(m) => Head(finished[m]) \in Told',
         NEW k \in Node
  PROVE  DOMAIN blocks'[k] \subseteq Told'
<1> USE DEF nodeVars
<1>1. /\ DOMAIN blocks[k] \subseteq Told' /\ DOMAIN blocks = Node
      /\ \A t \in Thread : todo[t] \in Seq(Told') /\ orphan_blocks[t] \in Seq(Told')
  BY ToldFrame DEF Inv, TypeOK
<1>2. CASE UNCHANGED blocks
  BY <1>1, <1>2
<1>3. ASSUME NEW m \in Node, NEW b \in Told', Insert(m, b) PROVE DOMAIN blocks'[k] \subseteq Told'
  <2>1. /\ DOMAIN blocks'[m] = DOMAIN blocks[m] \cup {b}
        /\ \A j \in Node \ {m} : blocks'[j] = blocks[j]
    BY <1>1, <1>3 DEF Insert, BlocksWith
  <2> QED
    BY <1>1, <2>1
<1>4. ASSUME NEW m \in Node, NEW w \in Worker, Deliver(m, w)
      PROVE  DOMAIN blocks'[k] \subseteq Told'
  <2>0. <<m, w>> \in Thread
    BY DEF Thread
  <2>1. PICK t \in Thread : t = <<m, w>>
    BY <2>0
  <2>2. CASE StoreBlock(m, w)
    <3>1. Insert(m, Head(todo[t])) /\ todo[t] # <<>>
      BY <2>1, <2>2 DEF StoreBlock, AtBlock
    <3>2. Head(todo[t]) \in Told'
      BY <1>1, <3>1
    <3> QED
      BY <1>3, <3>1, <3>2
  <2>3. CASE ReleaseOrphan(m, w)
    <3>1. PICK i \in Releasable(t) : Insert(m, orphan_blocks[t][i])
      BY <2>1, <2>3 DEF ReleaseOrphan
    <3>2. orphan_blocks[t][i] \in Told'
      BY <1>1 DEF Releasable
    <3> QED
      BY <1>3, <3>1, <3>2
  <2>4. ASSUME NEW l \in Links, \/ HandleNewBlockHashes(m, w, l) \/ HandleGetBlocks(m, w, l)
                                \/ HandleBlocks(m, w, l)
        PROVE  UNCHANGED blocks
    BY <2>4 DEF HandleNewBlockHashes, HandleGetBlocks, HandleBlocks
  <2>5. CASE SkipKnown(m, w) \/ KeepOrphan(m, w) \/ NextNewBlock(m, w) \/ Finish(m, w)
    BY <1>2, <2>5 DEF SkipKnown, KeepOrphan, NextNewBlock, Finish
  <2> QED
    BY <1>2, <1>4, <2>2, <2>3, <2>4, <2>5 DEF Deliver
<1>5. ASSUME NEW m \in Node, StoreFinished(m) PROVE DOMAIN blocks'[k] \subseteq Told'
  <2>1. Insert(m, Head(finished[m])) /\ Head(finished[m]) \in Told'
    BY <1>5 DEF StoreFinished
  <2> QED
    BY <1>3, <2>1
<1>6. ASSUME NEW m \in Node, Restart(m) PROVE DOMAIN blocks'[k] \subseteq Told'
  <2>1. /\ blocks'[m] = NewBlocks
        /\ \A j \in Node \ {m} : blocks'[j] = blocks[j]
    BY <1>1, <1>6 DEF Restart
  <2>2. DOMAIN NewBlocks = {Genesis} /\ Genesis \in Told'
    BY DEF NewBlocks, Told
  <2> QED
    BY <1>1, <2>1, <2>2
<1>7. CASE \/ \E l \in Links : Break(l)
           \/ \E m \in Node : \/ Connect(m) \/ ReadTip(m) \/ Dispatch(m)
                              \/ \E b \in Hash : Mine(m, b)
           \/ UNCHANGED vars
  BY <1>2, <1>7 DEF Break, Connect, ReadTip, Dispatch, Mine, vars
<1> QED
  BY <1>4, <1>5, <1>6, <1>7 DEF Next

LEMMA ToldInHand ==
  ASSUME Inv, Untold, [Next]_vars, Told \subseteq Told', NEW t \in Thread
  PROVE  todo'[t] \in Seq(Told') /\ orphan_blocks'[t] \in Seq(Told')
<1> USE DEF workerVars
<1>1. /\ todo[t] \in Seq(Told') /\ orphan_blocks[t] \in Seq(Told')
      /\ todo \in [Thread -> Seq(Hash)] /\ orphan_blocks \in [Thread -> Seq(Hash)]
      /\ <<>> \in Seq(Told')
  BY ToldFrame DEF Inv, TypeOK
<1>2. CASE UNCHANGED <<todo, orphan_blocks>>
  BY <1>1, <1>2
<1>3. ASSUME NEW m \in Node, NEW w \in Worker, Deliver(m, w)
      PROVE  todo'[t] \in Seq(Told') /\ orphan_blocks'[t] \in Seq(Told')
  <2>0. <<m, w>> \in Thread
    BY DEF Thread
  <2>1. PICK u \in Thread : u = <<m, w>>
    BY <2>0
  <2>2. ASSUME NEW l \in Links, HandleBlocks(m, w, l)
        PROVE  todo'[t] \in Seq(Told') /\ orphan_blocks'[t] \in Seq(Told')
    <3>1. /\ chan[l] # <<>> /\ Head(chan[l]).type = "Blocks"
          /\ todo' = [todo EXCEPT ![u] = Heard(l)] /\ UNCHANGED orphan_blocks
      BY <2>1, <2>2 DEF HandleBlocks, Receives
    <3>2. chan[l] \in Seq(Honest')
      BY ToldFrame
    <3>3. Head(chan[l]) \in Honest'
      BY <3>1, <3>2
    <3>4. Heard(l) \in Seq(Told')
      BY <3>1, <3>3 DEF Honest, Heard
    <3> QED
      BY <1>1, <3>1, <3>4
  <2>3. ASSUME todo[u] # <<>> PROVE Head(todo[u]) \in Told' /\ Tail(todo[u]) \in Seq(Told')
    <3>1. todo[u] \in Seq(Told')
      BY ToldFrame
    <3> QED
      BY <2>3, <3>1, HeadTailProperties
  <2>4. CASE SkipKnown(m, w) \/ StoreBlock(m, w)
    <3>1. todo[u] # <<>> /\ todo' = [todo EXCEPT ![u] = Tail(@)] /\ UNCHANGED orphan_blocks
      BY <2>1, <2>4 DEF SkipKnown, StoreBlock, AtBlock
    <3> QED
      BY <1>1, <2>3, <3>1
  <2>5. CASE KeepOrphan(m, w)
    <3>1. /\ todo[u] # <<>> /\ todo' = [todo EXCEPT ![u] = Tail(@)]
          /\ orphan_blocks' = [orphan_blocks EXCEPT ![u] = Append(@, Head(todo[u]))]
      BY <2>1, <2>5 DEF KeepOrphan, AtBlock
    <3>2. PICK b \in Told' : b = Head(todo[u])
      BY <2>3, <3>1
    <3>3. Append(orphan_blocks[t], b) \in Seq(Told')
      BY <1>1
    <3> QED
      BY <1>1, <2>3, <3>1, <3>2, <3>3
  <2>6. CASE ReleaseOrphan(m, w)
    <3>1. PICK i \in Releasable(u) :
            orphan_blocks' = [orphan_blocks EXCEPT ![u] = RemoveAt(@, i)] /\ UNCHANGED todo
      BY <2>1, <2>6 DEF ReleaseOrphan
    <3>2. orphan_blocks[u] \in Seq(Told')
      BY ToldFrame
    <3>3. RemoveAt(orphan_blocks[u], i) \in Seq(Told')
      BY <3>2, RemoveAtSeq DEF Releasable
    <3> QED
      BY <1>1, <3>1, <3>3
  <2>7. ASSUME NEW l \in Links, HandleNewBlockHashes(m, w, l) \/ HandleGetBlocks(m, w, l)
        PROVE  UNCHANGED <<todo, orphan_blocks>>
    BY <2>7 DEF HandleNewBlockHashes, HandleGetBlocks
  <2>8. CASE NextNewBlock(m, w) \/ Finish(m, w)
    BY <1>2, <2>8 DEF NextNewBlock, Finish
  <2> QED
    BY <1>2, <1>3, <2>2, <2>4, <2>5, <2>6, <2>7, <2>8 DEF Deliver
<1>4. ASSUME NEW m \in Node, Restart(m)
      PROVE  todo'[t] \in Seq(Told') /\ orphan_blocks'[t] \in Seq(Told')
  <2>1. /\ todo' = [u \in Thread |-> IF u[1] = m THEN <<>> ELSE todo[u]]
        /\ orphan_blocks' = [u \in Thread |-> IF u[1] = m THEN <<>> ELSE orphan_blocks[u]]
    BY <1>4 DEF Restart
  <2> QED
    BY <1>1, <2>1
<1>5. CASE \/ \E l \in Links : Break(l)
           \/ \E m \in Node : \/ Connect(m) \/ ReadTip(m) \/ Dispatch(m) \/ StoreFinished(m)
                              \/ \E b \in Hash : Mine(m, b)
           \/ UNCHANGED vars
  BY <1>2, <1>5 DEF Break, Connect, ReadTip, Dispatch, StoreFinished, Mine, vars
<1> QED
  BY <1>3, <1>4, <1>5 DEF Next

LEMMA UntoldStep == Inv /\ Untold /\ [Next]_vars => Untold'
<1> SUFFICES ASSUME Inv, Untold, [Next]_vars PROVE Untold'
  OBVIOUS
<1>1. /\ Finished' /\ Told \subseteq Told'
      /\ \A m \in Node : StoreFinished(m) => Head(finished[m]) \in Told'
  BY FinishedStep
<1>2. ASSUME NEW b \in mined' PROVE Parent(b) \in Told'
  <2>1. \A c \in mined : Parent(c) \in Told'
    BY <1>1, ToldFrame
  <2>2. CASE b \notin mined
    <3>1. PICK m \in Node : Mine(m, b)
      <4>1. ~ UNCHANGED <<finished, mined>>
        BY <2>2
      <4>2. \A m \in Node : Restart(m) \/ StoreFinished(m) => UNCHANGED mined
        BY DEF Restart, StoreFinished
      <4>3. \A m \in Node, c \in Hash : Mine(m, c) => mined' = mined \cup {c}
        BY DEF Mine
      <4> QED
        BY <2>2, <4>1, <4>2, <4>3, FinishedSteps
    <3>2. Parent(b) \in DOMAIN blocks[m]
      BY <3>1 DEF Mine, Inv, TypeOK
    <3> QED
      BY <1>1, <3>2, ToldFrame
  <2> QED
    BY <2>1, <2>2
<1>3. OnlyTold'
  BY <1>1, <1>2, ToldInStep, ToldStored, ToldInHand DEF OnlyTold
<1> QED
  BY <1>1, <1>3 DEF Untold

LEMMA UntoldInit == Init => Untold
<1> SUFFICES ASSUME Init PROVE Untold
  OBVIOUS
<1>1. Finished
  BY DEF Init, Finished
<1>2. \A m \in Node : DOMAIN blocks[m] \subseteq Told
  BY DEF Init, NewBlocks, Told
<1> QED
  BY <1>1, <1>2 DEF Init, Untold, OnlyTold

(* So no block waits for one that its finder has yet to store.             *)
LEMMA NoneWaitsForFinished ==
  ASSUME Inv, Untold, NEW m \in Node, finished[m] # <<>>,
         NEW t \in Thread, NEW b, In(b, orphan_blocks[t])
  PROVE  Parent(b) # Head(finished[m])
<1>1. b \in Told /\ b \in Hash
  BY InEnds DEF Untold, OnlyTold, Inv, TypeOK
<1>2. Parent(b) \in Told
  BY <1>1, BlockAssumption DEF Told, Untold, OnlyTold
<1>3. finished[m] \in Seq(Hash)
  BY DEF Inv, TypeOK
<1>4. In(Head(finished[m]), finished[m]) /\ Head(finished[m]) # Genesis
  BY <1>3, InEnds, BlockAssumption
<1> QED
  BY <1>2, <1>4 DEF Told

-----------------------------------------------------------------------------
(* One worker: an orphan in its buffer whose parent is stored hangs on a   *)
(* pushed block whose orphans are still to be released.                    *)
OneWorker == \A v, w \in Worker : v = w

Awaited(t, c) == \E j \in n[t] + 1 .. Len(new_blocks[t]) : new_blocks[t][j] = c

OrphansWait ==
  \A t \in Thread : \A b :
    In(b, orphan_blocks[t]) /\ Parent(b) \in DOMAIN blocks[t[1]] => Awaited(t, Parent(b))

LEMMA OrphansWaitFrame ==
  ASSUME OrphansWait, UNCHANGED <<orphan_blocks, blocks, new_blocks, n>>
  PROVE  OrphansWait'
BY DEF OrphansWait, Awaited

LEMMA OrphansWaitPush ==
  ASSUME OneWorker, Inv, OrphansWait, NEW m \in Node, NEW t \in Thread, t[1] = m,
         NEW b \in Hash, Insert(m, b),
         new_blocks' = [new_blocks EXCEPT ![t] = Append(@, b)], UNCHANGED n,
         \A u \in Thread : \A c : In(c, orphan_blocks'[u]) => In(c, orphan_blocks[u])
  PROVE  OrphansWait'
<1> SUFFICES ASSUME NEW u \in Thread, NEW c, In(c, orphan_blocks'[u]),
                    Parent(c) \in DOMAIN blocks'[u[1]]
             PROVE  Awaited(u, Parent(c))'
  BY DEF OrphansWait
<1>1. /\ DOMAIN blocks'[m] = DOMAIN blocks[m] \cup {b}
      /\ \A k \in Node \ {m} : blocks'[k] = blocks[k]
  BY InsertDomain
<1>2. PICK s \in Seq(Hash) : s = new_blocks[t]
  BY DEF Inv, TypeOK
<1>3. /\ new_blocks'[t] = Append(s, b) /\ \A v \in Thread \ {t} : new_blocks'[v] = new_blocks[v]
      /\ n[t] \in Nat /\ n[t] <= Len(s)
  BY <1>2 DEF Inv, TypeOK
<1>4. /\ Len(s) \in Nat /\ Len(Append(s, b)) = Len(s) + 1 /\ Append(s, b)[Len(s) + 1] = b
      /\ \A i \in 1 .. Len(s) : Append(s, b)[i] = s[i]
  OBVIOUS
<1>5. CASE u = t
  <2>1. CASE Parent(c) = b
    <3>1. Len(s) + 1 \in n[t] + 1 .. Len(Append(s, b))
      BY <1>3, <1>4
    <3> QED
      BY <1>3, <1>4, <1>5, <2>1, <3>1 DEF Awaited
  <2>2. CASE Parent(c) # b
    <3>1. Awaited(t, Parent(c))
      BY <1>1, <1>5, <2>2 DEF OrphansWait
    <3>2. PICK j \in n[t] + 1 .. Len(s) : s[j] = Parent(c)
      BY <1>2, <3>1 DEF Awaited
    <3>3. j \in n[t] + 1 .. Len(Append(s, b)) /\ Append(s, b)[j] = Parent(c)
      BY <1>3, <1>4, <3>2
    <3> QED
      BY <1>3, <1>5, <3>3 DEF Awaited
  <2> QED
    BY <2>1, <2>2
<1>6. CASE u # t
  <2>1. u[1] # m /\ u[1] \in Node
    BY <1>6 DEF OneWorker, Thread
  <2>2. Awaited(u, Parent(c))
    BY <1>1, <2>1 DEF OrphansWait
  <2> QED
    BY <1>3, <1>6, <2>2 DEF Awaited
<1> QED
  BY <1>5, <1>6

LEMMA OrphansWaitStep ==
  ASSUME OneWorker PROVE Inv /\ Untold /\ OrphansWait /\ [Next]_vars => OrphansWait'
<1> SUFFICES ASSUME Inv, Untold, OrphansWait, [Next]_vars PROVE OrphansWait'
  OBVIOUS
<1> USE DEF nodeVars, workerVars
<1>1. ASSUME NEW m \in Node, NEW w \in Worker, Deliver(m, w) PROVE OrphansWait'
  <2>0. <<m, w>> \in Thread /\ <<m, w>>[1] = m
    BY DEF Thread
  <2>1. PICK t \in Thread : t = <<m, w>> /\ t[1] = m
    BY <2>0
  <2>2. CASE StoreBlock(m, w)
    <3>1. /\ todo[t] # <<>> /\ Insert(m, Head(todo[t]))
          /\ new_blocks' = [new_blocks EXCEPT ![t] = Append(@, Head(todo[t]))]
          /\ UNCHANGED <<n, orphan_blocks>>
      BY <2>1, <2>2 DEF StoreBlock, AtBlock
    <3>2. Head(todo[t]) \in Hash
      BY <3>1 DEF Inv, TypeOK
    <3>3. PICK b \in Hash : b = Head(todo[t])
      BY <3>2
    <3> QED
      BY <2>1, <3>1, <3>3, OrphansWaitPush
  <2>3. CASE ReleaseOrphan(m, w)
    <3>1. PICK s \in Seq(Hash) : s = orphan_blocks[t]
      BY DEF Inv, TypeOK
    <3>2. PICK i \in Releasable(t) :
            /\ Insert(m, s[i])
            /\ new_blocks' = [new_blocks EXCEPT ![t] = Append(@, s[i])]
            /\ orphan_blocks' = [orphan_blocks EXCEPT ![t] = RemoveAt(@, i)]
            /\ UNCHANGED n
      BY <2>1, <2>3, <3>1 DEF ReleaseOrphan
    <3>3. i \in 1 .. Len(s) /\ s[i] \in Hash
      BY <3>1 DEF Releasable
    <3>4. \A u \in Thread : \A c : In(c, orphan_blocks'[u]) => In(c, orphan_blocks[u])
      <4>1. /\ orphan_blocks'[t] = RemoveAt(s, i)
            /\ \A u \in Thread \ {t} : orphan_blocks'[u] = orphan_blocks[u]
        BY <3>1, <3>2 DEF Inv, TypeOK
      <4>2. \A c : In(c, RemoveAt(s, i)) => In(c, s)
        BY <3>3, InRemoved
      <4> QED
        BY <3>1, <4>1, <4>2
    <3>5. PICK b \in Hash : b = s[i]
      BY <3>3
    <3> QED
      BY <2>1, <3>2, <3>4, <3>5, OrphansWaitPush
  <2>4. CASE KeepOrphan(m, w)
    <3>1. PICK s \in Seq(Hash) : s = orphan_blocks[t]
      BY DEF Inv, TypeOK
    <3>2. PICK b : b = Head(todo[t])
      OBVIOUS
    <3>3. /\ todo[t] # <<>> /\ Parent(b) \notin DOMAIN blocks[m]
          /\ orphan_blocks' = [orphan_blocks EXCEPT ![t] = Append(@, b)]
          /\ UNCHANGED <<blocks, new_blocks, n>>
      BY <2>1, <2>4, <3>2 DEF KeepOrphan, AtBlock
    <3>4. /\ orphan_blocks'[t] = Append(s, b)
          /\ \A u \in Thread \ {t} : orphan_blocks'[u] = orphan_blocks[u]
      BY <3>1, <3>3 DEF Inv, TypeOK
    <3>5. \A c : In(c, Append(s, b)) => In(c, s) \/ c = b
      BY InEnds
    <3>6. ASSUME NEW u \in Thread, NEW c, In(c, orphan_blocks'[u]),
                 Parent(c) \in DOMAIN blocks[u[1]]
          PROVE  Awaited(u, Parent(c))
      <4>1. ~ (u = t /\ c = b)
        BY <2>1, <3>3, <3>6
      <4>2. In(c, orphan_blocks[u])
        BY <3>1, <3>4, <3>5, <3>6, <4>1
      <4> QED
        BY <3>6, <4>2 DEF OrphansWait
    <3> QED
      BY <3>3, <3>6 DEF OrphansWait, Awaited
  <2>5. CASE NextNewBlock(m, w)
    <3>1. /\ n[t] < Len(new_blocks[t]) /\ Releasable(t) = {} /\ n' = [n EXCEPT ![t] = @ + 1]
          /\ UNCHANGED <<blocks, orphan_blocks, new_blocks>>
      BY <2>1, <2>5 DEF NextNewBlock
    <3>2. /\ n \in [Thread -> Nat] /\ orphan_blocks[t] \in Seq(Hash)
          /\ new_blocks[t] \in Seq(Hash)
      BY DEF Inv, TypeOK
    <3>3. ASSUME NEW b, In(b, orphan_blocks[t]), Awaited(t, Parent(b))
          PROVE  Awaited(t, Parent(b))'
      <4>1. PICK j \in n[t] + 1 .. Len(new_blocks[t]) : new_blocks[t][j] = Parent(b)
        BY <3>3 DEF Awaited
      <4>2. j # n[t] + 1
        BY <3>1, <3>2, <3>3, <4>1 DEF Releasable, In
      <4>3. n'[t] = n[t] + 1 /\ n[t] \in Nat /\ Len(new_blocks[t]) \in Nat
        BY <3>1, <3>2
      <4>4. j \in n'[t] + 1 .. Len(new_blocks[t])
        BY <4>1, <4>2, <4>3
      <4> QED
        BY <3>1, <4>1, <4>4 DEF Awaited
    <3>4. ASSUME NEW u \in Thread \ {t}, NEW c PROVE Awaited(u, c)' <=> Awaited(u, c)
      BY <3>1, <3>2 DEF Awaited
    <3> QED
      BY <3>1, <3>3, <3>4 DEF OrphansWait
  <2>6. CASE Finish(m, w)
    <3>1. /\ n[t] = Len(new_blocks[t])
          /\ n' = [n EXCEPT ![t] = 0] /\ new_blocks' = [new_blocks EXCEPT ![t] = <<>>]
          /\ UNCHANGED <<blocks, orphan_blocks>>
      BY <2>1, <2>6 DEF Finish
    <3>2. n[t] \in Nat
      BY DEF Inv, TypeOK
    <3>3. \A c : ~ Awaited(t, c)
      BY <3>1, <3>2 DEF Awaited
    <3>4. ASSUME NEW u \in Thread \ {t}, NEW c PROVE Awaited(u, c)' <=> Awaited(u, c)
      <4>1. n'[u] = n[u] /\ new_blocks'[u] = new_blocks[u]
        BY <3>1 DEF Inv, TypeOK
      <4> QED
        BY <4>1 DEF Awaited
    <3> QED
      BY <3>1, <3>3, <3>4 DEF OrphansWait
  <2>7. ASSUME NEW l \in Links, \/ HandleNewBlockHashes(m, w, l) \/ HandleGetBlocks(m, w, l)
                                \/ HandleBlocks(m, w, l)
        PROVE  OrphansWait'
    BY <2>7, OrphansWaitFrame DEF HandleNewBlockHashes, HandleGetBlocks, HandleBlocks
  <2>8. CASE SkipKnown(m, w)
    BY <2>8, OrphansWaitFrame DEF SkipKnown
  <2> QED
    BY <1>1, <2>2, <2>3, <2>4, <2>5, <2>6, <2>7, <2>8 DEF Deliver
<1>2. ASSUME NEW m \in Node, StoreFinished(m) PROVE OrphansWait'
  <2>1. PICK b : b = Head(finished[m])
    OBVIOUS
  <2>2. /\ finished[m] # <<>> /\ Insert(m, b)
        /\ UNCHANGED <<orphan_blocks, new_blocks, n>>
    BY <1>2, <2>1 DEF StoreFinished
  <2>3. /\ DOMAIN blocks'[m] = DOMAIN blocks[m] \cup {b}
        /\ \A k \in Node \ {m} : blocks'[k] = blocks[k]
    BY <2>2, InsertDomain
  <2> SUFFICES ASSUME NEW t \in Thread, NEW c, In(c, orphan_blocks[t]),
                      Parent(c) \in DOMAIN blocks'[t[1]]
               PROVE  Awaited(t, Parent(c))
    BY <2>2 DEF OrphansWait, Awaited
  <2>4. Parent(c) # b
    BY <2>1, <2>2, NoneWaitsForFinished
  <2>5. Parent(c) \in DOMAIN blocks[t[1]]
    BY <2>3, <2>4 DEF Thread
  <2> QED
    BY <2>5 DEF OrphansWait
<1>3. ASSUME NEW m \in Node, Restart(m) PROVE OrphansWait'
  <2>1. /\ orphan_blocks' = [t \in Thread |-> IF t[1] = m THEN <<>> ELSE orphan_blocks[t]]
        /\ new_blocks' = [t \in Thread |-> IF t[1] = m THEN <<>> ELSE new_blocks[t]]
        /\ n' = [t \in Thread |-> IF t[1] = m THEN 0 ELSE n[t]]
        /\ blocks' = [blocks EXCEPT ![m] = NewBlocks]
    BY <1>3 DEF Restart
  <2> SUFFICES ASSUME NEW t \in Thread, NEW c, In(c, orphan_blocks'[t]),
                      Parent(c) \in DOMAIN blocks'[t[1]]
               PROVE  Awaited(t, Parent(c))'
    BY DEF OrphansWait
  <2>2. t[1] # m
    BY <2>1 DEF In
  <2>3. /\ orphan_blocks'[t] = orphan_blocks[t] /\ new_blocks'[t] = new_blocks[t]
        /\ n'[t] = n[t] /\ blocks'[t[1]] = blocks[t[1]]
    BY <2>1, <2>2
  <2> QED
    BY <2>3 DEF OrphansWait, Awaited
<1>4. CASE \/ \E l \in Links : Break(l)
           \/ \E m \in Node : \/ Connect(m) \/ ReadTip(m) \/ Dispatch(m)
                              \/ \E b \in Hash : Mine(m, b)
           \/ UNCHANGED vars
  BY <1>4, OrphansWaitFrame DEF Break, Connect, ReadTip, Dispatch, Mine, vars
<1> QED
  BY <1>1, <1>2, <1>3, <1>4 DEF Next

-----------------------------------------------------------------------------
(* While nothing breaks, the parent of an orphan is on its way too.        *)
Unbroken ==
  breaks + restarts = 0 =>
    /\ up = used
    /\ \A t \in Thread : \A b : In(b, orphan_blocks[t]) =>
         \E l \in up : l[2] = t[1] /\ \E asked : Following(l, asked) /\ Parent(b) \in asked

LEMMA FaultsCounted ==
  ASSUME Inv, [Next]_vars, breaks' + restarts' = 0
  PROVE  /\ breaks + restarts = 0
         /\ \A l \in Links : ~ Break(l)
         /\ \A m \in Node : ~ Restart(m)
         /\ used' \ used = up' \ up /\ up \subseteq up'
<1> USE DEF linkVars, faultVars
<1>1. breaks \in Nat /\ restarts \in Nat
  BY GossipAssumption DEF Inv, TypeOK
<1>2. \A l \in Links : ~ Break(l)
  BY <1>1 DEF Break
<1>3. \A m \in Node : ~ Restart(m)
  BY <1>1 DEF Restart
<1>4. CASE UNCHANGED linkVars
  BY <1>2, <1>3, <1>4
<1>5. ASSUME NEW m \in Node, Connect(m) PROVE used' \ used = up' \ up /\ up \subseteq up'
                                              /\ UNCHANGED faultVars
  <2>1. PICK l \in Links \ used : /\ up' = up \cup {l, Back(l)}
                                  /\ used' = used \cup {l, Back(l)}
    BY <1>5 DEF Connect
  <2>2. up \subseteq used /\ Back(l) \notin used
    BY LinkFacts DEF Inv, TypeOK, Paired
  <2> QED
    BY <1>5, <2>1, <2>2 DEF Connect
<1>6. ASSUME NEW m \in Node, NEW w \in Worker, Deliver(m, w) PROVE UNCHANGED linkVars
  <2>1. ASSUME NEW l \in Links, \/ HandleNewBlockHashes(m, w, l) \/ HandleGetBlocks(m, w, l)
                                \/ HandleBlocks(m, w, l)
        PROVE  UNCHANGED linkVars
    BY <2>1 DEF HandleNewBlockHashes, HandleGetBlocks, HandleBlocks
  <2>2. CASE \/ SkipKnown(m, w) \/ StoreBlock(m, w) \/ KeepOrphan(m, w)
             \/ ReleaseOrphan(m, w) \/ NextNewBlock(m, w) \/ Finish(m, w)
    BY <2>2 DEF SkipKnown, StoreBlock, KeepOrphan, ReleaseOrphan, NextNewBlock, Finish
  <2> QED
    BY <1>6, <2>1, <2>2 DEF Deliver
<1>7. CASE \/ \E m \in Node : \/ ReadTip(m) \/ Dispatch(m) \/ StoreFinished(m)
                              \/ \E b \in Hash : Mine(m, b)
           \/ UNCHANGED vars
  BY <1>4, <1>7 DEF ReadTip, Dispatch, StoreFinished, Mine, vars
<1> QED
  BY <1>2, <1>3, <1>4, <1>5, <1>6, <1>7 DEF Next

(* The buffers grow by the orphan a worker keeps, and by nothing else.     *)
LEMMA OrphansGrow ==
  ASSUME Inv, [Next]_vars, NEW t \in Thread, NEW b, In(b, orphan_blocks'[t])
  PROVE  \/ In(b, orphan_blocks[t])
         \/ \E m \in Node, w \in Worker :
              KeepOrphan(m, w) /\ t = <<m, w>> /\ b = Head(todo[t])
<1> USE DEF workerVars
<1>1. orphan_blocks \in [Thread -> Seq(Hash)]
  BY DEF Inv, TypeOK
<1>2. CASE UNCHANGED orphan_blocks
  BY <1>2
<1>3. ASSUME NEW m \in Node, NEW w \in Worker, Deliver(m, w)
      PROVE  \/ In(b, orphan_blocks[t])
             \/ KeepOrphan(m, w) /\ t = <<m, w>> /\ b = Head(todo[t])
  <2>0. <<m, w>> \in Thread
    BY DEF Thread
  <2>1. PICK u \in Thread : u = <<m, w>>
    BY <2>0
  <2>2. PICK s \in Seq(Hash) : s = orphan_blocks[u]
    BY <1>1
  <2>3. CASE KeepOrphan(m, w)
    <3>1. PICK c : c = Head(todo[u])
      OBVIOUS
    <3>2. orphan_blocks' = [orphan_blocks EXCEPT ![u] = Append(@, c)]
      BY <2>1, <2>3, <3>1 DEF KeepOrphan
    <3>3. /\ orphan_blocks'[u] = Append(s, c)
          /\ \A v \in Thread \ {u} : orphan_blocks'[v] = orphan_blocks[v]
      BY <1>1, <2>2, <3>2
    <3>4. \A d : In(d, Append(s, c)) => In(d, s) \/ d = c
      BY InEnds
    <3> QED
      BY <2>1, <2>2, <2>3, <3>1, <3>3, <3>4
  <2>4. CASE ReleaseOrphan(m, w)
    <3>1. PICK i \in Releasable(u) : orphan_blocks' = [orphan_blocks EXCEPT ![u] = RemoveAt(@, i)]
      BY <2>1, <2>4 DEF ReleaseOrphan
    <3>2. /\ orphan_blocks'[u] = RemoveAt(s, i) /\ i \in 1 .. Len(s)
          /\ \A v \in Thread \ {u} : orphan_blocks'[v] = orphan_blocks[v]
      BY <1>1, <2>2, <3>1 DEF Releasable
    <3>3. \A d : In(d, RemoveAt(s, i)) => In(d, s)
      BY <3>2, InRemoved
    <3> QED
      BY <2>2, <3>2, <3>3
  <2>5. ASSUME NEW l \in Links, \/ HandleNewBlockHashes(m, w, l) \/ HandleGetBlocks(m, w, l)
                                \/ HandleBlocks(m, w, l)
        PROVE  UNCHANGED orphan_blocks
    BY <2>5 DEF HandleNewBlockHashes, HandleGetBlocks, HandleBlocks
  <2>6. CASE SkipKnown(m, w) \/ StoreBlock(m, w) \/ NextNewBlock(m, w) \/ Finish(m, w)
    BY <1>2, <2>6 DEF SkipKnown, StoreBlock, NextNewBlock, Finish
  <2> QED
    BY <1>2, <1>3, <2>3, <2>4, <2>5, <2>6 DEF Deliver
<1>4. ASSUME NEW m \in Node, Restart(m) PROVE In(b, orphan_blocks[t])
  <2>1. orphan_blocks' = [u \in Thread |-> IF u[1] = m THEN <<>> ELSE orphan_blocks[u]]
    BY <1>4 DEF Restart
  <2> QED
    BY <2>1 DEF In
<1>5. CASE \/ \E l \in Links : Break(l)
           \/ \E m \in Node : \/ Connect(m) \/ ReadTip(m) \/ Dispatch(m) \/ StoreFinished(m)
                              \/ \E c \in Hash : Mine(m, c)
           \/ UNCHANGED vars
  BY <1>2, <1>5 DEF Break, Connect, ReadTip, Dispatch, StoreFinished, Mine, vars
<1> QED
  BY <1>3, <1>4, <1>5 DEF Next

LEMMA UnbrokenStep == Inv /\ Unbroken /\ [Next]_vars => Unbroken'
<1> SUFFICES ASSUME Inv, Unbroken, [Next]_vars, breaks' + restarts' = 0
             PROVE  /\ up' = used'
                    /\ \A t \in Thread : \A b : In(b, orphan_blocks'[t]) =>
                         \E l \in up' : /\ l[2] = t[1]
                                        /\ \E asked : Following(l, asked)' /\ Parent(b) \in asked
  BY DEF Unbroken
<1>1. /\ up = used /\ up \subseteq up' /\ used' \ used = up' \ up
      /\ \A t \in Thread : \A b : In(b, orphan_blocks[t]) =>
           \E l \in up : l[2] = t[1] /\ \E asked : Following(l, asked) /\ Parent(b) \in asked
  BY FaultsCounted DEF Unbroken
<1>2. Inv'
  BY GossipStep
<1>3. up' = used'
  <2>1. up' \subseteq used'
    BY <1>2 DEF Inv, TypeOK
  <2>2. used' \subseteq up'
    BY <1>1
  <2> QED
    BY <2>1, <2>2
<1>4. ASSUME NEW t \in Thread, NEW b, In(b, orphan_blocks'[t])
      PROVE  \E l \in up' : /\ l[2] = t[1]
                            /\ \E asked : Following(l, asked)' /\ Parent(b) \in asked
  <2>1. CASE In(b, orphan_blocks[t])
    <3>1. PICK l \in up : l[2] = t[1] /\ \E asked : Following(l, asked) /\ Parent(b) \in asked
      BY <1>1, <2>1
    <3>2. PICK asked : Following(l, asked) /\ Parent(b) \in asked
      BY <3>1
    <3>3. l \in up'
      BY <1>1
    <3>4. PICK more : Followed(l, asked, more)
      BY <3>2, <3>3, FollowedStep
    <3>5. Following(l, asked \cup more)'
      BY <3>4 DEF Followed
    <3> QED
      BY <3>1, <3>2, <3>3, <3>5
  <2>2. ASSUME NEW m \in Node, NEW w \in Worker, KeepOrphan(m, w), t = <<m, w>>,
               b = Head(todo[t])
        PROVE  \E l \in up' : /\ l[2] = t[1]
                              /\ \E asked : Following(l, asked)' /\ Parent(b) \in asked
    <3>1. peer[t] # None
      BY <2>2 DEF KeepOrphan, AtBlock, Idle
    <3>2. peer[t] \in used /\ peer[t][2] = t[1]
      BY <3>1 DEF Inv, InHand
    <3>3. PICK l \in up : l = peer[t] /\ l[2] = t[1]
      BY <1>1, <3>2
    <3>4. Following(l, {})
      BY DEF Following
    <3>5. PICK more : Followed(l, {}, more) /\ Parent(b) \in more
      BY <2>2, <3>3, <3>4, FollowedByKeepOrphan
    <3>6. Following(l, {} \cup more)'
      BY <3>5 DEF Followed
    <3>7. l \in up' /\ Parent(b) \in {} \cup more
      BY <1>1, <3>5
    <3> QED
      BY <3>3, <3>6, <3>7
  <2> QED
    BY <1>4, <2>1, <2>2, OrphansGrow
<1> QED
  BY <1>3, <1>4

-----------------------------------------------------------------------------
(* Induction over the naturals, for a set of them instead of a predicate.  *)
LEMMA NatMin ==
  ASSUME NEW T, T \subseteq Nat, T # {}
  PROVE  \E m \in T : \A k \in T : m <= k
<1>1. PICK m \in T : \A k \in T : ~ (<<k, m>> \in OpToRel(<, Nat))
  BY WFMin, NatLessThanWellFounded
<1>2. \A k \in T : ~ (k < m)
  BY <1>1 DEF OpToRel
<1> QED
  BY <1>2

(* In the end what is on its way is stored: the lowest block of those that *)
(* are not would wait for a lower one.                                     *)
LEMMA FollowedStored ==
  ASSUME Inv, AllTold, Heights, OrphansWait, Quiet, NEW l \in up, NEW asked,
         Following(l, asked)
  PROVE  asked \subseteq DOMAIN blocks[l[2]]
<1> SUFFICES ASSUME asked \ DOMAIN blocks[l[2]] # {} PROVE FALSE
  OBVIOUS
<1>1. l[1] \in Node /\ l[2] \in Node
  BY UpFacts
<1>2. PICK height : height = blocks[l[1]]
  OBVIOUS
<1>3. PICK missing : missing = asked \ DOMAIN blocks[l[2]]
  OBVIOUS
<1>4. /\ missing # {} /\ missing \subseteq DOMAIN height
      /\ DOMAIN height \subseteq Hash \cup {Genesis} /\ Genesis \notin missing
  BY <1>1, <1>2, <1>3 DEF Following, Inv, TypeOK, Stores
<1>5. \A b \in missing : height[b] \in Nat /\ height[b] = height[Parent(b)] + 1
  BY <1>1, <1>2, <1>4 DEF Heights
<1>6. ASSUME NEW b \in missing PROVE Parent(b) \in missing
  <2>1. ~ Stored(l[2], b)
    BY <1>3 DEF Stored
  <2>2. Waits(l[2], b) /\ Parent(b) \in asked
    BY <1>3, <2>1, CaughtQuiet
  <2>3. PICK t \in Thread : t[1] = l[2] /\ In(b, orphan_blocks[t])
    BY <2>2 DEF Waits
  <2>4. ~ Awaited(t, Parent(b))
    <3>1. new_blocks[t] = <<>> /\ n[t] \in Nat
      BY DEF Quiet, AllTold, Inv, TypeOK
    <3> QED
      BY <3>1 DEF Awaited
  <2>5. Parent(b) \notin DOMAIN blocks[l[2]]
    BY <2>3, <2>4 DEF OrphansWait
  <2> QED
    BY <1>3, <2>2, <2>5
<1>7. PICK low \in {height[b] : b \in missing} : \A k \in {height[b] : b \in missing} : low <= k
  <2>1. {height[b] : b \in missing} \subseteq Nat /\ {height[b] : b \in missing} # {}
    BY <1>4, <1>5
  <2> QED
    BY <2>1, NatMin
<1>8. PICK b \in missing : height[b] = low
  BY <1>7
<1>9. Parent(b) \in missing /\ height[Parent(b)] \in Nat /\ low = height[Parent(b)] + 1
  BY <1>5, <1>6, <1>8
<1>10. low <= height[Parent(b)]
  BY <1>7, <1>9
<1> QED
  BY <1>9, <1>10

(* With one worker per node, when nothing is under way the other end of a  *)
(* live link has all that was stored since, in its chain; and an orphan    *)
(* still waits only where a connection broke or a node was restarted.      *)
THEOREM GossipQuietMeansAgreed ==
  ASSUME OneWorker
  PROVE  Spec => []QuietMeansAgreed
<1>1. Init => Caught /\ AllTold /\ Heights /\ Untold /\ OrphansWait /\ Unbroken
  <2> SUFFICES ASSUME Init PROVE Caught /\ AllTold /\ Heights /\ OrphansWait /\ Unbroken
    BY UntoldInit
  <2>1. Heights
    BY BlockAssumption DEF Init, Heights, NewBlocks
  <2>2. \A t \in Thread : \A b : ~ In(b, orphan_blocks[t])
    BY DEF Init, In
  <2> QED
    BY <2>1, <2>2 DEF Init, Caught, AllTold, OrphansWait, Unbroken
<1>2. ASSUME Inv, Caught, AllTold, Heights, OrphansWait, Unbroken PROVE QuietMeansAgreed
  <2> SUFFICES ASSUME Quiet
               PROVE  /\ \A l \in up : Shared(l) \subseteq DOMAIN blocks[l[2]]
                      /\ \A t \in Thread : \A b \in ToSet(orphan_blocks[t]) :
                           Parent(b) \notin DOMAIN blocks[t[1]] /\ breaks + restarts > 0
    BY DEF QuietMeansAgreed
  <2>1. ASSUME NEW l \in up PROVE Shared(l) \subseteq DOMAIN blocks[l[2]]
    <3>1. PICK asked : Following(l, asked) /\ Shared(l) \subseteq asked
      BY <1>2 DEF Caught
    <3> QED
      BY <1>2, <3>1, FollowedStored
  <2>2. ASSUME NEW t \in Thread, NEW b \in ToSet(orphan_blocks[t])
        PROVE  Parent(b) \notin DOMAIN blocks[t[1]] /\ breaks + restarts > 0
    <3>1. In(b, orphan_blocks[t])
      <4>1. orphan_blocks[t] \in Seq(Hash)
        BY <1>2 DEF Inv, TypeOK
      <4> QED
        BY <4>1 DEF In, ToSet
    <3>2. Parent(b) \notin DOMAIN blocks[t[1]]
      <4>1. new_blocks[t] = <<>> /\ n[t] \in Nat
        BY <1>2 DEF Quiet, AllTold, Inv, TypeOK
      <4>2. ~ Awaited(t, Parent(b))
        BY <4>1 DEF Awaited
      <4> QED
        BY <1>2, <3>1, <4>2 DEF OrphansWait
    <3>3. ASSUME breaks + restarts = 0 PROVE FALSE
      <4>1. PICK l \in up : l[2] = t[1] /\ \E asked : Following(l, asked) /\ Parent(b) \in asked
        BY <1>2, <3>1, <3>3 DEF Unbroken
      <4>2. PICK asked : Following(l, asked) /\ Parent(b) \in asked
        BY <4>1
      <4>3. asked \subseteq DOMAIN blocks[l[2]]
        BY <1>2, <4>2, FollowedStored
      <4> QED
        BY <3>2, <4>1, <4>2, <4>3
    <3>4. breaks \in Nat /\ restarts \in Nat
      BY <1>2, GossipAssumption DEF Inv, TypeOK
    <3> QED
      BY <3>2, <3>3, <3>4
  <2> QED
    BY <2>1, <2>2
<1>3. Inv /\ Caught /\ AllTold /\ Heights /\ OrphansWait /\ Unbroken => QuietMeansAgreed
  BY <1>2
<1>4. Inv /\ Untold /\ OrphansWait /\ [Next]_vars => OrphansWait'
  BY OrphansWaitStep
<1> QED
  BY <1>1, <1>3, <1>4, CaughtStep, AllToldStep, HeightsStep, UntoldStep, UnbrokenStep,
     GossipInv, PTL DEF Spec
=============================================================================
