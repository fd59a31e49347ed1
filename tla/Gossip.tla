------------------------------- MODULE Gossip -------------------------------
(***************************************************************************)
(* How blocks travel between nodes: the handlers of NewBlockHashes,        *)
(* GetBlocks and Blocks in network/worker.rs, the announcements of the     *)
(* miner worker, and the server task that turns a broadcast into one write *)
(* per peer (network/server.rs).                                           *)
(*                                                                         *)
(* Module Node has the critical sections of a single node apart; here the  *)
(* check and insertion of one block are one step, and every block is valid *)
(* where its parent is known.  A connection may break at any time, and a   *)
(* node may stop and be started again: nothing it had is on disk.          *)
(***************************************************************************)
EXTENDS Blockchain

CONSTANTS
  Node,        \* the nodes
  KnownPeers,  \* [Node -> Seq(Node)], the peers a node is started with (-c)
  Worker,      \* the network worker threads of each node (p2p_workers)
  MinedBy,     \* [Hash -> Node], who may find which block
  None,        \* no peer: the worker is between messages
  MaxMined,    \* bound of the model: blocks found in all
  MaxBreaks,   \* bound of the model: connections that break
  MaxRestarts  \* bound of the model: nodes that stop and start again

ASSUME GossipAssumption ==
  /\ KnownPeers \in [Node -> Seq(Node)]
  /\ \A m \in Node : m \notin ToSet(KnownPeers[m])
  /\ MinedBy \in [Hash -> Node]
  /\ {MaxMined, MaxBreaks, MaxRestarts} \subseteq Nat

(* A link is one direction of one connection: from a node, to a node, and  *)
(* which of the connections between the two it belongs to.                 *)
Links ==
  {l \in Node \X Node \X (1 .. 1 + MaxRestarts) :
     l[1] \in ToSet(KnownPeers[l[2]]) \/ l[2] \in ToSet(KnownPeers[l[1]])}

Back(l) == <<l[2], l[1], l[3]>>

ASSUME NoneAssumption == None \notin Links

VARIABLES
  \* of a node
  blocks,          \* [Node -> Blockchain::blocks]
  tip,             \* [Node -> Blockchain::tip]
  miner_tip,       \* [Node -> the tip in the header the miner hashes]
  finished,        \* [Node -> finished_block_chan]
  \* of a worker of a node
  orphan_blocks,   \* [Node \X Worker -> OrphanBuffer]
  todo,            \* the blocks of its message still to be looked at
  peer,            \* the link to their sender, None between messages
  new_blocks,      \* the hashes inserted while handling it
  n,               \* how many of them have had their orphans released
  \* of the network
  control_chan,    \* [Node -> hash lists broadcast() has queued]
  dialed,          \* [Node -> how many of its known peers it has connected to]
  up,              \* the links whose connection is alive
  chan,            \* [Links -> messages written and not yet received]
  \* history
  used,            \* the links of all connections so far
  before,          \* [Links -> what the first end had when they connected]
  mined,           \* the blocks found
  breaks, restarts \* how often a connection broke, a node was restarted

nodeVars   == <<blocks, tip>>
minerVars  == <<miner_tip, finished>>
workerVars == <<orphan_blocks, todo, peer, new_blocks, n>>
faultVars  == <<breaks, restarts>>
linkVars   == <<dialed, up, used, before, faultVars>>
vars == <<nodeVars, minerVars, workerVars, control_chan, chan, linkVars, mined>>

Thread == Node \X Worker

NewBlockHashes(hs) == [type |-> "NewBlockHashes", hashes |-> hs]
GetBlocks(hs)      == [type |-> "GetBlocks", hashes |-> hs]
Blocks(hs)         == [type |-> "Blocks", hashes |-> hs]

Message == [type : {"NewBlockHashes", "GetBlocks", "Blocks"}, hashes : Seq(Hash)]

TypeOK ==
  /\ DOMAIN blocks = Node /\ DOMAIN tip = Node /\ DOMAIN miner_tip = Node
  /\ \A m \in Node : /\ DOMAIN blocks[m] \subseteq Hash \cup {Genesis}
                     /\ tip[m] \in DOMAIN blocks[m]
                     /\ miner_tip[m] \in DOMAIN blocks[m]
  /\ finished \in [Node -> Seq(Hash)]
  /\ orphan_blocks \in [Thread -> Seq(Hash)]
  /\ todo \in [Thread -> Seq(Hash)]
  /\ peer \in [Thread -> Links \cup {None}]
  /\ new_blocks \in [Thread -> Seq(Hash)]
  /\ n \in [Thread -> Nat]
  /\ \A t \in Thread : n[t] <= Len(new_blocks[t])
  /\ control_chan \in [Node -> Seq(Seq(Hash))]
  /\ \A m \in Node : dialed[m] \in 0 .. Len(KnownPeers[m])
  /\ up \subseteq used
  /\ used \subseteq Links
  /\ chan \in [Links -> Seq(Message)]
  /\ before \in [Links -> SUBSET (Hash \cup {Genesis})]
  /\ mined \subseteq Hash
  /\ breaks \in 0 .. MaxBreaks
  /\ restarts \in 0 .. MaxRestarts

Init ==
  /\ blocks = [m \in Node |-> NewBlocks]
  /\ tip = [m \in Node |-> Genesis]
  /\ miner_tip = [m \in Node |-> Genesis]
  /\ finished = [m \in Node |-> <<>>]
  /\ orphan_blocks = [t \in Thread |-> <<>>]
  /\ todo = [t \in Thread |-> <<>>]
  /\ peer = [t \in Thread |-> None]
  /\ new_blocks = [t \in Thread |-> <<>>]
  /\ n = [t \in Thread |-> 0]
  /\ control_chan = [m \in Node |-> <<>>]
  /\ dialed = [m \in Node |-> 0]
  /\ up = {}
  /\ used = {}
  /\ chan = [l \in Links |-> <<>>]
  /\ before = [l \in Links |-> {}]
  /\ mined = {}
  /\ breaks = 0
  /\ restarts = 0

Insert(m, b) ==
  /\ blocks' = [blocks EXCEPT ![m] = BlocksWith(@, b)]
  /\ tip' = [tip EXCEPT ![m] = TipWith(blocks[m], @, b)]

Broadcast(m, hs) == control_chan' = [control_chan EXCEPT ![m] = Append(@, hs)]

-----------------------------------------------------------------------------
(* The start-up thread of m connects to its known peers in turn, each      *)
(* once, trying again until it succeeds; both ends register the other.     *)
(* Nothing is sent: a node hears of what its new peer already has only     *)
(* through later blocks.                                                   *)
Connect(m) ==
  /\ dialed[m] < Len(KnownPeers[m])
  /\ dialed' = [dialed EXCEPT ![m] = @ + 1]
  /\ \E l \in Links \ used :
       LET ends == {l, Back(l)} IN
       /\ l[1] = m
       /\ l[2] = KnownPeers[m][dialed[m] + 1]
       /\ \A i \in 1 .. l[3] - 1 : <<l[1], l[2], i>> \in used
       /\ up' = up \cup ends
       /\ used' = used \cup ends
       /\ before' = [e \in Links |-> IF e \in ends THEN DOMAIN blocks[e[1]] ELSE before[e]]
  /\ UNCHANGED <<nodeVars, minerVars, workerVars, control_chan, chan, mined, faultVars>>

(* A connection breaks.  Each end still receives some of what the other    *)
(* wrote to it, and nothing written from now on; nobody connects again.    *)
Cuts(ls) ==
  {cut \in [ls -> UNION {Prefixes(chan[l]) : l \in ls}] :
     \A l \in ls : cut[l] \in Prefixes(chan[l])}

Break(l) ==
  /\ breaks < MaxBreaks
  /\ l \in up
  /\ \E cut \in Cuts({l, Back(l)}) :
       chan' = [k \in Links |-> IF k \in {l, Back(l)} THEN cut[k] ELSE chan[k]]
  /\ up' = up \ {l, Back(l)}
  /\ breaks' = breaks + 1
  /\ UNCHANGED <<nodeVars, minerVars, workerVars, control_chan, dialed, used,
                 before, mined, restarts>>

(* The process of m ends, with its connections, and is started again: the  *)
(* chain holds the genesis block, and the known peers are connected to     *)
(* anew.  Peers receive some of what m had written to them.                *)
Restart(m) ==
  /\ restarts < MaxRestarts
  /\ blocks' = [blocks EXCEPT ![m] = NewBlocks]
  /\ tip' = [tip EXCEPT ![m] = Genesis]
  /\ miner_tip' = [miner_tip EXCEPT ![m] = Genesis]
  /\ finished' = [finished EXCEPT ![m] = <<>>]
  /\ LET Reset(f, v) == [t \in Thread |-> IF t[1] = m THEN v ELSE f[t]]
     IN  /\ orphan_blocks' = Reset(orphan_blocks, <<>>)
         /\ todo' = Reset(todo, <<>>)
         /\ peer' = Reset(peer, None)
         /\ new_blocks' = Reset(new_blocks, <<>>)
         /\ n' = Reset(n, 0)
  /\ control_chan' = [control_chan EXCEPT ![m] = <<>>]
  /\ dialed' = [dialed EXCEPT ![m] = 0]
  /\ up' = {l \in up : m \notin {l[1], l[2]}}
  /\ \E cut \in Cuts({l \in up : l[1] = m}) :
       chan' = [l \in Links |-> CASE l[2] = m -> <<>>
                                   [] l[1] = m /\ l \in up -> cut[l]
                                   [] OTHER -> chan[l]]
  /\ restarts' = restarts + 1
  /\ UNCHANGED <<used, before, mined, breaks>>

(* The miner reads the tip for a header, and sends the block it finds to   *)
(* the miner worker.                                                       *)
ReadTip(m) ==
  /\ miner_tip[m] # tip[m]
  /\ miner_tip' = [miner_tip EXCEPT ![m] = tip[m]]
  /\ UNCHANGED <<nodeVars, finished, workerVars, control_chan, chan,
                 linkVars, mined>>

MineAnnounced(m, b) ==   \* mutant of the next: told to the peers before it is stored
  /\ MinedBy[b] = m
  /\ b \notin mined
  /\ Cardinality(mined) < MaxMined
  /\ Parent(b) = miner_tip[m]
  /\ mined' = mined \cup {b}
  /\ finished' = [finished EXCEPT ![m] = Append(@, b)]
  /\ Broadcast(m, <<b>>)
  /\ UNCHANGED <<nodeVars, miner_tip, workerVars, chan, linkVars>>

Mine(m, b) ==
  /\ MinedBy[b] = m
  /\ b \notin mined
  /\ Cardinality(mined) < MaxMined
  /\ Parent(b) = miner_tip[m]
  /\ mined' = mined \cup {b}
  /\ finished' = [finished EXCEPT ![m] = Append(@, b)]
  /\ UNCHANGED <<nodeVars, miner_tip, workerVars, control_chan, chan,
                 linkVars>>

StoreFinishedSilently(m) ==   \* mutant of the next: no broadcast
  /\ finished[m] # <<>>
  /\ finished' = [finished EXCEPT ![m] = Tail(@)]
  /\ Insert(m, Head(finished[m]))
  /\ UNCHANGED <<miner_tip, workerVars, control_chan, chan, linkVars, mined>>

(* The miner worker inserts a finished block and broadcasts its hash.      *)
StoreFinished(m) ==
  /\ finished[m] # <<>>
  /\ finished' = [finished EXCEPT ![m] = Tail(@)]
  /\ Insert(m, Head(finished[m]))
  /\ Broadcast(m, <<Head(finished[m])>>)
  /\ UNCHANGED <<miner_tip, workerVars, chan, linkVars, mined>>

(* The server task takes a BroadcastMessage and writes it to every peer.   *)
Dispatch(m) ==
  /\ control_chan[m] # <<>>
  /\ control_chan' = [control_chan EXCEPT ![m] = Tail(@)]
  /\ chan' = [l \in Links |-> IF l[1] = m /\ l \in up
                              THEN Append(chan[l], NewBlockHashes(Head(control_chan[m])))
                              ELSE chan[l]]
  /\ UNCHANGED <<nodeVars, minerVars, workerVars, linkVars, mined>>

-----------------------------------------------------------------------------
(* A worker at recv() takes the next message of some link l to its node.   *)
(* Its answer, if any, goes to the link's other end before the worker is   *)
(* back at recv(); on a broken connection it is lost.                      *)
Idle(t) == peer[t] = None

Receives(m, w, l, type) ==
  /\ Idle(<<m, w>>)
  /\ l[2] = m
  /\ chan[l] # <<>>
  /\ Head(chan[l]).type = type

Heard(l) == Head(chan[l]).hashes

Written(l, messages) == IF l \in up THEN messages ELSE <<>>

Answered(l, messages) ==
  chan' = [chan EXCEPT ![l] = Tail(@),
                       ![Back(l)] = @ \o Written(Back(l), messages)]

(* The hashes m does not know, in their order: the k-th is at the place    *)
(* that has k of them up to it.                                            *)
Unknown(m, hs) ==
  LET wanted == {i \in DOMAIN hs : hs[i] \notin DOMAIN blocks[m]}
  IN  [k \in 1 .. Cardinality(wanted) |->
         hs[CHOOSE i \in wanted : Cardinality({j \in wanted : j <= i}) = k]]

RelayHeard(m, w, l) ==   \* mutant of the next: passes on what it hears
  /\ Receives(m, w, l, "NewBlockHashes")
  /\ LET wanted == Unknown(m, Heard(l))
     IN  Answered(l, IF wanted = <<>> THEN <<>> ELSE <<GetBlocks(wanted)>>)
  /\ Broadcast(m, Heard(l))
  /\ UNCHANGED <<nodeVars, minerVars, workerVars, linkVars, mined>>

HandleNewBlockHashes(m, w, l) ==
  /\ Receives(m, w, l, "NewBlockHashes")
  /\ LET wanted == Unknown(m, Heard(l))
     IN  Answered(l, IF wanted = <<>> THEN <<>> ELSE <<GetBlocks(wanted)>>)
  /\ UNCHANGED <<nodeVars, minerVars, workerVars, control_chan, linkVars, mined>>

(* All the blocks asked for, or no answer at all.                          *)
HandleGetBlocks(m, w, l) ==
  /\ Receives(m, w, l, "GetBlocks")
  /\ Answered(l, IF ToSet(Heard(l)) \subseteq DOMAIN blocks[m]
                 THEN <<Blocks(Heard(l))>> ELSE <<>>)
  /\ UNCHANGED <<nodeVars, minerVars, workerVars, control_chan, linkVars, mined>>

HandleBlocks(m, w, l) ==
  /\ Receives(m, w, l, "Blocks")
  /\ Answered(l, <<>>)
  /\ todo' = [todo EXCEPT ![<<m, w>>] = Heard(l)]
  /\ peer' = [peer EXCEPT ![<<m, w>>] = l]
  /\ UNCHANGED <<nodeVars, minerVars, orphan_blocks, new_blocks, n,
                 control_chan, linkVars, mined>>

-----------------------------------------------------------------------------
(* The loop over the blocks of a message: a thread t = <<m, w>> looks at   *)
(* the next one when every orphan its last one could release is released.  *)
AtBlock(t) ==
  /\ ~ Idle(t)
  /\ n[t] = Len(new_blocks[t])
  /\ todo[t] # <<>>

SkipKnown(m, w) ==
  LET t == <<m, w>> IN
  /\ AtBlock(t)
  /\ Head(todo[t]) \in DOMAIN blocks[m]
  /\ todo' = [todo EXCEPT ![t] = Tail(@)]
  /\ UNCHANGED <<nodeVars, minerVars, orphan_blocks, peer, new_blocks, n,
                 control_chan, chan, linkVars, mined>>

StoreBlock(m, w) ==
  LET t == <<m, w>>
      next == Head(todo[t]) IN
  /\ AtBlock(t)
  /\ next \notin DOMAIN blocks[m]
  /\ Parent(next) \in DOMAIN blocks[m]
  /\ Insert(m, next)
  /\ new_blocks' = [new_blocks EXCEPT ![t] = Append(@, next)]
  /\ todo' = [todo EXCEPT ![t] = Tail(@)]
  /\ UNCHANGED <<minerVars, orphan_blocks, peer, n, control_chan, chan,
                 linkVars, mined>>

KeepOrphanAnnounced(m, w) ==   \* mutant of the next: an orphan is pushed too
  LET t == <<m, w>>
      next == Head(todo[t]) IN
  /\ AtBlock(t)
  /\ next \notin DOMAIN blocks[m]
  /\ Parent(next) \notin DOMAIN blocks[m]
  /\ orphan_blocks' = [orphan_blocks EXCEPT ![t] = Append(@, next)]
  /\ new_blocks' = [new_blocks EXCEPT ![t] = Append(@, next)]
  /\ LET back == Back(peer[t])
     IN  chan' = [chan EXCEPT ![back] = @ \o Written(back, <<GetBlocks(<<Parent(next)>>)>>)]
  /\ todo' = [todo EXCEPT ![t] = Tail(@)]
  /\ UNCHANGED <<nodeVars, minerVars, peer, n, control_chan, linkVars, mined>>

KeepOrphanUnasked(m, w) ==   \* mutant of the next: no GetBlocks
  LET t == <<m, w>>
      next == Head(todo[t]) IN
  /\ AtBlock(t)
  /\ next \notin DOMAIN blocks[m]
  /\ Parent(next) \notin DOMAIN blocks[m]
  /\ orphan_blocks' = [orphan_blocks EXCEPT ![t] = Append(@, next)]
  /\ todo' = [todo EXCEPT ![t] = Tail(@)]
  /\ UNCHANGED <<nodeVars, minerVars, peer, new_blocks, n, control_chan, chan,
                 linkVars, mined>>

(* A block without its parent waits in this worker's buffer, and the peer  *)
(* that sent it is asked for the parent.                                   *)
KeepOrphan(m, w) ==
  LET t == <<m, w>>
      next == Head(todo[t]) IN
  /\ AtBlock(t)
  /\ next \notin DOMAIN blocks[m]
  /\ Parent(next) \notin DOMAIN blocks[m]
  /\ orphan_blocks' = [orphan_blocks EXCEPT ![t] = Append(@, next)]
  /\ LET back == Back(peer[t])
     IN  chan' = [chan EXCEPT ![back] = @ \o Written(back, <<GetBlocks(<<Parent(next)>>)>>)]
  /\ todo' = [todo EXCEPT ![t] = Tail(@)]
  /\ UNCHANGED <<nodeVars, minerVars, peer, new_blocks, n, control_chan,
                 linkVars, mined>>

(* The orphan loops, as in module Node.                                    *)
Releasable(t) ==
  {i \in DOMAIN orphan_blocks[t] :
     Parent(orphan_blocks[t][i]) = new_blocks[t][n[t] + 1]}

ReleaseOrphan(m, w) ==
  LET t == <<m, w>> IN
  /\ n[t] < Len(new_blocks[t])
  /\ \E i \in Releasable(t) :
       /\ \A j \in Releasable(t) : i <= j
       /\ Insert(m, orphan_blocks[t][i])
       /\ new_blocks' = [new_blocks EXCEPT ![t] = Append(@, orphan_blocks[t][i])]
       /\ orphan_blocks' = [orphan_blocks EXCEPT ![t] = RemoveAt(@, i)]
  /\ UNCHANGED <<minerVars, todo, peer, n, control_chan, chan, linkVars, mined>>

NextNewBlock(m, w) ==
  LET t == <<m, w>> IN
  /\ n[t] < Len(new_blocks[t])
  /\ Releasable(t) = {}
  /\ n' = [n EXCEPT ![t] = @ + 1]
  /\ UNCHANGED <<nodeVars, minerVars, orphan_blocks, todo, peer, new_blocks,
                 control_chan, chan, linkVars, mined>>

FinishKeepingN(m, w) ==   \* mutant of the next: n lives on
  LET t == <<m, w>> IN
  /\ ~ Idle(t)
  /\ todo[t] = <<>>
  /\ n[t] = Len(new_blocks[t])
  /\ IF new_blocks[t] = <<>> THEN UNCHANGED control_chan
     ELSE Broadcast(m, new_blocks[t])
  /\ new_blocks' = [new_blocks EXCEPT ![t] = <<>>]
  /\ peer' = [peer EXCEPT ![t] = None]
  /\ UNCHANGED <<nodeVars, minerVars, orphan_blocks, todo, n, chan, linkVars, mined>>

FinishSilently(m, w) ==   \* mutant of the next: stored blocks are not relayed
  LET t == <<m, w>> IN
  /\ ~ Idle(t)
  /\ todo[t] = <<>>
  /\ n[t] = Len(new_blocks[t])
  /\ new_blocks' = [new_blocks EXCEPT ![t] = <<>>]
  /\ n' = [n EXCEPT ![t] = 0]
  /\ peer' = [peer EXCEPT ![t] = None]
  /\ UNCHANGED <<nodeVars, minerVars, orphan_blocks, todo, control_chan, chan,
                 linkVars, mined>>

Finish(m, w) ==
  LET t == <<m, w>> IN
  /\ ~ Idle(t)
  /\ todo[t] = <<>>
  /\ n[t] = Len(new_blocks[t])
  /\ IF new_blocks[t] = <<>> THEN UNCHANGED control_chan
     ELSE Broadcast(m, new_blocks[t])
  /\ new_blocks' = [new_blocks EXCEPT ![t] = <<>>]
  /\ n' = [n EXCEPT ![t] = 0]
  /\ peer' = [peer EXCEPT ![t] = None]
  /\ UNCHANGED <<nodeVars, minerVars, orphan_blocks, todo, chan, linkVars, mined>>
-----------------------------------------------------------------------------
(* What keeps going on its own: everything but finding blocks.             *)
Deliver(m, w) ==
  \/ \E l \in Links : \/ HandleNewBlockHashes(m, w, l)
                      \/ HandleGetBlocks(m, w, l)
                      \/ HandleBlocks(m, w, l)
  \/ SkipKnown(m, w)
  \/ StoreBlock(m, w)
  \/ KeepOrphan(m, w)
  \/ ReleaseOrphan(m, w)
  \/ NextNewBlock(m, w)
  \/ Finish(m, w)

Next ==
  \/ \E l \in Links : Break(l)
  \/ \E m \in Node :
       \/ Connect(m)
       \/ Restart(m)
       \/ ReadTip(m)
       \/ \E b \in Hash : Mine(m, b)
       \/ StoreFinished(m)
       \/ Dispatch(m)
  \/ \E m \in Node, w \in Worker : Deliver(m, w)

Spec == Init /\ [][Next]_vars

(* Threads are scheduled, the executor polls its tasks, and the queue the  *)
(* workers read takes the messages of each peer in turn.                   *)
FairSpec ==
  /\ Spec
  /\ \A m \in Node : WF_vars(StoreFinished(m)) /\ WF_vars(Dispatch(m))
  /\ \A m \in Node, w \in Worker : WF_vars(Deliver(m, w))
-----------------------------------------------------------------------------
(* What a node tells a live peer about, or sends it, the node has, parents *)
(* included.                                                               *)
Holds(m, hs) == \A b \in ToSet(hs) : b \in DOMAIN blocks[m] /\ Parent(b) \in DOMAIN blocks[m]

MessagesBacked ==
  /\ \A m \in Node : \A i \in DOMAIN control_chan[m] : Holds(m, control_chan[m][i])
  /\ \A l \in up : \A i \in DOMAIN chan[l] :
       chan[l][i].type \in {"NewBlockHashes", "Blocks"} => Holds(l[1], chan[l][i].hashes)

(* GetBlocks is answered with all the blocks it names or not at all, and   *)
(* nothing is ever asked twice: so no live peer may ever be asked for a    *)
(* block it does not have, also when it has lost its chain in a restart.   *)
Answerable ==
  \A l \in up : \A i \in DOMAIN chan[l] :
    chan[l][i].type = "GetBlocks" =>
      ToSet(chan[l][i].hashes) \subseteq DOMAIN blocks[l[2]]

Quiet ==
  /\ \A m \in Node : finished[m] = <<>> /\ control_chan[m] = <<>>
  /\ \A l \in Links : chan[l] = <<>>
  /\ \A t \in Thread : Idle(t)

(* When nothing is under way, the peer at the end of a live connection has *)
(* every block stored since it is up, with all its ancestors (the blocks   *)
(* of a node hang together), whatever was lost on other connections and in *)
(* restarts; and an orphan still waits only for a parent that was lost:    *)
(* asking once for a missing parent is enough.                             *)
Shared(l) == DOMAIN blocks[l[1]] \ before[l]

QuietMeansAgreed ==
  Quiet =>
    /\ \A l \in up : Shared(l) \subseteq DOMAIN blocks[l[2]]
    /\ \A t \in Thread : \A b \in ToSet(orphan_blocks[t]) :
         /\ Parent(b) \notin DOMAIN blocks[t[1]]
         /\ breaks + restarts > 0

(* The same for any number of workers, which keep orphans from each other: *)
(* what is not in the peer's chain is in a buffer of one of its workers.   *)
Buffered(m) == UNION {ToSet(orphan_blocks[<<m, w>>]) : w \in Worker}

QuietMeansHeard ==
  Quiet => \A l \in up : Shared(l) \subseteq DOMAIN blocks[l[2]] \cup Buffered(l[2])

(* And it gets there: what a node stores while a connection is up reaches  *)
(* the other end, unless the connection breaks.                            *)
Spreads ==
  \A b \in Hash, l \in Links :
    (l \in up /\ b \in Shared(l)) ~> (l \in up => b \in DOMAIN blocks[l[2]])

(* Relaying hashes over cycles of links dies out.                          *)
ComesToRest == <>[]Quiet
=============================================================================
