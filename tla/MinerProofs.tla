---------------------------- MODULE MinerProofs ----------------------------
(***************************************************************************)
(* Proofs about module Miner, for any blocks, messages, workers and calls: *)
(* the signals leave everything proved about Node as it is, and an exit    *)
(* lets no more blocks through than the nonce under way and the signals    *)
(* queued before it account for.                                           *)
(***************************************************************************)
EXTENDS Miner, NodeProofs

-----------------------------------------------------------------------------
(* Every step of the miner's is a step of Node or leaves its variables     *)
(* alone.                                                                  *)
LEMMA StepsOfNode == [MinerNext]_minerVars => [Next]_vars
<1> SUFFICES ASSUME [MinerNext]_minerVars PROVE [Next]_vars
  OBVIOUS
<1>1. ASSUME NEW b \in OwnBlocks, NonceGood(b) PROVE Next
  BY <1>1, NodeAssumption DEF NonceGood, Next
<1>2. CASE MakeHeader
  BY <1>2 DEF MakeHeader, Next
<1>3. CASE MinerWorkerStep \/ \E w \in Worker : NetworkWorker(w)
  BY <1>3 DEF NetworkWorker, Next
<1>4. ASSUME NEW w \in Worker, NEW bs \in Deliveries, RecvBlocks(w, bs) PROVE Next
  BY <1>4 DEF Next
<1>5. CASE UNCHANGED vars
  BY <1>5
<1>6. ASSUME NEW signal \in Signal, Call(signal) PROVE UNCHANGED vars
  BY <1>6 DEF Call
<1>7. RecvPaused \/ TryRecv \/ Return \/ NonceBad \/ WorkerPanics => UNCHANGED vars
  BY DEF RecvPaused, TryRecv, Return, NonceBad, WorkerPanics
<1>8. UNCHANGED minerVars => UNCHANGED vars
  BY DEF minerVars
<1> QED
  BY <1>1, <1>2, <1>3, <1>4, <1>5, <1>6, <1>7, <1>8
     DEF MinerNext, MinerLoop, MinerWorkerThread, ApiMinerStart, Signal

(* The miner under its signals is the miner of Node, so that every theorem *)
(* about Spec is one about MinerSpec.                                      *)
THEOREM MinerImplementsNode == MinerSpec => Spec
BY StepsOfNode, PTL DEF MinerSpec, MinerInit, Spec

-----------------------------------------------------------------------------
LEMMA MinerTypeInit == MinerInit => MinerTypeOK
BY MinerAssumption DEF MinerInit, MinerTypeOK, Signal

LEMMA TakeSignalType ==
  MinerTypeOK /\ control_chan # <<>> /\ TakeSignal =>
    /\ operating_state' \in {operating_state, "Run", "ShutDown"}
    /\ control_chan' \in Seq(Signal)
<1> SUFFICES ASSUME MinerTypeOK, control_chan # <<>>, TakeSignal
             PROVE  /\ operating_state' \in {operating_state, "Run", "ShutDown"}
                    /\ control_chan' \in Seq(Signal)
  OBVIOUS
<1>1. Head(control_chan) \in Signal /\ Tail(control_chan) \in Seq(Signal)
  BY DEF MinerTypeOK
<1>2. Head(control_chan) \in {"Start", "Update", "Exit"}
  BY <1>1 DEF Signal
<1> QED
  BY <1>1, <1>2 DEF TakeSignal

LEMMA MinerTypeStep == MinerTypeOK /\ [MinerNext]_minerVars => MinerTypeOK'
<1> USE DEF MinerTypeOK
<1> SUFFICES ASSUME MinerTypeOK, [MinerNext]_minerVars PROVE MinerTypeOK'
  OBVIOUS
<1>1. ASSUME NEW signal \in Signal, Call(signal) PROVE MinerTypeOK'
  BY <1>1, MinerAssumption DEF Call, threadVars
<1>2. CASE RecvPaused
  BY <1>2, TakeSignalType DEF RecvPaused, historyVars
<1>3. CASE TryRecv
  <2>1. operating_state' \in {"Run", "ShutDown"} /\ control_chan' \in Seq(Signal)
    BY <1>3, TakeSignalType DEF TryRecv
  <2> QED
    BY <1>3, <2>1 DEF TryRecv, historyVars
<1>4. CASE Return
  BY <1>4 DEF Return, historyVars
<1>5. CASE MakeHeader
  BY <1>5 DEF MakeHeader, historyVars
<1>6. ASSUME NEW b \in OwnBlocks, NonceGood(b) PROVE MinerTypeOK'
  BY <1>6 DEF NonceGood
<1>7. CASE NonceBad
  BY <1>7 DEF NonceBad, historyVars
<1>8. CASE WorkerPanics
  BY <1>8 DEF WorkerPanics, threadVars, historyVars
<1>9. CASE UNCHANGED controlVars
  BY <1>9 DEF controlVars, threadVars, historyVars
<1> QED
  BY <1>1, <1>2, <1>3, <1>4, <1>5, <1>6, <1>7, <1>8, <1>9
     DEF MinerNext, MinerLoop, MinerWorkerThread, NetworkWorker, ApiMinerStart, Signal,
         minerVars

(* While the exit is in the queue, the blocks sent since it was called and *)
(* the signals still before it make up no more than the signals that were  *)
(* before it then and the nonce under way; when it is taken, what is left  *)
(* of this bound stays.                                                    *)
UnderWay == IF miner_pc \in {"header", "nonce"} THEN 1 ELSE 0

Sent == Len(sent) - exit.sent

ExitQueued ==
  \E p \in 1 .. Len(control_chan) :
    /\ control_chan[p] = "Exit"
    /\ Sent + (p - 1) + UnderWay <= exit.ahead + 1

ExitTaken ==
  /\ miner_pc = "returned" \/ operating_state = "ShutDown"
  /\ Sent <= exit.ahead + 1

ExitCounts ==
  exit # None => exit \in [sent : Nat, ahead : Nat] /\ (ExitQueued \/ ExitTaken)

(* The call that records the exit puts it at the end of the queue.         *)
LEMMA ExitRecorded ==
  ASSUME MinerTypeOK, NEW signal \in Signal, Call(signal), exit' # exit
  PROVE  ExitCounts'
<1>1. signal = "Exit" /\ exit' = [sent |-> Len(sent), ahead |-> Len(control_chan)]
  BY DEF Call
<1>2. Len(sent) \in Nat /\ Len(control_chan) \in Nat
  BY DEF MinerTypeOK
<1>3. /\ Len(control_chan') = Len(control_chan) + 1
      /\ control_chan'[Len(control_chan) + 1] = "Exit"
  BY <1>1 DEF Call, MinerTypeOK
<1>4. sent' = sent
  BY DEF Call
<1>5. Sent' = 0 /\ UnderWay' \in {0, 1} /\ exit'.ahead = Len(control_chan)
  BY <1>1, <1>2, <1>4 DEF Sent, UnderWay
<1>6. ExitQueued'
  <2> DEFINE p == Len(control_chan) + 1
  <2>1. p \in 1 .. Len(control_chan')
    BY <1>2, <1>3
  <2>2. Sent' + (p - 1) + UnderWay' <= exit'.ahead + 1
    BY <1>2, <1>5
  <2> QED
    BY <1>3, <2>1, <2>2 DEF ExitQueued
<1> QED
  BY <1>1, <1>2, <1>6 DEF ExitCounts

(* Taking a signal takes the exit or brings it one place forward.          *)
LEMMA ExitMovesUp ==
  ASSUME MinerTypeOK, exit \in [sent : Nat, ahead : Nat], ExitQueued,
         control_chan # <<>>, TakeSignal, UNCHANGED <<sent, exit>>
  PROVE  \/ operating_state' = "ShutDown" /\ Sent' <= exit'.ahead + 1
         \/ \E p \in 1 .. Len(control_chan') :
              /\ control_chan'[p] = "Exit"
              /\ Sent' + p + UnderWay <= exit'.ahead + 1
<1>1. PICK p \in 1 .. Len(control_chan) :
             /\ control_chan[p] = "Exit"
             /\ Sent + (p - 1) + UnderWay <= exit.ahead + 1
  BY DEF ExitQueued
<1>2. Sent' = Sent /\ Sent \in Int /\ UnderWay \in {0, 1} /\ exit' = exit /\ exit.ahead \in Nat
  BY DEF Sent, UnderWay, MinerTypeOK
<1>3. CASE p = 1
  <2>1. Head(control_chan) = "Exit"
    BY <1>1, <1>3 DEF MinerTypeOK
  <2>2. Sent <= exit.ahead + 1
    BY <1>1, <1>2, <1>3
  <2> QED
    BY <1>2, <2>1, <2>2 DEF TakeSignal
<1>4. CASE p # 1
  <2> DEFINE q == p - 1
  <2>1. q \in 1 .. Len(control_chan') /\ control_chan'[q] = "Exit"
    BY <1>1, <1>4 DEF TakeSignal, MinerTypeOK
  <2>2. Sent' + q + UnderWay <= exit'.ahead + 1
    BY <1>1, <1>2
  <2> QED
    BY <2>1, <2>2
<1> QED
  BY <1>3, <1>4

LEMMA ExitCountsStep ==
  MinerTypeOK /\ ExitCounts /\ [MinerNext]_minerVars => ExitCounts'
<1> SUFFICES ASSUME MinerTypeOK, ExitCounts, [MinerNext]_minerVars PROVE ExitCounts'
  OBVIOUS
<1>1. ASSUME NEW signal \in Signal, Call(signal), exit' # exit PROVE ExitCounts'
  BY <1>1, ExitRecorded
<1>2. exit' = exit \/ \E signal \in Signal : Call(signal)
  BY DEF MinerNext, MinerLoop, MinerWorkerThread, NetworkWorker, ApiMinerStart, Signal,
         RecvPaused, TryRecv, Return, MakeHeader, NonceGood, NonceBad, WorkerPanics,
         minerVars, controlVars, historyVars
<1>3. SUFFICES ASSUME exit' = exit, exit # None PROVE ExitQueued' \/ ExitTaken'
  BY <1>1, <1>2 DEF ExitCounts
<1>4. exit \in [sent : Nat, ahead : Nat] /\ (ExitQueued \/ ExitTaken)
  BY <1>3 DEF ExitCounts
<1>5. Len(sent) \in Nat /\ Len(control_chan) \in Nat /\ Sent \in Int
  BY <1>4 DEF MinerTypeOK, Sent
<1>6. ASSUME NEW signal \in Signal, Call(signal) PROVE ExitQueued' \/ ExitTaken'
  <2>1. /\ control_chan' = Append(control_chan, signal)
        /\ UNCHANGED <<miner_pc, operating_state, sent>>
    BY <1>6 DEF Call, threadVars
  <2>2. Sent' = Sent /\ UnderWay' = UnderWay
    BY <1>3, <2>1 DEF Sent, UnderWay
  <2>3. ASSUME NEW p \in 1 .. Len(control_chan)
        PROVE  p \in 1 .. Len(control_chan') /\ control_chan'[p] = control_chan[p]
    BY <2>1, <1>6 DEF MinerTypeOK
  <2>4. ExitQueued => ExitQueued'
    BY <1>3, <2>2, <2>3 DEF ExitQueued
  <2>5. ExitTaken => ExitTaken'
    BY <1>3, <2>1, <2>2 DEF ExitTaken
  <2> QED
    BY <1>4, <2>4, <2>5
<1>7. CASE RecvPaused
  <2>1. /\ TakeSignal /\ control_chan # <<>>
        /\ miner_pc = "signals" /\ operating_state = "Paused"
        /\ UNCHANGED <<sent, miner_pc>>
    BY <1>7 DEF RecvPaused, historyVars
  <2>2. ExitQueued
    BY <1>4, <2>1 DEF ExitTaken
  <2>3. UnderWay' = 0 /\ UnderWay = 0 /\ Sent' = Sent
    BY <1>3, <2>1 DEF UnderWay, Sent
  <2>4. CASE operating_state' = "ShutDown" /\ Sent' <= exit'.ahead + 1
    BY <2>4 DEF ExitTaken
  <2>5. ASSUME NEW p \in 1 .. Len(control_chan'), control_chan'[p] = "Exit",
               Sent' + p + UnderWay <= exit'.ahead + 1
        PROVE  ExitQueued'
    <3>1. Sent' + (p - 1) + UnderWay' <= exit'.ahead + 1
      BY <1>3, <1>4, <1>5, <2>3, <2>5
    <3> QED
      BY <2>5, <3>1 DEF ExitQueued
  <2> QED
    BY <1>3, <1>4, <2>1, <2>2, <2>4, <2>5, ExitMovesUp
<1>8. CASE TryRecv
  <2>1. /\ miner_pc = "signals" /\ operating_state = "Run"
        /\ UNCHANGED sent
        /\ miner_pc' = IF operating_state' = "ShutDown" THEN "returned" ELSE "header"
    BY <1>8 DEF TryRecv, historyVars
  <2>2. ExitQueued /\ control_chan # <<>>
    BY <1>4, <2>1 DEF ExitTaken, ExitQueued
  <2>3. TakeSignal
    BY <1>8, <2>2 DEF TryRecv
  <2>4. UnderWay = 0 /\ UnderWay' \in {0, 1} /\ Sent' = Sent
    BY <1>3, <2>1 DEF UnderWay, Sent
  <2>5. CASE operating_state' = "ShutDown" /\ Sent' <= exit'.ahead + 1
    BY <2>5 DEF ExitTaken
  <2>6. ASSUME NEW p \in 1 .. Len(control_chan'), control_chan'[p] = "Exit",
               Sent' + p + UnderWay <= exit'.ahead + 1
        PROVE  ExitQueued'
    <3>1. Sent' + (p - 1) + UnderWay' <= exit'.ahead + 1
      BY <1>3, <1>4, <1>5, <2>4, <2>6
    <3> QED
      BY <2>6, <3>1 DEF ExitQueued
  <2> QED
    BY <1>3, <1>4, <2>1, <2>2, <2>3, <2>5, <2>6, ExitMovesUp
<1>9. ASSUME NEW b \in OwnBlocks, NonceGood(b) PROVE ExitQueued' \/ ExitTaken'
  <2>1. /\ miner_pc = "nonce" /\ miner_pc' = "signals" /\ operating_state = "Run"
        /\ sent' = Append(sent, b) /\ UNCHANGED control_chan
    BY <1>9 DEF NonceGood, MinerTypeOK
  <2>2. ExitQueued
    BY <1>4, <2>1 DEF ExitTaken
  <2>3. UnderWay = 1 /\ UnderWay' = 0 /\ Sent' = Sent + 1
    BY <1>3, <1>4, <1>5, <2>1 DEF UnderWay, Sent, MinerTypeOK
  <2>4. PICK p \in 1 .. Len(control_chan) :
               control_chan[p] = "Exit" /\ Sent + (p - 1) + UnderWay <= exit.ahead + 1
    BY <2>2 DEF ExitQueued
  <2>5. Sent' + (p - 1) + UnderWay' <= exit'.ahead + 1
    BY <1>3, <1>4, <1>5, <2>3, <2>4
  <2> QED
    BY <2>1, <2>4, <2>5 DEF ExitQueued
<1>10. CASE /\ UNCHANGED <<sent, control_chan, operating_state>>
            /\ UnderWay' <= UnderWay
            /\ miner_pc = "returned" => miner_pc' = "returned"
  <2>1. Sent' = Sent /\ UnderWay \in {0, 1} /\ UnderWay' \in {0, 1}
    BY <1>3, <1>10 DEF Sent, UnderWay
  <2>2. CASE ExitQueued
    <3>1. PICK p \in 1 .. Len(control_chan) :
                 control_chan[p] = "Exit" /\ Sent + (p - 1) + UnderWay <= exit.ahead + 1
      BY <2>2 DEF ExitQueued
    <3>2. Sent' + (p - 1) + UnderWay' <= exit'.ahead + 1
      BY <1>3, <1>4, <1>5, <1>10, <2>1, <3>1
    <3> QED
      BY <1>10, <3>1, <3>2 DEF ExitQueued
  <2>3. CASE ExitTaken
    BY <1>3, <1>10, <2>1, <2>3 DEF ExitTaken
  <2> QED
    BY <1>4, <2>2, <2>3
<1>11. Return \/ MakeHeader \/ NonceBad \/ WorkerPanics \/ UNCHANGED controlVars =>
         /\ UNCHANGED <<sent, control_chan, operating_state>>
         /\ UnderWay' <= UnderWay
         /\ miner_pc = "returned" => miner_pc' = "returned"
  BY DEF Return, MakeHeader, NonceBad, WorkerPanics, controlVars, threadVars, historyVars,
         UnderWay
<1> QED
  BY <1>6, <1>7, <1>8, <1>9, <1>10, <1>11
     DEF MinerNext, MinerLoop, MinerWorkerThread, NetworkWorker, ApiMinerStart, Signal,
         minerVars

-----------------------------------------------------------------------------
(* The miner's state, its queue and the history keep their shape.          *)
THEOREM MinerTypeCorrect == MinerSpec => []MinerTypeOK
BY MinerTypeInit, MinerTypeStep, PTL DEF MinerSpec

(* However exit() falls between other calls and the miner's turns, the     *)
(* blocks sent afterwards are at most one more than the signals it found   *)
(* in the queue.                                                           *)
THEOREM ExitStopsMining == MinerSpec => []FewBlocksAfterExit
<1>1. MinerInit => ExitCounts
  BY DEF MinerInit, ExitCounts
<1>2. MinerTypeOK /\ ExitCounts => FewBlocksAfterExit
  <2> SUFFICES ASSUME MinerTypeOK, ExitCounts, exit # None
               PROVE  Sent <= exit.ahead + 1
    BY DEF FewBlocksAfterExit, Sent
  <2>1. Sent \in Int /\ UnderWay \in {0, 1} /\ exit.ahead \in Nat
    BY DEF ExitCounts, MinerTypeOK, Sent, UnderWay
  <2> QED
    BY <2>1 DEF ExitCounts, ExitQueued, ExitTaken
<1> QED
  BY MinerTypeInit, MinerTypeStep, ExitCountsStep, <1>1, <1>2, PTL DEF MinerSpec

-----------------------------------------------------------------------------
(* The blocks found.  What is stored for a block of the chain stays.       *)
LEMMA StoredKept ==
  ASSUME Inv, [Next]_vars, NEW h \in DOMAIN blocks
  PROVE  h \in DOMAIN blocks' /\ block_state'[h] = block_state[h]
<1>1. h \in DOMAIN blocks'
  <2>1. ASSUME NEW t \in Thread, InsertBlock(t) PROVE h \in DOMAIN blocks'
    BY <2>1 DEF InsertBlock, BlocksWith
  <2>2. (\E t \in Thread : InsertBlock(t)) \/ blocks' = blocks
    BY DEF Next, vars, ReadTip, Mine, RecvBlocks, WorkerStep, MinerWorkerStep, NextBlock,
         ParentKnown, ParentMissing, CheckAndStore, CheckPasses, CheckFails, PutState,
         Finish, ReleaseOrphan, NextNewBlock, ReleaseDone, RecvFinished, chainVars, Thread
  <2> QED
    BY <2>1, <2>2
<1>2. ASSUME NEW t \in Thread, PutState(t) PROVE block_state'[h] = block_state[h]
  <2>1. block[t] # Genesis /\ h \in DOMAIN block_state
    BY <1>2, BlockAssumption DEF Inv, InHand, StatesKept, PutState
  <2>2. CASE h = block[t]
    BY <1>2, <2>1, <2>2 DEF Inv, StatesReplay, InHand, PutState
  <2>3. CASE h # block[t]
    BY <1>2, <2>1, <2>3 DEF PutState
  <2> QED
    BY <2>2, <2>3
<1> QED
  BY <1>1, <1>2, OnlyPutStores

(* What only its thread changes of the miner worker's locals.              *)
hand == <<pc[MinerWorker], block[MinerWorker], todo[MinerWorker], new_blocks[MinerWorker]>>

LEMMA OthersLeaveHand ==
  ASSUME Inv, [Next]_vars
  PROVE  \/ MinerWorkerStep
         \/ UNCHANGED <<hand, announced>> /\ \E b \in Hash : Mine(b)
         \/ UNCHANGED <<hand, finished, mined>> /\ announced \subseteq announced'
<1> USE NodeAssumption
<1>1. /\ MinerWorker \in Thread
      /\ \A w \in Worker : w # MinerWorker /\ w \in Thread
  BY DEF Thread
<1>2. ASSUME NEW w \in Worker, WorkerStep(w)
      PROVE  UNCHANGED <<hand, finished, mined>> /\ announced \subseteq announced'
  <2>1. CASE CheckAndStore(w)
    BY <1>1, <2>1 DEF CheckAndStore, CheckPasses, CheckFails, PutState, InsertBlock,
         Finish, Take, Goto, Inv, TypeOK, hand, localVars
  <2>2. CASE \/ NextBlock(w) \/ ParentKnown(w) \/ ParentMissing(w)
             \/ ReleaseOrphan(w) \/ NextNewBlock(w) \/ ReleaseDone(w)
    BY <1>1, <2>2 DEF NextBlock, ParentKnown, ParentMissing, ReleaseOrphan, NextNewBlock,
         ReleaseDone, Take, Goto, Inv, TypeOK, hand, localVars
  <2> QED
    BY <1>2, <2>1, <2>2 DEF WorkerStep
<1>3. ASSUME NEW w \in Worker, NEW bs \in Deliveries, RecvBlocks(w, bs)
      PROVE  UNCHANGED <<hand, finished, mined, announced>>
  BY <1>1, <1>3 DEF RecvBlocks, Goto, Inv, TypeOK, hand
<1>4. ReadTip \/ UNCHANGED vars => UNCHANGED <<hand, finished, mined, announced>>
  BY DEF ReadTip, vars, hand, localVars
<1>5. ASSUME NEW b \in Hash, Mine(b) PROVE UNCHANGED <<hand, announced>>
  BY <1>5 DEF Mine, hand, localVars
<1> QED
  BY <1>2, <1>3, <1>4, <1>5 DEF Next

(* The miner worker is never among the orphan loops, has no message to go  *)
(* through, and leaves no block behind that it inserted.                   *)
MinersTurn ==
  /\ pc[MinerWorker] \in {"recv", "check", "put", "insert", "block"}
  /\ todo[MinerWorker] = <<>>
  /\ pc[MinerWorker] = "recv" => new_blocks[MinerWorker] = <<>>

LEMMA MinersTurnStep == Inv /\ MinersTurn /\ [Next]_vars => MinersTurn'
<1> SUFFICES ASSUME Inv, MinersTurn, [Next]_vars PROVE MinersTurn'
  OBVIOUS
<1>1. MinerWorker \in Thread
  BY DEF Thread
<1>2. CASE RecvFinished
  BY <1>1, <1>2 DEF RecvFinished, Goto, Inv, TypeOK, MinersTurn, localVars
<1>3. CASE CheckPasses(MinerWorker) \/ CheckFails(MinerWorker) \/ PutState(MinerWorker)
  BY <1>1, <1>3 DEF CheckPasses, CheckFails, PutState, AfterBlock, Goto, Inv, TypeOK,
       MinersTurn, localVars
<1>4. CASE InsertBlock(MinerWorker)
  BY <1>1, <1>4 DEF InsertBlock, AfterBlock, Goto, Inv, TypeOK, MinersTurn
<1>5. CASE Finish(MinerWorker)
  BY <1>1, <1>5 DEF Finish, Goto, Inv, TypeOK, MinersTurn
<1>6. CASE UNCHANGED hand
  BY <1>6 DEF hand, MinersTurn
<1> QED
  BY <1>2, <1>3, <1>4, <1>5, <1>6, OthersLeaveHand DEF MinerWorkerStep, CheckAndStore

(* Where a block found by the miner can be: on its way through the miner   *)
(* worker, announced, or refused for good.                                 *)
Queued(b)   == \E i \in 1 .. Len(finished) : finished[i] = b
Handled(b)  == pc[MinerWorker] \in {"check", "put", "insert"} /\ block[MinerWorker] = b
Inserted(b) == \E i \in 1 .. Len(new_blocks[MinerWorker]) : new_blocks[MinerWorker][i] = b
Refused(b)  == Parent(b) \in DOMAIN blocks /\ ~ Replay(StateBefore(b), Txs(b)).ok

Tracked(b) == Queued(b) \/ Handled(b) \/ Inserted(b) \/ b \in announced \/ Refused(b)

LEMMA TrackedByWorker ==
  ASSUME Inv, MinersTurn, NEW b, Tracked(b), ~ Refused(b), MinerWorkerStep
  PROVE  Tracked(b)'
<1>1. MinerWorker \in Thread /\ new_blocks[MinerWorker] \in Seq(Hash)
  BY DEF Inv, TypeOK, Thread
<1>2. CASE RecvFinished
  <2>1. /\ pc[MinerWorker] = "recv" /\ pc'[MinerWorker] = "check"
        /\ finished # <<>> /\ finished' = Tail(finished)
        /\ block'[MinerWorker] = Head(finished)
        /\ new_blocks' = new_blocks /\ announced' = announced
    BY <1>1, <1>2 DEF RecvFinished, Take, Goto, Inv, TypeOK, localVars
  <2>2. CASE Queued(b)
    <3>1. PICK i \in 1 .. Len(finished) : finished[i] = b
      BY <2>2 DEF Queued
    <3>2. finished \in Seq(OwnBlocks)
      BY DEF Inv, TypeOK
    <3>3. CASE i = 1
      BY <2>1, <3>1, <3>2, <3>3 DEF Tracked, Handled
    <3>4. CASE i # 1
      <4>1. i - 1 \in 1 .. Len(Tail(finished)) /\ Tail(finished)[i - 1] = b
        BY <2>1, <3>1, <3>2, <3>4
      <4> QED
        BY <2>1, <4>1 DEF Tracked, Queued
    <3> QED
      BY <3>3, <3>4
  <2>3. CASE Inserted(b) \/ b \in announced
    BY <2>1, <2>3 DEF Tracked, Inserted
  <2> QED
    BY <2>1, <2>2, <2>3 DEF Tracked, Handled
<1>3. CASE CheckPasses(MinerWorker) \/ PutState(MinerWorker)
  <2>1. /\ pc[MinerWorker] \in {"check", "put"} /\ pc'[MinerWorker] \in {"put", "insert"}
        /\ UNCHANGED <<finished, block, new_blocks, announced>>
    BY <1>1, <1>3 DEF CheckPasses, PutState, Goto, Inv, TypeOK, localVars
  <2> QED
    BY <2>1 DEF Tracked, Queued, Handled, Inserted
<1>4. CASE CheckFails(MinerWorker)
  <2>1. /\ pc[MinerWorker] = "check" /\ UNCHANGED <<finished, new_blocks, announced>>
        /\ Refused(block[MinerWorker])
    BY <1>1, <1>4 DEF CheckFails, DifficultyMatches, Refused, Inv, InHand, localVars
  <2> QED
    BY <2>1 DEF Tracked, Queued, Handled, Inserted
<1>5. CASE InsertBlock(MinerWorker)
  <2>1. PICK inserted, c : inserted = new_blocks[MinerWorker] /\ c = block[MinerWorker]
    OBVIOUS
  <2>2. /\ new_blocks'[MinerWorker] = Append(inserted, c)
        /\ UNCHANGED <<finished, announced>>
    BY <1>1, <1>5, <2>1 DEF InsertBlock, Inv, TypeOK
  <2>3. /\ Len(Append(inserted, c)) = Len(inserted) + 1 /\ Len(inserted) \in Nat
        /\ Append(inserted, c)[Len(inserted) + 1] = c
        /\ \A i \in 1 .. Len(inserted) : Append(inserted, c)[i] = inserted[i]
    BY <1>1, <2>1
  <2>4. Handled(b) \/ Inserted(b) => Inserted(b)'
    BY <2>1, <2>2, <2>3 DEF Handled, Inserted
  <2> QED
    BY <2>2, <2>4 DEF Tracked, Queued
<1>6. CASE Finish(MinerWorker)
  <2>1. /\ pc[MinerWorker] = "block" /\ UNCHANGED finished
        /\ announced' = announced \cup ToSet(new_blocks[MinerWorker])
    BY <1>6 DEF Finish
  <2>2. Inserted(b) => b \in ToSet(new_blocks[MinerWorker])
    BY <1>1 DEF Inserted, ToSet
  <2> QED
    BY <2>1, <2>2 DEF Tracked, Queued, Handled
<1> QED
  BY <1>2, <1>3, <1>4, <1>5, <1>6 DEF MinerWorkerStep, CheckAndStore

LEMMA QueuedByMine ==
  ASSUME Inv, NEW c \in Hash, Mine(c)
  PROVE  Queued(c)' /\ \A b : Queued(b) => Queued(b)'
<1>1. finished \in Seq(OwnBlocks) /\ c \in OwnBlocks /\ finished' = Append(finished, c)
  BY DEF Inv, TypeOK, Mine
<1>2. /\ Len(Append(finished, c)) = Len(finished) + 1 /\ Len(finished) \in Nat
      /\ Append(finished, c)[Len(finished) + 1] = c
      /\ \A i \in 1 .. Len(finished) : Append(finished, c)[i] = finished[i]
  BY <1>1
<1> QED
  BY <1>1, <1>2 DEF Queued

LEMMA TrackedStep ==
  ASSUME Inv, MinersTurn, NEW b, Tracked(b), [Next]_vars
  PROVE  Tracked(b)'
<1>1. CASE Refused(b)
  BY <1>1, StoredKept DEF Refused, StateBefore, Tracked
<1>2. CASE MinerWorkerStep
  BY <1>1, <1>2, TrackedByWorker
<1>3. CASE UNCHANGED <<hand, announced>> /\ \E c \in Hash : Mine(c)
  BY <1>1, <1>3, QueuedByMine DEF Tracked, hand, Handled, Inserted
<1>4. CASE UNCHANGED <<hand, finished>> /\ announced \subseteq announced'
  BY <1>1, <1>4 DEF Tracked, hand, Queued, Handled, Inserted
<1> QED
  BY <1>2, <1>3, <1>4, OthersLeaveHand

MinedTracked == \A b \in mined : Tracked(b)

LEMMA MinedTrackedStep ==
  Inv /\ MinersTurn /\ MinedTracked /\ [Next]_vars => MinedTracked'
<1> SUFFICES ASSUME Inv, MinersTurn, MinedTracked, [Next]_vars, NEW b \in mined'
             PROVE  Tracked(b)'
  BY DEF MinedTracked
<1>1. CASE b \in mined
  BY <1>1, TrackedStep DEF MinedTracked
<1>2. CASE b \notin mined
  <2>1. MinerWorkerStep => UNCHANGED mined
    BY DEF MinerWorkerStep, RecvFinished, CheckAndStore, CheckPasses, CheckFails, PutState,
         InsertBlock, Finish
  <2>2. PICK c \in Hash : Mine(c)
    BY <1>2, <2>1, OthersLeaveHand
  <2>3. b = c
    BY <1>2, <2>2 DEF Mine
  <2> QED
    BY <2>2, <2>3, QueuedByMine DEF Tracked
<1> QED
  BY <1>1, <1>2

(* The panic of the miner worker is its last step.                         *)
Ended ==
  ~ worker_alive => miner_pc = "returned" /\ finished = <<>> /\ pc[MinerWorker] = "recv"

LEMMA EndedStep == Inv /\ Ended /\ [MinerNext]_minerVars => Ended'
<1> SUFFICES ASSUME Inv, Ended, [MinerNext]_minerVars, ~ worker_alive' PROVE Ended'
  BY DEF Ended
<1>1. CASE WorkerPanics
  BY <1>1 DEF WorkerPanics, Ended, vars, threadVars
<1>2. CASE worker_alive' = worker_alive
  <2>1. miner_pc = "returned" /\ finished = <<>> /\ pc[MinerWorker] = "recv"
    BY <1>2 DEF Ended
  <2>2. ~ MinerWorkerStep
    BY <2>1 DEF MinerWorkerStep, RecvFinished, CheckAndStore, CheckPasses, CheckFails,
         PutState, InsertBlock, Finish
  <2>3. ~ MinerLoop
    BY <2>1 DEF MinerLoop, RecvPaused, TryRecv, Return, MakeHeader, NonceGood, NonceBad
  <2>4. miner_pc' = miner_pc /\ UNCHANGED <<hand, finished>>
    <3>1. CASE \E signal \in Signal : Call(signal)
      BY <3>1 DEF Call, vars, localVars, threadVars, hand
    <3>2. CASE UNCHANGED controlVars /\ UNCHANGED <<hand, finished>>
      BY <3>2 DEF controlVars, threadVars
    <3>3. CASE UNCHANGED minerVars
      BY <3>3 DEF minerVars, vars, controlVars, threadVars, localVars, hand
    <3>4. ASSUME NEW w \in Worker, NEW bs \in Deliveries, RecvBlocks(w, bs)
          PROVE  UNCHANGED <<hand, finished>>
      BY <3>4, NodeAssumption DEF RecvBlocks, Goto, Inv, TypeOK, hand, Thread
    <3>5. ASSUME NEW w \in Worker, WorkerStep(w) PROVE UNCHANGED <<hand, finished>>
      <4>1. [Next]_vars /\ ~ \E b \in Hash : Mine(b)
        <5>1. finished' = finished
          BY <3>5 DEF WorkerStep, CheckAndStore, CheckPasses, CheckFails, PutState,
               InsertBlock, Finish, NextBlock, ParentKnown, ParentMissing, ReleaseOrphan,
               NextNewBlock, ReleaseDone
        <5>2. \A b : Append(finished, b) # finished
          BY <2>1
        <5> QED
          BY <3>5, <5>1, <5>2 DEF Next, Mine
      <4> QED
        BY <2>2, <4>1, OthersLeaveHand
    <3> QED
      BY <1>2, <2>1, <2>2, <2>3, <3>1, <3>2, <3>3, <3>4, <3>5
         DEF MinerNext, MinerWorkerThread, NetworkWorker, ApiMinerStart, Signal, WorkerPanics
  <2> QED
    BY <2>1, <2>4 DEF Ended, hand
<1>3. WorkerPanics \/ worker_alive' = worker_alive
  BY DEF MinerNext, MinerLoop, MinerWorkerThread, NetworkWorker, ApiMinerStart, Call,
       RecvPaused, TryRecv, Return, MakeHeader, NonceGood, NonceBad, controlVars, minerVars
<1> QED
  BY <1>1, <1>2, <1>3

(* However the exit, the miner's last nonces and the network's insertions  *)
(* interleave, when the miner worker panics on its closed channel every    *)
(* block found is announced or was refused by the state of its parent.     *)
THEOREM NothingFoundIsLost == MinerSpec => []NothingLeftBehind
<1> DEFINE I == Inv /\ MinersTurn /\ MinedTracked /\ Ended
<1>1. MinerInit => I
  <2> SUFFICES ASSUME MinerInit PROVE I
    OBVIOUS
  <2>1. Init /\ Inv
    BY InitInv DEF MinerInit
  <2>2. MinersTurn
    BY <2>1 DEF Init, MinersTurn, Thread
  <2> QED
    BY <2>1, <2>2 DEF MinerInit, Init, MinedTracked, Ended
<1>2. I /\ [MinerNext]_minerVars => I'
  BY StepsOfNode, InvStep, MinersTurnStep, MinedTrackedStep, EndedStep
<1>3. I => NothingLeftBehind
  <2> SUFFICES ASSUME I, ~ worker_alive, NEW b \in mined, Replay(StateBefore(b), Txs(b)).ok
               PROVE  b \in announced
    BY DEF NothingLeftBehind
  <2>1. finished = <<>> /\ pc[MinerWorker] = "recv" /\ new_blocks[MinerWorker] = <<>>
    BY DEF Ended, MinersTurn
  <2>2. ~ Queued(b) /\ ~ Handled(b) /\ ~ Inserted(b) /\ ~ Refused(b)
    BY <2>1 DEF Queued, Handled, Inserted, Refused
  <2> QED
    BY <2>2 DEF MinedTracked, Tracked
<1> HIDE DEF I
<1> QED
  BY <1>1, <1>2, <1>3, PTL DEF MinerSpec
=============================================================================
