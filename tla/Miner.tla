------------------------------- MODULE Miner -------------------------------
(***************************************************************************)
(* The life of the miner thread (miner/mod.rs) beside the threads of       *)
(* module Node: it starts paused, is driven by the signals its Handle      *)
(* queues, looks at one signal per turn while it runs, and takes the       *)
(* sender of the finished blocks with it when it returns.                  *)
(*                                                                         *)
(* `sent` and `exit` are history: the blocks in the order they were sent   *)
(* to the miner worker, and what the miner had before it when exit() was   *)
(* first called.                                                           *)
(***************************************************************************)
EXTENDS Node

CONSTANT MaxSignals   \* bound of the model: calls of the Handle

ASSUME MinerAssumption == MaxSignals \in Nat

Signal == {"Start", "Update", "Exit"}

VARIABLES
  operating_state,   \* Context::operating_state
  control_chan,      \* Context::control_chan, unbounded
  miner_pc,          \* where miner_loop is
  worker_alive,      \* the miner worker has not panicked
  calls,             \* calls of the Handle so far
  sent,              \* the blocks sent to the miner worker
  exit               \* [sent |-> .., ahead |-> ..] once exit() was called

threadVars == <<operating_state, miner_pc>>
historyVars == <<calls, sent, exit>>
controlVars == <<threadVars, control_chan, worker_alive, historyVars>>
minerVars == <<vars, controlVars>>

MinerTypeOK ==
  /\ operating_state \in {"Paused", "Run", "ShutDown"}
  /\ control_chan \in Seq(Signal)
  /\ miner_pc \in {"signals", "header", "nonce", "returned"}
  /\ miner_pc \in {"header", "nonce"} => operating_state = "Run"
  /\ worker_alive \in BOOLEAN
  /\ calls \in 0 .. MaxSignals
  /\ sent \in Seq(OwnBlocks)
  /\ exit \in [sent : Nat, ahead : Nat] \cup {None}

MinerInit ==
  /\ Init
  /\ operating_state = "Paused"
  /\ control_chan = <<>>
  /\ miner_pc = "signals"
  /\ worker_alive = TRUE
  /\ calls = 0
  /\ sent = <<>>
  /\ exit = None

-----------------------------------------------------------------------------
(* Handle::start, update and exit, from any thread.  Once the miner thread *)
(* has returned its receiver is gone, and a call panics in the caller.     *)
Call(signal) ==
  /\ calls < MaxSignals
  /\ miner_pc # "returned"
  /\ control_chan' = Append(control_chan, signal)
  /\ calls' = calls + 1
  /\ exit' = IF signal = "Exit" /\ exit = None
             THEN [sent |-> Len(sent), ahead |-> Len(control_chan)] ELSE exit
  /\ UNCHANGED <<vars, threadVars, worker_alive, sent>>

(* The only caller in the program is the API's request /miner/start.       *)
ApiMinerStart == Call("Start")

(* The same in either state: Update leaves the miner as it is, which reads *)
(* the tip anew in each turn anyway.                                       *)
TakeSignal ==
  /\ operating_state' = CASE Head(control_chan) = "Exit"   -> "ShutDown"
                          [] Head(control_chan) = "Start"  -> "Run"
                          [] Head(control_chan) = "Update" -> operating_state
  /\ control_chan' = Tail(control_chan)

PausedDeafToExit ==   \* mutant of the next: only Start is looked for
  /\ miner_pc = "signals"
  /\ operating_state = "Paused"
  /\ control_chan # <<>>
  /\ operating_state' = IF Head(control_chan) = "Start" THEN "Run" ELSE "Paused"
  /\ control_chan' = Tail(control_chan)
  /\ UNCHANGED <<vars, miner_pc, worker_alive, historyVars>>

(* Paused: block for a signal.                                             *)
RecvPaused ==
  /\ miner_pc = "signals"
  /\ operating_state = "Paused"
  /\ control_chan # <<>>
  /\ TakeSignal
  /\ UNCHANGED <<vars, miner_pc, worker_alive, historyVars>>

TryRecvThenMine ==   \* mutant of the next: no look at the state after it
  /\ miner_pc = "signals"
  /\ operating_state = "Run"
  /\ IF control_chan = <<>> THEN UNCHANGED <<operating_state, control_chan>> ELSE TakeSignal
  /\ miner_pc' = "header"
  /\ UNCHANGED <<vars, worker_alive, historyVars>>

(* Run: one signal, if there is one, before the next nonce.                *)
TryRecv ==
  /\ miner_pc = "signals"
  /\ operating_state = "Run"
  /\ IF control_chan = <<>> THEN UNCHANGED <<operating_state, control_chan>> ELSE TakeSignal
  /\ miner_pc' = IF operating_state' = "ShutDown" THEN "returned" ELSE "header"
  /\ UNCHANGED <<vars, worker_alive, historyVars>>

Return ==
  /\ miner_pc = "signals"
  /\ operating_state = "ShutDown"
  /\ miner_pc' = "returned"
  /\ UNCHANGED <<vars, operating_state, control_chan, worker_alive, historyVars>>

(* A turn: the tip goes into the header, and the nonce drawn for it is     *)
(* good or not.                                                            *)
MakeHeader ==
  /\ miner_pc = "header"
  /\ IF miner_tip = tip THEN UNCHANGED vars ELSE ReadTip
  /\ miner_pc' = "nonce"
  /\ UNCHANGED <<operating_state, control_chan, worker_alive, historyVars>>

NonceGood(b) ==
  /\ miner_pc = "nonce"
  /\ Mine(b)
  /\ sent' = Append(sent, b)
  /\ miner_pc' = "signals"
  /\ UNCHANGED <<operating_state, control_chan, worker_alive, calls, exit>>

NonceBad ==
  /\ miner_pc = "nonce"
  /\ miner_pc' = "signals"
  /\ UNCHANGED <<vars, operating_state, control_chan, worker_alive, historyVars>>

(* The miner worker's recv() fails, and expect() panics, once the sender   *)
(* is gone and the queue is empty.                                         *)
WorkerPanicsAtOnce ==   \* mutant of the next: what is queued is lost
  /\ worker_alive
  /\ miner_pc = "returned"
  /\ pc[MinerWorker] = "recv"
  /\ worker_alive' = FALSE
  /\ finished' = <<>>
  /\ UNCHANGED <<chainVars, block_state, miner_tip, orphan_blocks, pc, localVars,
                 block, state, mined, announced, threadVars, control_chan, historyVars>>

WorkerPanics ==
  /\ worker_alive
  /\ miner_pc = "returned"
  /\ finished = <<>>
  /\ pc[MinerWorker] = "recv"
  /\ worker_alive' = FALSE
  /\ UNCHANGED <<vars, threadVars, control_chan, historyVars>>

-----------------------------------------------------------------------------
MinerLoop ==
  \/ RecvPaused
  \/ TryRecv
  \/ Return
  \/ MakeHeader
  \/ \E b \in OwnBlocks : NonceGood(b)
  \/ NonceBad

NetworkWorker(w) == WorkerStep(w) /\ UNCHANGED controlVars

MinerWorkerThread ==
  \/ MinerWorkerStep /\ UNCHANGED controlVars
  \/ WorkerPanics

MinerNext ==
  \/ ApiMinerStart
  \/ Call("Update")
  \/ Call("Exit")
  \/ MinerLoop
  \/ \E w \in Worker, bs \in Deliveries : RecvBlocks(w, bs) /\ UNCHANGED controlVars
  \/ \E w \in Worker : NetworkWorker(w)
  \/ MinerWorkerThread

MinerSpec == MinerInit /\ [][MinerNext]_minerVars

(* Threads are scheduled and mutexes are granted; nobody has to send, and  *)
(* no nonce has to be good.                                                *)
MinerFairSpec ==
  /\ MinerSpec
  /\ WF_minerVars(MinerLoop)
  /\ \A w \in Worker : WF_minerVars(NetworkWorker(w))
  /\ WF_minerVars(MinerWorkerThread)
-----------------------------------------------------------------------------
(* exit() stops the miner at its next look at the channel: the nonce under *)
(* way and one for each signal queued before it may still be good, and no  *)
(* other.                                                                  *)
FewBlocksAfterExit ==
  exit # None => Len(sent) - exit.sent <= exit.ahead + 1

(* The panic of the miner worker loses nothing: what the miner found is    *)
(* announced by then, unless it fails on the state of its parent.          *)
NothingLeftBehind ==
  ~ worker_alive =>
    \A b \in mined : Replay(StateBefore(b), Txs(b)).ok => b \in announced

(* An exit in Paused and in Run, ahead of other signals or behind them:    *)
(* the miner returns, and its worker ends after it.                        *)
ExitEndsBoth == (exit # None) ~> (miner_pc = "returned" /\ ~ worker_alive)

(* The test miner_three_block: the next block sent is built on the one     *)
(* before.                                                                 *)
EachBuildsOnTheLast == \A i \in 1 .. Len(sent) - 1 : Parent(sent[i + 1]) = sent[i]
=============================================================================
