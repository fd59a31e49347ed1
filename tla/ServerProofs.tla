---------------------------- MODULE ServerProofs ----------------------------
(***************************************************************************)
(* Proofs about module Server, for any connections, addresses, callers and *)
(* capacity of the control channel: what `peers` has to do with the writer *)
(* tasks that are there.                                                   *)
(***************************************************************************)
EXTENDS Server, SequenceTheorems, TLAPS

(* The strengthening.  A connection is asked for or accepted once and      *)
(* registered once, so its writer is not there while the signal that will  *)
(* register it is under way; a DroppedPeer has an ended writer behind it.  *)
UnderWay(signal) == \E i \in 1 .. Len(control_chan) : control_chan[i] = signal

RegistersOnce ==
  \A i, j \in 1 .. Len(control_chan) :
    /\ control_chan[i].type \in {"GetNewPeer", "ConnectNewPeer"}
    /\ control_chan[j] = control_chan[i]
    => i = j

AcceptedOnce ==
  \A c \in Conn \ Outgoing : UnderWay(GetNewPeer(c)) =>
    writer[c] = "none" /\ socket[c] \notin {"none", "backlog"}

AskedOnce ==
  \A c \in Outgoing : UnderWay(ConnectNewPeer(c)) =>
    writer[c] = "none" /\ socket[c] = "none" /\ c \in asked \ connecting

DroppedEnded ==
  \A a \in Addr : UnderWay(DroppedPeer(a)) =>
    \E c \in Conn : addr[c] = a /\ writer[c] = "ended"

ConnectionsOK ==
  \A c \in Conn :
    /\ socket[c] \in {"none", "backlog"} => writer[c] = "none"
    /\ c \in connecting => writer[c] = "none" /\ socket[c] = "none" /\ c \in asked
    /\ socket[c] = "backlog" => c \notin Outgoing

PeersOK ==
  \A a \in DOMAIN peers : addr[peers[a]] = a /\ writer[peers[a]] # "none"

(* PeersHear also when the executor has stopped.                           *)
Hears ==
  \A c \in Conn : writer[c] = "runs" /\ AddressIsItsOwn(c) =>
    addr[c] \in DOMAIN peers /\ peers[addr[c]] = c

EndedLeaves ==
  \A a \in DOMAIN peers :
    writer[peers[a]] = "ended" => UnderWay(DroppedPeer(a))

SignalsInv == RegistersOnce /\ AcceptedOnce /\ AskedOnce /\ DroppedEnded
PeersInv == PeersOK /\ Hears /\ EndedLeaves

Inv == TypeOK /\ SignalsInv /\ ConnectionsOK /\ PeersInv

-----------------------------------------------------------------------------
LEMMA SignalFacts ==
  /\ BroadcastMessage \in ControlSignal
  /\ \A c \in Outgoing : ConnectNewPeer(c) \in ControlSignal
  /\ \A c \in Conn \ Outgoing : GetNewPeer(c) \in ControlSignal
  /\ \A a \in Addr : DroppedPeer(a) \in ControlSignal
  /\ BroadcastMessage.type = "BroadcastMessage"
  /\ \A c : ConnectNewPeer(c).type = "ConnectNewPeer" /\ ConnectNewPeer(c).conn = c
  /\ \A c : GetNewPeer(c).type = "GetNewPeer" /\ GetNewPeer(c).conn = c
  /\ \A a : DroppedPeer(a).type = "DroppedPeer" /\ DroppedPeer(a).addr = a
BY DEF ControlSignal, BroadcastMessage, ConnectNewPeer, GetNewPeer, DroppedPeer

LEMMA SignalForms ==
  ASSUME NEW signal \in ControlSignal
  PROVE  /\ signal.type = "ConnectNewPeer" =>
              signal.conn \in Outgoing /\ signal = ConnectNewPeer(signal.conn)
         /\ signal.type = "GetNewPeer" =>
              signal.conn \in Conn \ Outgoing /\ signal = GetNewPeer(signal.conn)
         /\ signal.type = "DroppedPeer" =>
              signal.addr \in Addr /\ signal = DroppedPeer(signal.addr)
<1> USE SignalFacts
<1>1. CASE signal = BroadcastMessage
  BY <1>1
<1>2. CASE \E c \in Outgoing : signal = ConnectNewPeer(c)
  BY <1>2
<1>3. CASE \E c \in Conn \ Outgoing : signal = GetNewPeer(c)
  BY <1>3
<1>4. CASE \E a \in Addr : signal = DroppedPeer(a)
  BY <1>4
<1> QED
  BY <1>1, <1>2, <1>3, <1>4 DEF ControlSignal

(* The channel after a send, and after the dispatcher's recv().            *)
LEMMA Sent ==
  ASSUME TypeOK, NEW signal \in ControlSignal, Send(signal)
  PROVE  /\ control_chan' \in Seq(ControlSignal)
         /\ Len(control_chan') = Len(control_chan) + 1
         /\ Len(control_chan') <= Capacity
         /\ Len(control_chan) \in Nat
         /\ \A i \in 1 .. Len(control_chan) : control_chan'[i] = control_chan[i]
         /\ control_chan'[Len(control_chan) + 1] = signal
BY ServerAssumption DEF TypeOK, Send

LEMMA Taken ==
  ASSUME TypeOK, NEW signal, Receives(signal)
  PROVE  /\ signal \in ControlSignal /\ control_chan[1] = signal
         /\ control_chan' \in Seq(ControlSignal)
         /\ Len(control_chan) \in Nat /\ Len(control_chan) >= 1
         /\ Len(control_chan') = Len(control_chan) - 1
         /\ Len(control_chan') <= Capacity
         /\ \A i \in 1 .. Len(control_chan') : control_chan'[i] = control_chan[i + 1]
         /\ connecting = {} /\ up
BY ServerAssumption DEF TypeOK, Receives
-----------------------------------------------------------------------------
LEMMA TypeInit == Init => TypeOK
BY ServerAssumption DEF Init, TypeOK

(* Both ways to register a connection.                                     *)
LEMMA RegisterType ==
  ASSUME TypeOK, NEW c \in Conn, Register(c)
  PROVE  /\ DOMAIN peers' \subseteq Addr
         /\ \A a \in DOMAIN peers' : peers'[a] \in Conn
         /\ reader' \in [Conn -> {"none", "runs", "ended"}]
         /\ writer' \in [Conn -> {"none", "runs", "dropping", "ended"}]
         /\ write_queue' \in [Conn -> Nat]
         /\ received' \in [Conn -> Nat]
         /\ handles' \in [Conn -> Nat]
<1>1. addr[c] \in Addr
  BY ServerAssumption DEF TypeOK
<1> QED
  BY <1>1 DEF TypeOK, Register, PeersWith

LEMMA CallsType ==
  ASSUME TypeOK, NEW t \in Caller, CallBroadcast(t) \/ BroadcastReturns(t)
  PROVE  TypeOK'
<1> USE DEF connVars
<1>1. CASE CallBroadcast(t)
  BY <1>1 DEF TypeOK, CallBroadcast
<1>2. CASE BroadcastReturns(t)
  <2>1. control_chan' \in Seq(ControlSignal) /\ Len(control_chan') <= Capacity
    BY <1>2, Sent, SignalFacts DEF BroadcastReturns
  <2> QED
    BY <1>2, <2>1 DEF TypeOK, BroadcastReturns
<1> QED
  BY <1>1, <1>2

LEMMA EndsType ==
  ASSUME TypeOK, ConnectionsOK, NEW c \in Conn,
         \/ CallConnect(c) \/ RemoteConnects(c) \/ RemoteCloses(c) \/ RemoteResets(c)
         \/ ListenerLoop(c)
  PROVE  TypeOK'
<1> USE DEF connVars, callVars
<1>1. CASE CallConnect(c)
  <2>1. c \in Outgoing
    BY <1>1 DEF CallConnect
  <2>2. control_chan' \in Seq(ControlSignal) /\ Len(control_chan') <= Capacity
    BY <1>1, <2>1, Sent, SignalFacts DEF CallConnect
  <2> QED
    BY <1>1, <2>1, <2>2 DEF TypeOK, CallConnect
<1>2. CASE RemoteConnects(c) \/ RemoteCloses(c) \/ RemoteResets(c)
  BY <1>2 DEF TypeOK, RemoteConnects, RemoteCloses, RemoteResets
<1>3. CASE ListenerLoop(c)
  <2>0. c \in Conn \ Outgoing
    BY <1>3 DEF ListenerLoop, ConnectionsOK
  <2>1. control_chan' \in Seq(ControlSignal) /\ Len(control_chan') <= Capacity
    BY <1>3, <2>0, Sent, SignalFacts DEF ListenerLoop
  <2> QED
    BY <1>3, <2>1 DEF TypeOK, ListenerLoop
<1> QED
  BY <1>1, <1>2, <1>3

LEMMA DispatchType == ASSUME TypeOK, Dispatch PROVE TypeOK'
<1> USE DEF connVars, callVars
<1>1. ASSUME NEW signal, Receives(signal)
      PROVE  control_chan' \in Seq(ControlSignal) /\ Len(control_chan') <= Capacity
  BY <1>1, Taken
<1>2. ASSUME NEW c \in Conn, DispatchConnect(c) PROVE TypeOK'
  <2>1. c \in Outgoing
    BY <1>2, Taken, SignalForms, SignalFacts DEF DispatchConnect
  <2> QED
    BY <1>1, <1>2, <2>1 DEF TypeOK, DispatchConnect
<1>3. ASSUME NEW c \in Conn, ConnectSucceeds(c) PROVE TypeOK'
  <2>1. Register(c)
    BY <1>3 DEF ConnectSucceeds
  <2> QED
    BY <1>3, <2>1, RegisterType DEF TypeOK, ConnectSucceeds
<1>4. ASSUME NEW c \in Conn, ConnectFails(c) PROVE TypeOK'
  BY <1>4 DEF TypeOK, ConnectFails
<1>5. ASSUME NEW c \in Conn, DispatchGetNewPeer(c) PROVE TypeOK'
  <2>1. Register(c)
    BY <1>5 DEF DispatchGetNewPeer
  <2> QED
    BY <1>1, <1>5, <2>1, RegisterType DEF TypeOK, DispatchGetNewPeer
<1>6. ASSUME NEW c \in Conn, DispatchGetNewPeerFails(c) PROVE TypeOK'
  <2>1. control_chan' \in Seq(ControlSignal) /\ Len(control_chan') <= Capacity
    BY <1>1, <1>6 DEF DispatchGetNewPeerFails
  <2> QED
    BY <1>6, <2>1 DEF TypeOK, DispatchGetNewPeerFails
<1>7. CASE DispatchBroadcast
  <2>1. control_chan' \in Seq(ControlSignal) /\ Len(control_chan') <= Capacity
    BY <1>1, <1>7 DEF DispatchBroadcast
  <2>2. write_queue' \in [Conn -> Nat]
    BY <1>7 DEF TypeOK, DispatchBroadcast
  <2> QED
    BY <1>7, <2>1, <2>2 DEF TypeOK, DispatchBroadcast
<1>8. ASSUME NEW a \in Addr, DispatchDroppedPeer(a) PROVE TypeOK'
  <2>1. control_chan' \in Seq(ControlSignal) /\ Len(control_chan') <= Capacity
    BY <1>1, <1>8 DEF DispatchDroppedPeer
  <2>2. peers' = [b \in DOMAIN peers \ {a} |-> peers[b]]
    BY <1>8 DEF DispatchDroppedPeer, Restrict
  <2> QED
    BY <1>8, <2>1, <2>2 DEF TypeOK, DispatchDroppedPeer
<1> QED
  BY <1>2, <1>3, <1>4, <1>5, <1>6, <1>7, <1>8 DEF Dispatch

LEMMA TasksType ==
  ASSUME TypeOK, NEW c \in Conn,
         \/ ReaderReceives(c) \/ ReaderEnds(c) \/ WriterTask(c)
         \/ \E answers \in {0, 1} : WorkerHandles(c, answers)
  PROVE  TypeOK'
<1> USE DEF callVars
<1>1. CASE ReaderReceives(c) \/ ReaderEnds(c)
  <2>1. handles[c] + 1 \in Nat /\ received[c] + 1 \in Nat
    BY DEF TypeOK
  <2>2. handles' \in [Conn -> Nat]
    BY <1>1, <2>1 DEF TypeOK, ReaderReceives, ReaderEnds
  <2>3. received' \in [Conn -> Nat]
    BY <1>1, <2>1 DEF TypeOK, ReaderReceives, ReaderEnds
  <2> QED
    BY <1>1, <2>2, <2>3 DEF TypeOK, ReaderReceives, ReaderEnds
<1>2. ASSUME NEW answers \in {0, 1}, WorkerHandles(c, answers) PROVE TypeOK'
  <2>1. handles' \in [Conn -> Nat]
    <3>1. handles[c] \in Nat /\ handles[c] > 0
      BY <1>2 DEF TypeOK, WorkerHandles
    <3> QED
      BY <1>2, <3>1 DEF TypeOK, WorkerHandles
  <2>2. write_queue' \in [Conn -> Nat]
    <3>1. write_queue[c] + answers \in Nat
      BY DEF TypeOK
    <3> QED
      BY <1>2, <3>1 DEF TypeOK, WorkerHandles
  <2> QED
    BY <1>2, <2>1, <2>2 DEF TypeOK, WorkerHandles
<1>3. CASE WriterWrites(c) \/ WriterFails(c)
  <2>1. write_queue[c] - 1 \in Nat
    BY <1>3 DEF TypeOK, WriterWrites, WriterFails
  <2>2. write_queue' \in [Conn -> Nat]
    BY <1>3, <2>1 DEF TypeOK, WriterWrites, WriterFails
  <2> QED
    BY <1>3, <2>2 DEF TypeOK, WriterWrites, WriterFails
<1>4. CASE WriterEnds(c)
  <2>1. addr[c] \in Addr
    BY ServerAssumption DEF TypeOK
  <2>2. control_chan' \in Seq(ControlSignal) /\ Len(control_chan') <= Capacity
    BY <1>4, <2>1, Sent, SignalFacts DEF WriterEnds
  <2> QED
    BY <1>4, <2>2 DEF TypeOK, WriterEnds
<1>5. CASE WriterPanics(c)
  BY <1>5 DEF TypeOK, WriterPanics, connVars
<1> QED
  BY <1>1, <1>2, <1>3, <1>4, <1>5 DEF WriterTask

LEMMA TypeStep == ASSUME TypeOK, ConnectionsOK, [Next]_vars PROVE TypeOK'
<1>1. CASE UNCHANGED vars
  BY <1>1 DEF TypeOK, vars, callVars, connVars
<1> QED
  BY <1>1, CallsType, EndsType, DispatchType, TasksType DEF Next
-----------------------------------------------------------------------------
(* Which signals are under way after a send, after recv(), and without     *)
(* either.                                                                 *)
LEMMA SentSignals ==
  ASSUME TypeOK, RegistersOnce, NEW signal \in ControlSignal, Send(signal),
         signal.type \in {"GetNewPeer", "ConnectNewPeer"} => ~ UnderWay(signal)
  PROVE  /\ RegistersOnce'
         /\ \A s : UnderWay(s)' <=> UnderWay(s) \/ s = signal
<1>1. /\ Len(control_chan) \in Nat /\ Len(control_chan') = Len(control_chan) + 1
      /\ \A i \in 1 .. Len(control_chan) : control_chan'[i] = control_chan[i]
      /\ control_chan'[Len(control_chan) + 1] = signal
  BY Sent
<1>2. \A i \in 1 .. Len(control_chan') :
        i \in 1 .. Len(control_chan) \/ i = Len(control_chan) + 1
  BY <1>1
<1>3. Len(control_chan) + 1 \in 1 .. Len(control_chan')
      /\ 1 .. Len(control_chan) \subseteq 1 .. Len(control_chan')
  BY <1>1
<1>4. RegistersOnce'
  <2> SUFFICES ASSUME NEW i \in 1 .. Len(control_chan'), NEW j \in 1 .. Len(control_chan'),
                      control_chan'[i].type \in {"GetNewPeer", "ConnectNewPeer"},
                      control_chan'[j] = control_chan'[i]
               PROVE  i = j
    BY DEF RegistersOnce
  <2>1. CASE i \in 1 .. Len(control_chan) /\ j \in 1 .. Len(control_chan)
    BY <1>1, <2>1 DEF RegistersOnce
  <2>2. CASE i = Len(control_chan) + 1 /\ j = Len(control_chan) + 1
    BY <2>2
  <2>3. CASE i = Len(control_chan) + 1 /\ j \in 1 .. Len(control_chan)
    BY <1>1, <2>3 DEF UnderWay
  <2>4. CASE i \in 1 .. Len(control_chan) /\ j = Len(control_chan) + 1
    BY <1>1, <2>4 DEF UnderWay
  <2> QED
    BY <1>2, <2>1, <2>2, <2>3, <2>4
<1>5. ASSUME NEW s PROVE UnderWay(s)' <=> UnderWay(s) \/ s = signal
  BY <1>1, <1>2, <1>3 DEF UnderWay
<1> QED
  BY <1>4, <1>5

LEMMA TakenSignals ==
  ASSUME TypeOK, RegistersOnce, NEW signal, Receives(signal)
  PROVE  /\ RegistersOnce'
         /\ UnderWay(signal)
         /\ \A s : UnderWay(s)' => UnderWay(s)
         /\ \A s : UnderWay(s) /\ s # signal => UnderWay(s)'
         /\ signal.type \in {"GetNewPeer", "ConnectNewPeer"} => ~ UnderWay(signal)'
<1>1. /\ Len(control_chan) \in Nat /\ Len(control_chan) >= 1
      /\ Len(control_chan') = Len(control_chan) - 1
      /\ \A i \in 1 .. Len(control_chan') : control_chan'[i] = control_chan[i + 1]
      /\ control_chan[1] = signal
  BY Taken
<1>2. \A i \in 1 .. Len(control_chan') :
        i + 1 \in 1 .. Len(control_chan) /\ i + 1 # 1 /\ i \in Nat
  BY <1>1
<1>3. \A i \in 1 .. Len(control_chan) :
        i = 1 \/ (i - 1 \in 1 .. Len(control_chan') /\ (i - 1) + 1 = i)
  BY <1>1
<1>4. RegistersOnce'
  <2> SUFFICES ASSUME NEW i \in 1 .. Len(control_chan'), NEW j \in 1 .. Len(control_chan'),
                      control_chan'[i].type \in {"GetNewPeer", "ConnectNewPeer"},
                      control_chan'[j] = control_chan'[i]
               PROVE  i = j
    BY DEF RegistersOnce
  <2>1. i + 1 = j + 1
    BY <1>1, <1>2 DEF RegistersOnce
  <2> QED
    BY <2>1, <1>2
<1>5. UnderWay(signal)
  BY <1>1 DEF UnderWay
<1>6. ASSUME NEW s, UnderWay(s)' PROVE UnderWay(s)
  BY <1>1, <1>2, <1>6 DEF UnderWay
<1>7. ASSUME NEW s, UnderWay(s), s # signal PROVE UnderWay(s)'
  <2>1. PICK i \in 1 .. Len(control_chan) : control_chan[i] = s
    BY <1>7 DEF UnderWay
  <2>2. i - 1 \in 1 .. Len(control_chan') /\ (i - 1) + 1 = i
    BY <1>1, <1>3, <1>7, <2>1
  <2>3. control_chan'[i - 1] = s
    BY <1>1, <2>1, <2>2
  <2> QED
    BY <2>2, <2>3 DEF UnderWay
<1>8. ASSUME signal.type \in {"GetNewPeer", "ConnectNewPeer"}, UnderWay(signal)'
      PROVE  FALSE
  <2>1. PICK i \in 1 .. Len(control_chan') : control_chan'[i] = signal
    BY <1>8 DEF UnderWay
  <2>2. control_chan[i + 1] = signal /\ i + 1 \in 1 .. Len(control_chan) /\ i + 1 # 1
    BY <1>1, <1>2, <2>1
  <2>3. 1 \in 1 .. Len(control_chan)
    BY <1>1
  <2> QED
    BY <1>1, <1>8, <2>2, <2>3 DEF RegistersOnce
<1> QED
  BY <1>4, <1>5, <1>6, <1>7, <1>8

LEMMA KeptSignals ==
  ASSUME UNCHANGED control_chan
  PROVE  /\ RegistersOnce => RegistersOnce'
         /\ \A s : UnderWay(s)' <=> UnderWay(s)
BY DEF RegistersOnce, UnderWay

LEMMA SignalsDiffer ==
  /\ \A c, d : GetNewPeer(c) = GetNewPeer(d) => c = d
  /\ \A c, d : ConnectNewPeer(c) = ConnectNewPeer(d) => c = d
  /\ \A a, b : DroppedPeer(a) = DroppedPeer(b) => a = b
  /\ \A c, d : GetNewPeer(c) # ConnectNewPeer(d)
  /\ \A c, a : GetNewPeer(c) # DroppedPeer(a) /\ ConnectNewPeer(c) # DroppedPeer(a)
  /\ \A c : GetNewPeer(c) # BroadcastMessage /\ ConnectNewPeer(c) # BroadcastMessage
  /\ \A a : DroppedPeer(a) # BroadcastMessage
<1>1. \A c, d : GetNewPeer(c) = GetNewPeer(d) => c = d
  BY SignalFacts
<1>2. \A c, d : ConnectNewPeer(c) = ConnectNewPeer(d) => c = d
  BY SignalFacts
<1>3. \A a, b : DroppedPeer(a) = DroppedPeer(b) => a = b
  BY SignalFacts
<1>4. /\ \A c, d : GetNewPeer(c) # ConnectNewPeer(d)
      /\ \A c, a : GetNewPeer(c) # DroppedPeer(a) /\ ConnectNewPeer(c) # DroppedPeer(a)
  BY SignalFacts
<1>5. /\ \A c : GetNewPeer(c) # BroadcastMessage /\ ConnectNewPeer(c) # BroadcastMessage
      /\ \A a : DroppedPeer(a) # BroadcastMessage
  BY SignalFacts
<1> QED
  BY <1>1, <1>2, <1>3, <1>4, <1>5

(* While `peers`, the addresses and the writers stay, what the invariant   *)
(* says of them does, as long as no DroppedPeer is lost.                   *)
LEMMA PeersStay ==
  ASSUME PeersInv, UNCHANGED <<addr, peers, writer>>,
         \A a \in Addr : UnderWay(DroppedPeer(a)) => UnderWay(DroppedPeer(a))',
         DOMAIN peers \subseteq Addr
  PROVE  PeersInv'
<1>1. PeersOK'
  BY DEF PeersInv, PeersOK
<1>2. Hears'
  BY DEF PeersInv, Hears, AddressIsItsOwn
<1>3. EndedLeaves'
  BY DEF PeersInv, EndedLeaves
<1> QED
  BY <1>1, <1>2, <1>3 DEF PeersInv

(* The steps that leave all that alone.                                    *)
LEMMA QuietStep ==
  ASSUME Inv, UNCHANGED <<addr, control_chan, connecting, peers, asked, socket, writer>>
  PROVE  SignalsInv' /\ ConnectionsOK' /\ PeersInv'
<1>0. \A s : UnderWay(s)' <=> UnderWay(s)
  BY KeptSignals
<1>1. RegistersOnce'
  BY KeptSignals DEF Inv, SignalsInv
<1>2. AcceptedOnce' /\ AskedOnce' /\ DroppedEnded'
  BY <1>0 DEF Inv, SignalsInv, AcceptedOnce, AskedOnce, DroppedEnded
<1>3. ConnectionsOK'
  BY DEF Inv, ConnectionsOK
<1>4. PeersInv'
  BY <1>0, PeersStay DEF Inv, TypeOK
<1> QED
  BY <1>1, <1>2, <1>3, <1>4 DEF SignalsInv

-----------------------------------------------------------------------------
(* The threads outside the executor.                                       *)
LEMMA BroadcastReturnsStep ==
  ASSUME Inv, NEW t \in Caller, BroadcastReturns(t)
  PROVE  SignalsInv' /\ ConnectionsOK' /\ PeersInv'
<1>0. TypeOK /\ UNCHANGED <<addr, peers, connecting, asked, socket, writer>>
  BY DEF Inv, BroadcastReturns, connVars
<1>1. RegistersOnce' /\ \A s : UnderWay(s)' <=> UnderWay(s) \/ s = BroadcastMessage
  BY SentSignals, SignalFacts DEF Inv, SignalsInv, BroadcastReturns
<1>2. AcceptedOnce' /\ AskedOnce' /\ DroppedEnded'
  BY <1>0, <1>1, SignalsDiffer
     DEF Inv, SignalsInv, AcceptedOnce, AskedOnce, DroppedEnded
<1>3. ConnectionsOK'
  BY <1>0 DEF Inv, ConnectionsOK
<1>4. PeersInv'
  BY <1>0, <1>1, PeersStay DEF Inv, TypeOK
<1> QED
  BY <1>1, <1>2, <1>3, <1>4 DEF SignalsInv

LEMMA CallConnectStep ==
  ASSUME Inv, NEW c \in Conn, CallConnect(c)
  PROVE  SignalsInv' /\ ConnectionsOK' /\ PeersInv'
<1>0. /\ TypeOK /\ UNCHANGED <<addr, peers, connecting, socket, writer>>
      /\ c \in Outgoing /\ c \notin asked /\ asked' = asked \cup {c}
      /\ socket[c] = "none" /\ Send(ConnectNewPeer(c))
  BY DEF Inv, CallConnect, connVars
<1>1. writer[c] = "none" /\ c \notin connecting
  BY <1>0 DEF Inv, ConnectionsOK
<1>2. ~ UnderWay(ConnectNewPeer(c))
  BY <1>0 DEF Inv, SignalsInv, AskedOnce
<1>3. RegistersOnce' /\ \A s : UnderWay(s)' <=> UnderWay(s) \/ s = ConnectNewPeer(c)
  BY <1>0, <1>2, SentSignals, SignalFacts DEF Inv, SignalsInv
<1>4. AcceptedOnce' /\ DroppedEnded'
  BY <1>0, <1>3, SignalsDiffer DEF Inv, SignalsInv, AcceptedOnce, DroppedEnded
<1>5. AskedOnce'
  BY <1>0, <1>1, <1>3, SignalsDiffer DEF Inv, SignalsInv, AskedOnce
<1>6. ConnectionsOK'
  BY <1>0 DEF Inv, ConnectionsOK
<1>7. PeersInv'
  BY <1>0, <1>3, PeersStay DEF Inv, TypeOK
<1> QED
  BY <1>3, <1>4, <1>5, <1>6, <1>7 DEF SignalsInv

(* The other ends and the listener.                                        *)
LEMMA RemoteStep ==
  ASSUME Inv, NEW c \in Conn, RemoteConnects(c) \/ RemoteCloses(c) \/ RemoteResets(c)
  PROVE  SignalsInv' /\ ConnectionsOK' /\ PeersInv'
<1>0. /\ TypeOK
      /\ UNCHANGED <<addr, control_chan, peers, connecting, asked, writer>>
  BY DEF Inv, RemoteConnects, RemoteCloses, RemoteResets, callVars
<1>1. RegistersOnce' /\ \A s : UnderWay(s)' <=> UnderWay(s)
  BY <1>0, KeptSignals DEF Inv, SignalsInv
<1>2. \A d \in Conn : d # c => socket'[d] = socket[d]
  BY <1>0 DEF TypeOK, RemoteConnects, RemoteCloses, RemoteResets
<1>3. \/ socket[c] = "none" /\ socket'[c] = "backlog" /\ c \notin Outgoing
      \/ /\ socket[c] \notin {"none", "backlog"}
         /\ socket'[c] \notin {"none", "backlog"}
  BY <1>0 DEF TypeOK, RemoteConnects, RemoteCloses, RemoteResets
<1>4. AcceptedOnce'
  BY <1>0, <1>1, <1>2, <1>3 DEF Inv, SignalsInv, AcceptedOnce
<1>5. AskedOnce'
  BY <1>0, <1>1, <1>2, <1>3, ServerAssumption DEF Inv, SignalsInv, AskedOnce
<1>6. DroppedEnded'
  BY <1>0, <1>1 DEF Inv, SignalsInv, DroppedEnded
<1>7. ConnectionsOK'
  <2>1. connecting \subseteq Outgoing
    BY <1>0 DEF TypeOK
  <2> QED
    BY <1>0, <1>2, <1>3, <2>1 DEF Inv, ConnectionsOK
<1>8. PeersInv'
  BY <1>0, <1>1, PeersStay DEF Inv, TypeOK
<1> QED
  BY <1>1, <1>4, <1>5, <1>6, <1>7, <1>8 DEF SignalsInv

LEMMA ListenerStep ==
  ASSUME Inv, NEW c \in Conn, ListenerLoop(c)
  PROVE  SignalsInv' /\ ConnectionsOK' /\ PeersInv'
<1>0. /\ TypeOK /\ UNCHANGED <<addr, peers, connecting, asked, writer>>
      /\ socket[c] = "backlog" /\ Send(GetNewPeer(c))
      /\ socket' = [socket EXCEPT ![c] = "open"]
  BY DEF Inv, ListenerLoop, callVars
<1>1. c \in Conn \ Outgoing /\ writer[c] = "none"
  BY <1>0 DEF Inv, ConnectionsOK
<1>2. ~ UnderWay(GetNewPeer(c))
  BY <1>0, <1>1 DEF Inv, SignalsInv, AcceptedOnce
<1>3. RegistersOnce' /\ \A s : UnderWay(s)' <=> UnderWay(s) \/ s = GetNewPeer(c)
  BY <1>0, <1>1, <1>2, SentSignals, SignalFacts DEF Inv, SignalsInv
<1>4. socket'[c] = "open" /\ \A d \in Conn : d # c => socket'[d] = socket[d]
  BY <1>0 DEF TypeOK
<1>5. AcceptedOnce'
  BY <1>0, <1>1, <1>3, <1>4, SignalsDiffer DEF Inv, SignalsInv, AcceptedOnce
<1>6. AskedOnce'
  BY <1>0, <1>1, <1>3, <1>4, SignalsDiffer, ServerAssumption
     DEF Inv, SignalsInv, AskedOnce
<1>7. DroppedEnded'
  BY <1>0, <1>3, SignalsDiffer DEF Inv, SignalsInv, DroppedEnded
<1>8. ConnectionsOK'
  <2>1. connecting \subseteq Outgoing
    BY <1>0 DEF TypeOK
  <2> QED
    BY <1>0, <1>1, <1>4, <2>1 DEF Inv, ConnectionsOK
<1>9. PeersInv'
  BY <1>0, <1>3, PeersStay DEF Inv, TypeOK
<1> QED
  BY <1>3, <1>5, <1>6, <1>7, <1>8, <1>9 DEF SignalsInv

-----------------------------------------------------------------------------
(* The dispatcher.                                                         *)
LEMMA DispatchConnectStep ==
  ASSUME Inv, NEW c \in Conn, DispatchConnect(c)
  PROVE  SignalsInv' /\ ConnectionsOK' /\ PeersInv'
<1>0. /\ TypeOK /\ UNCHANGED <<addr, peers, asked, socket, writer>>
      /\ Receives(ConnectNewPeer(c)) /\ connecting' = {c}
  BY DEF Inv, DispatchConnect, callVars, connVars
<1>1. c \in Outgoing
  BY <1>0, Taken, SignalForms, SignalFacts
<1>2. /\ RegistersOnce' /\ UnderWay(ConnectNewPeer(c))
      /\ \A s : UnderWay(s)' => UnderWay(s)
      /\ \A s : UnderWay(s) /\ s # ConnectNewPeer(c) => UnderWay(s)'
      /\ ~ UnderWay(ConnectNewPeer(c))'
      /\ connecting = {}
  BY <1>0, TakenSignals, Taken, SignalFacts DEF Inv, SignalsInv
<1>3. AcceptedOnce' /\ DroppedEnded'
  BY <1>0, <1>2 DEF Inv, SignalsInv, AcceptedOnce, DroppedEnded
<1>4. AskedOnce'
  BY <1>0, <1>2 DEF Inv, SignalsInv, AskedOnce
<1>5. ConnectionsOK'
  BY <1>0, <1>1, <1>2 DEF Inv, SignalsInv, AskedOnce, ConnectionsOK
<1>6. PeersInv'
  BY <1>0, <1>2, PeersStay, SignalsDiffer DEF Inv, TypeOK
<1> QED
  BY <1>2, <1>3, <1>4, <1>5, <1>6 DEF SignalsInv

LEMMA ConnectFailsStep ==
  ASSUME Inv, NEW c \in Conn, ConnectFails(c)
  PROVE  SignalsInv' /\ ConnectionsOK' /\ PeersInv'
<1>0. /\ TypeOK /\ UNCHANGED <<addr, peers, control_chan, socket, writer>>
      /\ c \in connecting /\ connecting' = {} /\ asked' = asked \ {c}
  BY DEF Inv, ConnectFails, connVars
<1>1. RegistersOnce' /\ \A s : UnderWay(s)' <=> UnderWay(s)
  BY <1>0, KeptSignals DEF Inv, SignalsInv
<1>2. AcceptedOnce' /\ DroppedEnded'
  BY <1>0, <1>1 DEF Inv, SignalsInv, AcceptedOnce, DroppedEnded
<1>3. AskedOnce'
  BY <1>0, <1>1 DEF Inv, SignalsInv, AskedOnce
<1>4. ConnectionsOK'
  BY <1>0 DEF Inv, ConnectionsOK
<1>5. PeersInv'
  BY <1>0, <1>1, PeersStay DEF Inv, TypeOK
<1> QED
  BY <1>1, <1>2, <1>3, <1>4, <1>5 DEF SignalsInv

(* A new connection takes its place in `peers`, and no older one under its *)
(* address can still count on that address being its own.                  *)
LEMMA RegisterPeers ==
  ASSUME Inv, NEW c \in Conn, Register(c), writer[c] = "none", UNCHANGED addr,
         \A a \in Addr : UnderWay(DroppedPeer(a)) => UnderWay(DroppedPeer(a))'
  PROVE  PeersInv'
<1>0. TypeOK /\ addr[c] \in Addr
  BY ServerAssumption DEF Inv, TypeOK
<1>1. writer'[c] = "runs" /\ \A d \in Conn : d # c => writer'[d] = writer[d]
  BY <1>0 DEF TypeOK, Register
<1>2. /\ DOMAIN peers' = DOMAIN peers \cup {addr[c]}
      /\ peers'[addr[c]] = c
      /\ \A a \in DOMAIN peers : a # addr[c] => peers'[a] = peers[a]
  BY DEF Register, PeersWith
<1>3. \A a \in DOMAIN peers : a \in Addr /\ peers[a] \in Conn /\ peers[a] # c
  BY <1>0 DEF Inv, PeersInv, PeersOK, TypeOK
<1>4. PeersOK'
  BY <1>1, <1>2, <1>3 DEF Inv, PeersInv, PeersOK
<1>5. Hears'
  <2> SUFFICES ASSUME NEW d \in Conn, writer'[d] = "runs", AddressIsItsOwn(d)'
               PROVE  addr[d] \in DOMAIN peers' /\ peers'[addr[d]] = d
    BY DEF Hears
  <2>1. CASE d = c
    BY <1>2, <2>1
  <2>2. CASE d # c
    <3>1. addr[d] # addr[c]
      BY <1>1, <2>2 DEF AddressIsItsOwn
    <3>2. AddressIsItsOwn(d)
      BY <1>1, <3>1, <2>2 DEF AddressIsItsOwn
    <3> QED
      BY <1>1, <1>2, <2>2, <3>1, <3>2 DEF Inv, PeersInv, Hears
  <2> QED
    BY <2>1, <2>2
<1>6. EndedLeaves'
  BY <1>1, <1>2, <1>3 DEF Inv, PeersInv, EndedLeaves
<1> QED
  BY <1>4, <1>5, <1>6 DEF PeersInv

LEMMA ConnectSucceedsStep ==
  ASSUME Inv, NEW c \in Conn, ConnectSucceeds(c)
  PROVE  SignalsInv' /\ ConnectionsOK' /\ PeersInv'
<1>0. /\ TypeOK /\ UNCHANGED <<addr, control_chan>> /\ Register(c)
      /\ c \in connecting /\ connecting' = {} /\ asked' = asked \ {c}
      /\ socket' = [socket EXCEPT ![c] = "open"]
      /\ writer' = [writer EXCEPT ![c] = "runs"]
  BY DEF Inv, ConnectSucceeds, Register
<1>1. RegistersOnce' /\ \A s : UnderWay(s)' <=> UnderWay(s)
  BY <1>0, KeptSignals DEF Inv, SignalsInv
<1>2. c \in Outgoing /\ writer[c] = "none"
  BY <1>0 DEF Inv, TypeOK, ConnectionsOK
<1>3. /\ writer'[c] = "runs" /\ socket'[c] = "open"
      /\ \A d \in Conn : d # c => writer'[d] = writer[d] /\ socket'[d] = socket[d]
  BY <1>0 DEF TypeOK
<1>4. AcceptedOnce'
  BY <1>1, <1>2, <1>3 DEF Inv, SignalsInv, AcceptedOnce
<1>5. AskedOnce'
  <2> SUFFICES ASSUME NEW d \in Outgoing, UnderWay(ConnectNewPeer(d))'
               PROVE  /\ writer'[d] = "none" /\ socket'[d] = "none"
                      /\ d \in asked' \ connecting'
    BY DEF AskedOnce
  <2>1. writer[d] = "none" /\ socket[d] = "none" /\ d \in asked \ connecting
    BY <1>1 DEF Inv, SignalsInv, AskedOnce
  <2>2. d # c /\ d \in Conn
    BY <1>0, <2>1, ServerAssumption
  <2> QED
    BY <1>0, <1>3, <2>1, <2>2
<1>6. DroppedEnded'
  <2>1. \A d \in Conn : writer[d] = "ended" => writer'[d] = "ended"
    BY <1>2, <1>3
  <2> QED
    BY <1>0, <1>1, <2>1 DEF Inv, SignalsInv, DroppedEnded
<1>7. ConnectionsOK'
  BY <1>0, <1>3 DEF Inv, ConnectionsOK
<1>8. PeersInv'
  BY <1>0, <1>1, <1>2, RegisterPeers
<1> QED
  BY <1>1, <1>4, <1>5, <1>6, <1>7, <1>8 DEF SignalsInv

LEMMA DispatchGetNewPeerStep ==
  ASSUME Inv, NEW c \in Conn, DispatchGetNewPeer(c)
  PROVE  SignalsInv' /\ ConnectionsOK' /\ PeersInv'
<1>0. /\ TypeOK /\ UNCHANGED <<addr, connecting, asked, socket>>
      /\ Receives(GetNewPeer(c)) /\ Register(c)
      /\ writer' = [writer EXCEPT ![c] = "runs"]
  BY DEF Inv, DispatchGetNewPeer, Register, callVars
<1>1. c \in Conn \ Outgoing
  BY <1>0, Taken, SignalForms, SignalFacts
<1>2. /\ RegistersOnce' /\ UnderWay(GetNewPeer(c))
      /\ \A s : UnderWay(s)' => UnderWay(s)
      /\ \A s : UnderWay(s) /\ s # GetNewPeer(c) => UnderWay(s)'
      /\ ~ UnderWay(GetNewPeer(c))'
      /\ connecting = {}
  BY <1>0, TakenSignals, Taken, SignalFacts DEF Inv, SignalsInv
<1>3. writer[c] = "none" /\ socket[c] \notin {"none", "backlog"}
  BY <1>1, <1>2 DEF Inv, SignalsInv, AcceptedOnce
<1>4. writer'[c] = "runs" /\ \A d \in Conn : d # c => writer'[d] = writer[d]
  BY <1>0 DEF TypeOK
<1>5. AcceptedOnce'
  BY <1>0, <1>2, <1>4 DEF Inv, SignalsInv, AcceptedOnce
<1>6. AskedOnce'
  BY <1>0, <1>1, <1>2, <1>4, ServerAssumption DEF Inv, SignalsInv, AskedOnce
<1>7. DroppedEnded'
  <2>1. \A d \in Conn : writer[d] = "ended" => writer'[d] = "ended"
    BY <1>3, <1>4
  <2> QED
    BY <1>0, <1>2, <2>1 DEF Inv, SignalsInv, DroppedEnded
<1>8. ConnectionsOK'
  BY <1>0, <1>2, <1>3, <1>4 DEF Inv, ConnectionsOK
<1>9. PeersInv'
  BY <1>0, <1>2, <1>3, RegisterPeers, SignalsDiffer
<1> QED
  BY <1>2, <1>5, <1>6, <1>7, <1>8, <1>9 DEF SignalsInv

(* The signals that change neither the tasks nor who is connected.         *)
LEMMA DispatchOtherStep ==
  ASSUME Inv, NEW signal, Receives(signal), \A a \in Addr : signal # DroppedPeer(a),
         UNCHANGED <<addr, connecting, peers, asked, socket, writer>>
  PROVE  SignalsInv' /\ ConnectionsOK' /\ PeersInv'
<1>1. /\ RegistersOnce'
      /\ \A s : UnderWay(s)' => UnderWay(s)
      /\ \A s : UnderWay(s) /\ s # signal => UnderWay(s)'
  BY TakenSignals DEF Inv, SignalsInv
<1>2. AcceptedOnce' /\ AskedOnce' /\ DroppedEnded'
  BY <1>1 DEF Inv, SignalsInv, AcceptedOnce, AskedOnce, DroppedEnded
<1>3. ConnectionsOK'
  BY DEF Inv, ConnectionsOK
<1>4. PeersInv'
  BY <1>1, PeersStay DEF Inv, TypeOK
<1> QED
  BY <1>1, <1>2, <1>3, <1>4 DEF SignalsInv

(* A handle is dropped because of an ended writer: either its own, or one  *)
(* that has had the same address.                                          *)
LEMMA DispatchDroppedPeerStep ==
  ASSUME Inv, NEW a \in Addr, DispatchDroppedPeer(a)
  PROVE  SignalsInv' /\ ConnectionsOK' /\ PeersInv'
<1>0. /\ TypeOK /\ UNCHANGED <<addr, connecting, asked, socket, writer>>
      /\ Receives(DroppedPeer(a))
      /\ peers' = [b \in DOMAIN peers \ {a} |-> peers[b]]
  BY DEF Inv, DispatchDroppedPeer, Restrict, callVars, connVars
<1>1. /\ RegistersOnce' /\ UnderWay(DroppedPeer(a))
      /\ \A s : UnderWay(s)' => UnderWay(s)
      /\ \A s : UnderWay(s) /\ s # DroppedPeer(a) => UnderWay(s)'
  BY <1>0, TakenSignals DEF Inv, SignalsInv
<1>2. AcceptedOnce' /\ AskedOnce' /\ DroppedEnded'
  BY <1>0, <1>1 DEF Inv, SignalsInv, AcceptedOnce, AskedOnce, DroppedEnded
<1>3. ConnectionsOK'
  BY <1>0 DEF Inv, ConnectionsOK
<1>4. PICK e \in Conn : addr[e] = a /\ writer[e] = "ended"
  BY <1>1 DEF Inv, SignalsInv, DroppedEnded
<1>5. PeersOK'
  BY <1>0 DEF Inv, PeersInv, PeersOK
<1>6. Hears'
  <2> SUFFICES ASSUME NEW d \in Conn, writer[d] = "runs", AddressIsItsOwn(d)
               PROVE  addr[d] \in DOMAIN peers' /\ peers'[addr[d]] = d
    BY <1>0 DEF Hears, AddressIsItsOwn
  <2>1. addr[d] # a
    BY <1>4 DEF AddressIsItsOwn
  <2> QED
    BY <1>0, <2>1 DEF Inv, PeersInv, Hears
<1>7. EndedLeaves'
  BY <1>0, <1>1, SignalsDiffer DEF Inv, PeersInv, EndedLeaves
<1> QED
  BY <1>1, <1>2, <1>3, <1>5, <1>6, <1>7 DEF SignalsInv, PeersInv

LEMMA DispatchStep ==
  ASSUME Inv, Dispatch
  PROVE  SignalsInv' /\ ConnectionsOK' /\ PeersInv'
<1>1. ASSUME NEW c \in Conn, DispatchGetNewPeerFails(c)
      PROVE  SignalsInv' /\ ConnectionsOK' /\ PeersInv'
  <2>1. /\ Receives(GetNewPeer(c))
        /\ UNCHANGED <<addr, connecting, peers, asked, socket, writer>>
    BY <1>1 DEF DispatchGetNewPeerFails, callVars, connVars
  <2> QED
    BY <2>1, DispatchOtherStep, SignalsDiffer
<1>2. CASE DispatchBroadcast
  <2>1. /\ Receives(BroadcastMessage)
        /\ UNCHANGED <<addr, connecting, peers, asked, socket, writer>>
    BY <1>2 DEF DispatchBroadcast, callVars
  <2> QED
    BY <2>1, DispatchOtherStep, SignalsDiffer
<1> QED
  BY <1>1, <1>2, DispatchConnectStep, ConnectSucceedsStep, ConnectFailsStep,
     DispatchGetNewPeerStep, DispatchDroppedPeerStep DEF Dispatch

-----------------------------------------------------------------------------
(* The writer task.                                                        *)
LEMMA WriterFailsStep ==
  ASSUME Inv, NEW c \in Conn, WriterFails(c)
  PROVE  SignalsInv' /\ ConnectionsOK' /\ PeersInv'
<1>0. /\ TypeOK /\ UNCHANGED <<addr, control_chan, connecting, peers, asked, socket>>
      /\ writer[c] = "runs" /\ writer' = [writer EXCEPT ![c] = "dropping"]
  BY DEF Inv, WriterFails, callVars
<1>1. RegistersOnce' /\ \A s : UnderWay(s)' <=> UnderWay(s)
  BY <1>0, KeptSignals DEF Inv, SignalsInv
<1>2. writer'[c] = "dropping" /\ \A d \in Conn : d # c => writer'[d] = writer[d]
  BY <1>0 DEF TypeOK
<1>3. AcceptedOnce' /\ DroppedEnded'
  BY <1>0, <1>1, <1>2 DEF Inv, SignalsInv, AcceptedOnce, DroppedEnded
<1>4. AskedOnce'
  BY <1>0, <1>1, <1>2, ServerAssumption DEF Inv, SignalsInv, AskedOnce
<1>5. ConnectionsOK'
  BY <1>0, <1>2 DEF Inv, ConnectionsOK
<1>6. PeersOK' /\ EndedLeaves'
  BY <1>0, <1>1, <1>2 DEF Inv, PeersInv, PeersOK, EndedLeaves, TypeOK
<1>7. Hears'
  BY <1>0, <1>2 DEF Inv, PeersInv, Hears, AddressIsItsOwn
<1> QED
  BY <1>1, <1>3, <1>4, <1>5, <1>6, <1>7 DEF SignalsInv, PeersInv

LEMMA WriterEndsStep ==
  ASSUME Inv, NEW c \in Conn, WriterEnds(c)
  PROVE  SignalsInv' /\ ConnectionsOK' /\ PeersInv'
<1>0. /\ TypeOK /\ UNCHANGED <<addr, connecting, peers, asked, socket>>
      /\ Send(DroppedPeer(addr[c])) /\ addr[c] \in Addr
      /\ writer[c] = "dropping" /\ writer' = [writer EXCEPT ![c] = "ended"]
  BY ServerAssumption DEF Inv, TypeOK, WriterEnds, callVars
<1>1. RegistersOnce' /\ \A s : UnderWay(s)' <=> UnderWay(s) \/ s = DroppedPeer(addr[c])
  BY <1>0, SentSignals, SignalFacts DEF Inv, SignalsInv
<1>2. writer'[c] = "ended" /\ \A d \in Conn : d # c => writer'[d] = writer[d]
  BY <1>0 DEF TypeOK
<1>3. AcceptedOnce'
  BY <1>0, <1>1, <1>2, SignalsDiffer DEF Inv, SignalsInv, AcceptedOnce
<1>4. AskedOnce'
  BY <1>0, <1>1, <1>2, SignalsDiffer, ServerAssumption DEF Inv, SignalsInv, AskedOnce
<1>5. DroppedEnded'
  BY <1>0, <1>1, <1>2, SignalsDiffer DEF Inv, SignalsInv, DroppedEnded
<1>6. ConnectionsOK'
  BY <1>0, <1>2 DEF Inv, ConnectionsOK
<1>7. PeersOK'
  BY <1>0, <1>2 DEF Inv, PeersInv, PeersOK, TypeOK
<1>8. EndedLeaves'
  BY <1>0, <1>1, <1>2 DEF Inv, PeersInv, PeersOK, EndedLeaves, TypeOK
<1>9. Hears'
  BY <1>0, <1>2 DEF Inv, PeersInv, Hears, AddressIsItsOwn
<1> QED
  BY <1>1, <1>3, <1>4, <1>5, <1>6, <1>7, <1>8, <1>9 DEF SignalsInv, PeersInv

-----------------------------------------------------------------------------
LEMMA InvInit == Init => Inv
<1> SUFFICES ASSUME Init PROVE Inv
  OBVIOUS
<1>1. TypeOK
  BY TypeInit
<1>2. \A s : ~ UnderWay(s)
  BY DEF Init, UnderWay
<1>3. SignalsInv
  BY <1>2 DEF Init, SignalsInv, RegistersOnce, AcceptedOnce, AskedOnce, DroppedEnded
<1>4. ConnectionsOK
  BY DEF Init, ConnectionsOK
<1>5. PeersInv
  BY DEF Init, PeersInv, PeersOK, Hears, EndedLeaves
<1> QED
  BY <1>1, <1>3, <1>4, <1>5 DEF Inv

LEMMA InvStep == Inv /\ [Next]_vars => Inv'
<1> SUFFICES ASSUME Inv, [Next]_vars PROVE Inv'
  OBVIOUS
<1>0. TypeOK'
  BY TypeStep DEF Inv
<1> SUFFICES SignalsInv' /\ ConnectionsOK' /\ PeersInv'
  BY <1>0 DEF Inv
<1> USE DEF callVars, connVars
<1>1. CASE UNCHANGED vars
  BY <1>1, QuietStep DEF vars
<1>2. ASSUME NEW t \in Caller, CallBroadcast(t)
      PROVE  SignalsInv' /\ ConnectionsOK' /\ PeersInv'
  BY <1>2, QuietStep DEF CallBroadcast
<1>3. ASSUME NEW c \in Conn, ReaderReceives(c) \/ ReaderEnds(c)
      PROVE  SignalsInv' /\ ConnectionsOK' /\ PeersInv'
  BY <1>3, QuietStep DEF ReaderReceives, ReaderEnds
<1>4. ASSUME NEW c \in Conn, NEW answers \in {0, 1}, WorkerHandles(c, answers)
      PROVE  SignalsInv' /\ ConnectionsOK' /\ PeersInv'
  BY <1>4, QuietStep DEF WorkerHandles
<1>5. ASSUME NEW c \in Conn, WriterTask(c)
      PROVE  SignalsInv' /\ ConnectionsOK' /\ PeersInv'
  <2>1. CASE WriterWrites(c) \/ WriterPanics(c)
    BY <2>1, QuietStep DEF WriterWrites, WriterPanics
  <2> QED
    BY <1>5, <2>1, WriterFailsStep, WriterEndsStep DEF WriterTask
<1> QED
  BY <1>1, <1>2, <1>3, <1>4, <1>5, BroadcastReturnsStep, CallConnectStep, RemoteStep,
     ListenerStep, DispatchStep DEF Next

(* The invariant, for any number of connections, addresses and callers and *)
(* any capacity of the control channel.                                    *)
THEOREM ServerInv == Spec => []Inv
  BY InvInit, InvStep, PTL DEF Spec

(* The server's state has its types; the control channel (server.rs:22)    *)
(* never holds more than its capacity.                                     *)
THEOREM ServerTypeCorrect == Spec => []TypeOK
<1>1. Inv => TypeOK
  BY DEF Inv
<1> QED
  BY <1>1, ServerInv, PTL

(* register() puts the handle of every connection into `peers`, and it     *)
(* stays there while the connection's writer serves its queue, unless      *)
(* another connection has had the same address.                            *)
THEOREM ServerPeersHear == Spec => []PeersHear
<1>1. Inv => PeersHear
  BY DEF Inv, PeersInv, Hears, PeersHear
<1> QED
  BY <1>1, ServerInv, PTL

(* A handle in `peers` whose writer has ended has a DroppedPeer on its way *)
(* to the dispatcher.                                                      *)
THEOREM ServerDeadHandlesLeave == Spec => []DeadHandlesLeave
<1>1. Inv => DeadHandlesLeave
  BY DEF Inv, PeersInv, EndedLeaves, UnderWay, DeadHandlesLeave, ToSet, TypeOK
<1> QED
  BY <1>1, ServerInv, PTL
=============================================================================
