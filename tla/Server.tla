------------------------------- MODULE Server -------------------------------
(***************************************************************************)
(* The P2P server of one node (network/server.rs, network/peer.rs): the    *)
(* dispatcher of control signals, the listener, and a reader and a writer  *)
(* task per connection, all on one executor thread; and the threads that   *)
(* call broadcast() and connect() over the bounded control channel.        *)
(*                                                                         *)
(* A connection is one TCP connection, named by a member of Conn; `peers`  *)
(* knows it only by the address of its other end.  What is written is      *)
(* counted, not kept.  A panic of one task unwinds the executor's thread,  *)
(* and with it stops every other task: the model ends there (up = FALSE).  *)
(***************************************************************************)
EXTENDS Integers, SequencesExt

CONSTANTS
  Conn,          \* the TCP connections of a behaviour
  Addr,          \* socket addresses
  Addresses,     \* the ways to give each its address, a subset of [Conn -> Addr]
  Outgoing,      \* the connections that main asks for; peers make the rest
  Caller,        \* the threads that call broadcast()
  Capacity,      \* of the control channel (10000 in server::new)
  MaxCalls,      \* bound of the model: calls of broadcast()
  MaxReceived    \* bound of the model: messages a connection brings

ASSUME ServerAssumption ==
  /\ Addresses \subseteq [Conn -> Addr]
  /\ Outgoing \subseteq Conn
  /\ Capacity \in Nat \ {0}
  /\ MaxCalls \in Nat /\ MaxReceived \in Nat

VARIABLES
  addr,          \* the peer_addr() of each connection, which never changes
  up,            \* the executor's thread runs
  control_chan,  \* the control signals sent and not yet received
  connecting,    \* the connection the dispatcher waits for, if any
  peers,         \* Context::peers, from addresses to connections
  asked,         \* the outgoing connections whose connect() has not returned
  calling,       \* the threads inside broadcast()
  calls,         \* how many calls there have been
  socket,        \* the state of each connection's socket
  reader, writer,   \* its two tasks
  write_queue,   \* how many messages wait for its writer
  received,      \* how many messages its reader has passed on
  handles        \* how many of them, with their handle, a worker still has

callVars == <<asked, calling, calls>>
connVars == <<socket, reader, writer, write_queue, received, handles>>
vars == <<addr, up, control_chan, connecting, peers, callVars, connVars>>

BroadcastMessage   == [type |-> "BroadcastMessage"]
ConnectNewPeer(c)  == [type |-> "ConnectNewPeer", conn |-> c]
GetNewPeer(c)      == [type |-> "GetNewPeer", conn |-> c]
DroppedPeer(a)     == [type |-> "DroppedPeer", addr |-> a]

ControlSignal ==
  {BroadcastMessage} \cup {ConnectNewPeer(c) : c \in Outgoing}
    \cup {GetNewPeer(c) : c \in Conn \ Outgoing} \cup {DroppedPeer(a) : a \in Addr}

TypeOK ==
  /\ addr \in Addresses
  /\ up \in BOOLEAN
  /\ control_chan \in Seq(ControlSignal) /\ Len(control_chan) <= Capacity
  /\ connecting \subseteq Outgoing
  /\ DOMAIN peers \subseteq Addr
  /\ \A a \in DOMAIN peers : peers[a] \in Conn
  /\ asked \subseteq Outgoing
  /\ calling \subseteq Caller
  /\ calls \in Nat
  /\ socket \in [Conn -> {"none", "backlog", "open", "closed", "reset"}]
  /\ reader \in [Conn -> {"none", "runs", "ended"}]
  /\ writer \in [Conn -> {"none", "runs", "dropping", "ended"}]
  /\ write_queue \in [Conn -> Nat]
  /\ received \in [Conn -> Nat]
  /\ handles \in [Conn -> Nat]

Init ==
  /\ addr \in Addresses
  /\ up = TRUE
  /\ control_chan = <<>>
  /\ connecting = {}
  /\ peers = [a \in {} |-> {}]
  /\ asked = {}
  /\ calling = {}
  /\ calls = 0
  /\ socket = [c \in Conn |-> "none"]
  /\ reader = [c \in Conn |-> "none"]
  /\ writer = [c \in Conn |-> "none"]
  /\ write_queue = [c \in Conn |-> 0]
  /\ received = [c \in Conn |-> 0]
  /\ handles = [c \in Conn |-> 0]

SendKeepingOne(signal) ==   \* mutant of the next: off by one
  /\ Len(control_chan) + 1 < Capacity
  /\ control_chan' = Append(control_chan, signal)

(* A send to the control channel waits while it is full.                   *)
Send(signal) ==
  /\ Len(control_chan) < Capacity
  /\ control_chan' = Append(control_chan, signal)

-----------------------------------------------------------------------------
(* Threads outside the executor: broadcast() returns when its signal is in *)
(* the channel; connect() waits for the dispatcher's answer, and main      *)
(* calls it again after an error.                                          *)
CallBroadcast(t) ==
  /\ up
  /\ t \notin calling
  /\ calls < MaxCalls
  /\ calling' = calling \cup {t}
  /\ calls' = calls + 1
  /\ UNCHANGED <<addr, up, control_chan, connecting, peers, asked, connVars>>

BroadcastReturns(t) ==
  /\ up
  /\ t \in calling
  /\ Send(BroadcastMessage)
  /\ calling' = calling \ {t}
  /\ UNCHANGED <<addr, up, connecting, peers, asked, calls, connVars>>

CallConnect(c) ==
  /\ up
  /\ c \in Outgoing \ asked
  /\ socket[c] = "none"
  /\ Send(ConnectNewPeer(c))
  /\ asked' = asked \cup {c}
  /\ UNCHANGED <<addr, up, connecting, peers, calling, calls, connVars>>

(* The other ends: connect to the listener, close, reset.                  *)
RemoteConnects(c) ==
  /\ c \notin Outgoing
  /\ socket[c] = "none"
  /\ socket' = [socket EXCEPT ![c] = "backlog"]
  /\ UNCHANGED <<addr, up, control_chan, connecting, peers, callVars, reader, writer,
                 write_queue, received, handles>>

RemoteCloses(c) ==
  /\ socket[c] = "open"
  /\ socket' = [socket EXCEPT ![c] = "closed"]
  /\ UNCHANGED <<addr, up, control_chan, connecting, peers, callVars, reader, writer,
                 write_queue, received, handles>>

RemoteResets(c) ==
  /\ socket[c] \in {"open", "closed"}
  /\ socket' = [socket EXCEPT ![c] = "reset"]
  /\ UNCHANGED <<addr, up, control_chan, connecting, peers, callVars, reader, writer,
                 write_queue, received, handles>>

-----------------------------------------------------------------------------
(* listener_loop: accept, then wait for room in the control channel.       *)
ListenerLoop(c) ==
  /\ up
  /\ socket[c] = "backlog"
  /\ Send(GetNewPeer(c))
  /\ socket' = [socket EXCEPT ![c] = "open"]
  /\ UNCHANGED <<addr, up, connecting, peers, callVars, reader, writer, write_queue,
                 received, handles>>

(* register: both tasks are started and the handle is put in `peers`, in   *)
(* the place of any older one under the same address.                      *)
PeersWith(c) == [a \in DOMAIN peers \cup {addr[c]} |->
                   IF a = addr[c] THEN c ELSE peers[a]]

Register(c) ==
  /\ peers' = PeersWith(c)
  /\ reader' = [reader EXCEPT ![c] = "runs"]
  /\ writer' = [writer EXCEPT ![c] = "runs"]
  /\ UNCHANGED <<write_queue, received, handles>>

(* dispatch_control at recv().                                             *)
Receives(signal) ==
  /\ up
  /\ connecting = {}
  /\ control_chan # <<>>
  /\ Head(control_chan) = signal
  /\ control_chan' = Tail(control_chan)

DispatchConnect(c) ==
  /\ Receives(ConnectNewPeer(c))
  /\ connecting' = {c}
  /\ UNCHANGED <<addr, up, peers, callVars, connVars>>

ConnectSucceeds(c) ==
  /\ up
  /\ c \in connecting
  /\ socket' = [socket EXCEPT ![c] = "open"]
  /\ Register(c)
  /\ connecting' = {}
  /\ asked' = asked \ {c}
  /\ UNCHANGED <<addr, up, control_chan, calling, calls>>

ConnectFails(c) ==
  /\ up
  /\ c \in connecting
  /\ connecting' = {}
  /\ asked' = asked \ {c}
  /\ UNCHANGED <<addr, up, control_chan, peers, calling, calls, connVars>>

(* A write to a handle whose writer has gone is an error that is ignored.  *)
Listening(c) == writer[c] \in {"runs", "dropping"}

DispatchBroadcast ==
  /\ Receives(BroadcastMessage)
  /\ write_queue' = [c \in Conn |->
       IF Listening(c) /\ \E a \in DOMAIN peers : peers[a] = c
       THEN write_queue[c] + 1 ELSE write_queue[c]]
  /\ UNCHANGED <<addr, up, connecting, peers, callVars, socket, reader, writer,
                 received, handles>>

DispatchGetNewPeer(c) ==
  /\ Receives(GetNewPeer(c))
  /\ socket[c] # "reset"
  /\ Register(c)
  /\ UNCHANGED <<addr, up, connecting, callVars, socket>>

(* peer_addr() of a connection that was reset while it waited fails, and   *)
(* the error leaves dispatch_control by `?` into an unwrap().              *)
DispatchGetNewPeerFails(c) ==
  /\ Receives(GetNewPeer(c))
  /\ socket[c] = "reset"
  /\ up' = FALSE
  /\ UNCHANGED <<addr, connecting, peers, callVars, connVars>>

DropIgnored(a) ==   \* mutant of the next: the handle stays in the map
  /\ Receives(DroppedPeer(a))
  /\ UNCHANGED <<addr, up, connecting, peers, callVars, connVars>>

DispatchDroppedPeer(a) ==
  /\ Receives(DroppedPeer(a))
  /\ peers' = Restrict(peers, DOMAIN peers \ {a})
  /\ UNCHANGED <<addr, up, connecting, callVars, connVars>>

-----------------------------------------------------------------------------
(* The reader task: pass a message on to the workers with a copy of the    *)
(* handle, or end with the connection.                                     *)
ReaderReceives(c) ==
  /\ up
  /\ reader[c] = "runs"
  /\ socket[c] = "open"
  /\ received[c] < MaxReceived
  /\ received' = [received EXCEPT ![c] = @ + 1]
  /\ handles' = [handles EXCEPT ![c] = @ + 1]
  /\ UNCHANGED <<addr, up, control_chan, connecting, peers, callVars, socket, reader,
                 writer, write_queue>>

ReaderEndsDropping(c) ==   \* mutant of the next: the reader drops the peer too
  /\ up
  /\ reader[c] = "runs"
  /\ socket[c] \in {"closed", "reset"}
  /\ Send(DroppedPeer(addr[c]))
  /\ reader' = [reader EXCEPT ![c] = "ended"]
  /\ UNCHANGED <<addr, up, connecting, peers, callVars, socket, writer, write_queue,
                 received, handles>>

ReaderEnds(c) ==
  /\ up
  /\ reader[c] = "runs"
  /\ socket[c] \in {"closed", "reset"}
  /\ reader' = [reader EXCEPT ![c] = "ended"]
  /\ UNCHANGED <<addr, up, control_chan, connecting, peers, callVars, socket, writer,
                 write_queue, received, handles>>

(* A worker handles a message, answers its sender or not, and drops the    *)
(* copy of the handle.                                                     *)
WorkerHandles(c, answers) ==
  /\ handles[c] > 0
  /\ handles' = [handles EXCEPT ![c] = @ - 1]
  /\ write_queue' = [write_queue EXCEPT ![c] = IF Listening(c) THEN @ + answers ELSE @]
  /\ UNCHANGED <<addr, up, control_chan, connecting, peers, callVars, socket, reader,
                 writer, received>>

-----------------------------------------------------------------------------
(* The writer task.  A write to a closed connection may still go through;  *)
(* after a reset it fails, and the dispatcher is told.                     *)
WriterWritesAhead(c) ==   \* mutant of the next: does not wait for a message
  /\ up
  /\ writer[c] = "runs"
  /\ socket[c] \in {"open", "closed"}
  /\ write_queue' = [write_queue EXCEPT ![c] = @ - 1]
  /\ UNCHANGED <<addr, up, control_chan, connecting, peers, callVars, socket, reader,
                 writer, received, handles>>

WriterWrites(c) ==
  /\ up
  /\ writer[c] = "runs"
  /\ write_queue[c] > 0
  /\ socket[c] \in {"open", "closed"}
  /\ write_queue' = [write_queue EXCEPT ![c] = @ - 1]
  /\ UNCHANGED <<addr, up, control_chan, connecting, peers, callVars, socket, reader,
                 writer, received, handles>>

WriterFails(c) ==
  /\ up
  /\ writer[c] = "runs"
  /\ write_queue[c] > 0
  /\ socket[c] = "reset"
  /\ write_queue' = [write_queue EXCEPT ![c] = @ - 1]
  /\ writer' = [writer EXCEPT ![c] = "dropping"]
  /\ UNCHANGED <<addr, up, control_chan, connecting, peers, callVars, socket, reader,
                 received, handles>>

WriterEndsSilently(c) ==   \* mutant of the next: nobody is told
  /\ up
  /\ writer[c] = "dropping"
  /\ writer' = [writer EXCEPT ![c] = "ended"]
  /\ write_queue' = [write_queue EXCEPT ![c] = 0]
  /\ UNCHANGED <<addr, up, control_chan, connecting, peers, callVars, socket, reader,
                 received, handles>>

WriterEnds(c) ==
  /\ up
  /\ writer[c] = "dropping"
  /\ Send(DroppedPeer(addr[c]))
  /\ writer' = [writer EXCEPT ![c] = "ended"]
  /\ write_queue' = [write_queue EXCEPT ![c] = 0]
  /\ UNCHANGED <<addr, up, connecting, peers, callVars, socket, reader, received,
                 handles>>

(* next() on the queue is None, and its unwrap() panics, when the last     *)
(* handle is gone: in `peers`, in the reader task, at a worker.            *)
HasHandle(c) ==
  \/ \E a \in DOMAIN peers : peers[a] = c
  \/ reader[c] = "runs"
  \/ handles[c] > 0

WriterPanics(c) ==
  /\ up
  /\ writer[c] = "runs"
  /\ write_queue[c] = 0
  /\ ~ HasHandle(c)
  /\ up' = FALSE
  /\ UNCHANGED <<addr, control_chan, connecting, peers, callVars, connVars>>

-----------------------------------------------------------------------------
Dispatch ==
  \/ \E c \in Conn : \/ DispatchConnect(c)
                     \/ ConnectSucceeds(c)
                     \/ ConnectFails(c)
                     \/ DispatchGetNewPeer(c)
                     \/ DispatchGetNewPeerFails(c)
  \/ DispatchBroadcast
  \/ \E a \in Addr : DispatchDroppedPeer(a)

WriterTask(c) ==
  \/ WriterWrites(c)
  \/ WriterFails(c)
  \/ WriterEnds(c)
  \/ WriterPanics(c)

Next ==
  \/ \E t \in Caller : CallBroadcast(t) \/ BroadcastReturns(t)
  \/ \E c \in Conn :
       \/ CallConnect(c)
       \/ RemoteConnects(c)
       \/ RemoteCloses(c)
       \/ RemoteResets(c)
       \/ ListenerLoop(c)
       \/ ReaderReceives(c)
       \/ ReaderEnds(c)
       \/ \E answers \in {0, 1} : WorkerHandles(c, answers)
       \/ WriterTask(c)
  \/ Dispatch

Spec == Init /\ [][Next]_vars

(* The executor polls every task that is ready, and a connect attempt ends *)
(* in success or an error.  Who waits for a place in the channel, a thread *)
(* in broadcast() or a writer that ends, is woken when one comes free; the *)
(* only sender that competes with it for ever is main's retry of           *)
(* connect(), a second apart, so it gets a place in the end.               *)
FairSpec ==
  /\ Spec
  /\ WF_vars(Dispatch)
  /\ \A c \in Conn : WF_vars(WriterTask(c)) /\ SF_vars(WriterEnds(c))
  /\ \A t \in Caller : SF_vars(BroadcastReturns(t))

-----------------------------------------------------------------------------
(* server.rs:225, "insert the peer handle so that we can broadcast to this *)
(* guy later": as long as a connection's writer serves its queue, `peers`  *)
(* has its handle, unless another connection has had the same address.     *)
(* It also keeps the writer's unwrap() from failing.                       *)
AddressIsItsOwn(c) ==
  \A other \in Conn \ {c} : addr[other] = addr[c] => writer[other] = "none"

PeersHear ==
  up => \A c \in Conn : writer[c] = "runs" /\ AddressIsItsOwn(c) =>
          addr[c] \in DOMAIN peers /\ peers[addr[c]] = c

(* A handle whose writer is gone stays in `peers` no longer than it takes  *)
(* the dispatcher to get to the DroppedPeer that is on its way, also when  *)
(* addresses are used again.                                               *)
DeadHandlesLeave ==
  \A a \in DOMAIN peers :
    writer[peers[a]] = "ended" => DroppedPeer(a) \in ToSet(control_chan)

(* broadcast() returns, though the channel is bounded and the dispatcher   *)
(* that drains it waits for connections, and though the executor's own     *)
(* tasks send to the same channel: nobody waits for anybody in a circle.   *)
CallsReturn ==
  \A t \in Caller : (t \in calling) ~> (t \notin calling \/ ~ up)

(* A peer that cannot be written to is removed in the end.                 *)
FailedPeersLeave ==
  \A c \in Conn :
    (writer[c] = "dropping") ~> (~ up \/ \A a \in DOMAIN peers : peers[a] # c)

(* server.rs:64, "the loop that endlessly accept incoming peers".          *)
AcceptsEndlessly == up
=============================================================================
