---------------------------- MODULE CapnpChannel ----------------------------
(***************************************************************************)
(* One channel carried over the capnp bridge of fungi-transport-capnp,     *)
(* end to end:                                                             *)
(*                                                                         *)
(*   caller --- CapnpChannel handle --- command queue --- client actor     *)
(*          --- capnp connection --- BackendServer --- backend --- peer    *)
(*                                                                         *)
(* The caller owns the handle, creates one `send` or `recv` future at a    *)
(* time (both take `&mut self`), and may drop a future at any point.  The  *)
(* actor runs on a thread of its own, so it serves commands and resumes    *)
(* tasks while the caller is anywhere between two of its own steps.        *)
(*                                                                         *)
(* Messages are the numbers 1, 2, ... in the order the peer sends them;    *)
(* their bytes never matter here.  A future is named by the count of       *)
(* futures created before it, itself included, so `calls` names the one    *)
(* the caller holds now and anything smaller is a future already dropped   *)
(* or resolved: a oneshot sender of such a future finds its receiver gone. *)
(***************************************************************************)
EXTENDS Integers, Sequences

CONSTANTS
  QueueDepth,   \* capacity of the command queue (COMMAND_QUEUE_DEPTH)
  OutCap,       \* messages the backend accepts before a send has to wait
  MaxCalls,     \* bound: futures the caller creates
  MaxMsgs       \* bound: messages the peer sends

ASSUME BoundsAssumption ==
  /\ QueueDepth \in Nat \ {0}
  /\ OutCap \in Nat \ {0}
  /\ MaxCalls \in Nat
  /\ MaxMsgs \in Nat

\* What a call resolves with: a message (a positive number), or one of these.
Closed   == 0       \* SendError::Closed, RecvError::Closed
Failed   == -1      \* SendError::Transport, RecvError::Transport
Accepted == -2      \* Ok(()) of a send

Msgs    == 1 .. MaxMsgs
Calls   == 1 .. MaxCalls
Ops     == {"recv", "send"}
Results == Msgs \cup {Closed, Failed, Accepted}

VARIABLES
  handle,      \* the CapnpChannel handle: "open" or "dropped"
  others,      \* TRUE while another handle keeps the connection's actor alive
  calls,       \* futures created so far
  fut,         \* the future the caller holds
  cmds,        \* the mpsc command queue
  actor,       \* the client actor's command loop: "running" or "stopped"
  registered,  \* the channel's capability is in Registry.channels
  recvState,   \* Registry.recv_states[channel_id]
  calling,     \* capnp calls the server has not answered
  answered,    \* calls with an answer whose client task has not resumed
  lock,        \* call holding BackendServer's mutex, 0 when free
  backend,     \* the backend channel object at the server: "open" or "dropped"
  conn,        \* the capnp connection: "up" or "down"
  arrived,     \* messages the peer has sent
  taken,       \* messages the server has taken from the backend
  peer,        \* the peer's end: "open" or "closed"
  outbox,      \* messages the backend accepted and the peer has not read
  delivered,   \* history: messages `recv` returned to the caller, in that order
  stranded,    \* history: messages in a future dropped before its last poll
  sawClosed    \* history: a `recv` returned Closed to the caller

client  == <<handle, others, calls, fut>>
table   == <<registered, recvState>>
rpc     == <<calling, answered, lock, conn>>
far     == <<backend, arrived, taken, peer, outbox>>
history == <<delivered, stranded, sawClosed>>
vars    == <<client, cmds, actor, table, rpc, far, history>>

NoFuture == [op |-> "recv", phase |-> "none", result |-> Closed]
NoState  == [present |-> FALSE, inFlight |-> FALSE, waiter |-> 0, buffer |-> <<>>]

Init ==
  /\ handle = "open" /\ others \in BOOLEAN /\ calls = 0 /\ fut = NoFuture
  /\ cmds = <<>> /\ actor = "running"
  /\ registered = TRUE /\ recvState = NoState
  /\ calling = {} /\ answered = {} /\ lock = 0 /\ conn = "up"
  /\ backend = "open" /\ arrived = 0 /\ taken = 0 /\ peer = "open" /\ outbox = 0
  /\ delivered = <<>> /\ stranded = {} /\ sawClosed = FALSE

(***************************************************************************)
(* The caller.                                                             *)
(***************************************************************************)
\* `send` or `recv` creates a future; nothing reaches the actor before a poll.
Call(op) ==
  /\ handle = "open" /\ fut.phase = "none" /\ calls < MaxCalls
  /\ calls' = calls + 1
  /\ fut' = [op |-> op, phase |-> "sending", result |-> Closed]
  /\ UNCHANGED <<handle, others, cmds, actor, table, rpc, far, history>>

\* Seeded fault: one command more than the queue was made for.
RoomOffByOne == Len(cmds) <= QueueDepth

\* The bounded mpsc channel has a free slot.
HasRoom == Len(cmds) < QueueDepth

\* The `tx.send(..).await` of the future: it waits for room in the queue.
Enqueue ==
  /\ fut.phase = "sending" /\ HasRoom
  /\ cmds' = Append(cmds, [op |-> fut.op, call |-> calls])
  /\ fut' = [fut EXCEPT !.phase = "waiting"]
  /\ UNCHANGED <<handle, others, calls, actor, table, rpc, far, history>>

\* The caller polls a future whose oneshot has been filled.
Poll ==
  /\ fut.phase = "ready"
  /\ fut' = NoFuture
  /\ delivered' = IF fut.result \in Msgs THEN Append(delivered, fut.result) ELSE delivered
  /\ sawClosed' = (sawClosed \/ (fut.op = "recv" /\ fut.result = Closed))
  /\ UNCHANGED <<handle, others, calls, cmds, actor, table, rpc, far, stranded>>

\* The caller drops its future unresolved (a `select!` branch that lost, an
\* elapsed timeout).  A message already in the oneshot goes with it.
Abandon ==
  /\ fut.phase # "none"
  /\ fut' = NoFuture
  /\ stranded' = IF fut.phase = "ready" /\ fut.result \in Msgs
                 THEN stranded \cup {fut.result} ELSE stranded
  /\ UNCHANGED <<handle, others, calls, cmds, actor, table, rpc, far, delivered, sawClosed>>

\* Drop for CapnpChannel.  No future outlives the handle it borrows, and
\* try_send loses the Release when the queue is full.
DropHandle ==
  /\ handle = "open" /\ fut.phase = "none"
  /\ handle' = "dropped"
  /\ cmds' = IF HasRoom
             THEN Append(cmds, [op |-> "release", call |-> 0]) ELSE cmds
  /\ UNCHANGED <<others, calls, fut, actor, table, rpc, far, history>>

\* The last of the connection's other handles goes.
DropOthers ==
  /\ others
  /\ others' = FALSE
  /\ UNCHANGED <<handle, calls, fut, cmds, actor, table, rpc, far, history>>

(***************************************************************************)
(* The client actor's command loop.                                        *)
(***************************************************************************)
\* Some caller still waits on the oneshot of call c.
Live(c) == fut.phase = "waiting" /\ c = calls

\* oneshot::Sender::send, which does nothing when the receiver is gone.
Answer(c, result) ==
  fut' = IF Live(c) THEN [fut EXCEPT !.phase = "ready", !.result = result] ELSE fut

\* A capnp call on the stored capability, if it is there and the connection is up.
Issue(c) ==
  IF registered /\ conn = "up"
    THEN /\ calling' = calling \cup {c}
         /\ UNCHANGED answered
    ELSE /\ answered' = answered \cup {[op |-> c.op, call |-> c.call, result |-> Closed]}
         /\ UNCHANGED calling

Serve(op) ==
  /\ actor = "running" /\ cmds # <<>> /\ Head(cmds).op = op
  /\ cmds' = Tail(cmds)

\* Seeded fault: the buffered message is handed out and kept.
HandedCopy(rs, live) == rs

\* The buffered message goes with a oneshot that takes it, and only then.
Handed(rs, live) == IF live THEN [rs EXCEPT !.buffer = Tail(@)] ELSE rs

\* Recv, with a message buffered for an abandoned caller: it goes to this
\* one, or back to the front when this caller is gone too.
RecvFromBuffer ==
  /\ Serve("recv") /\ recvState.buffer # <<>>
  /\ Answer(Head(cmds).call, Head(recvState.buffer))
  /\ recvState' = Handed(recvState, Live(Head(cmds).call))
  /\ UNCHANGED <<handle, others, calls, actor, registered, rpc, far, history>>

\* Seeded fault: a call for every Recv, whatever is in flight.
NeverJoins == FALSE

\* A Recv only replaces the waiter when a capnp recv is already outstanding.
JoinsInFlight == recvState.inFlight

RecvJoin ==
  /\ Serve("recv") /\ recvState.buffer = <<>> /\ JoinsInFlight
  /\ recvState' = [recvState EXCEPT !.waiter = Head(cmds).call]
  /\ UNCHANGED <<client, actor, registered, rpc, far, history>>

RecvStart ==
  /\ Serve("recv") /\ recvState.buffer = <<>> /\ ~JoinsInFlight
  /\ recvState' = [present |-> TRUE, inFlight |-> TRUE,
                   waiter |-> Head(cmds).call, buffer |-> <<>>]
  /\ Issue(Head(cmds))
  /\ UNCHANGED <<client, actor, registered, lock, conn, far, history>>

ServeSend ==
  /\ Serve("send")
  /\ Issue(Head(cmds))
  /\ UNCHANGED <<client, actor, table, lock, conn, far, history>>

ServeRelease ==
  /\ Serve("release")
  /\ registered' = FALSE
  /\ recvState' = NoState
  /\ UNCHANGED <<client, actor, rpc, far, history>>

(***************************************************************************)
(* The tasks that wait for a capnp answer, on the actor's LocalSet.        *)
(***************************************************************************)
\* Seeded fault: what nobody waits for any more is thrown away.
ResumedDiscarding(rs, live, result) ==
  [rs EXCEPT !.inFlight = FALSE, !.waiter = 0]

\* Seeded fault: the next Recv still finds a call in flight.
ResumedStillInFlight(rs, live, result) ==
  [rs EXCEPT !.waiter = 0,
             !.buffer = IF result \in Msgs /\ ~live THEN Append(@, result) ELSE @]

\* The receive state after its call resolved: the waiter is taken, and a
\* message it does not want any more is buffered (an error is discarded).
Resumed(rs, live, result) ==
  [rs EXCEPT !.inFlight = FALSE, !.waiter = 0,
             !.buffer = IF result \in Msgs /\ ~live THEN Append(@, result) ELSE @]

RecvTaskDone == \E a \in answered :
  /\ a.op = "recv" /\ recvState.present
  /\ answered' = answered \ {a}
  /\ Answer(recvState.waiter, a.result)
  /\ recvState' = Resumed(recvState, Live(recvState.waiter), a.result)
  /\ UNCHANGED <<handle, others, calls, cmds, actor, registered, calling, lock, conn,
                 far, history>>

\* Seeded fault: the task re-creates the entry that Release removed.
ResurrectedState == [NoState EXCEPT !.present = TRUE]

\* What the task leaves of a state that is no longer there.
OrphanState == NoState

\* The channel was released meanwhile: the message is dropped, the entry stays gone.
RecvTaskOrphaned == \E a \in answered :
  /\ a.op = "recv" /\ ~recvState.present
  /\ answered' = answered \ {a}
  /\ recvState' = OrphanState
  /\ UNCHANGED <<client, cmds, actor, registered, calling, lock, conn, far, history>>

SendTaskDone == \E a \in answered :
  /\ a.op = "send"
  /\ answered' = answered \ {a}
  /\ Answer(a.call, a.result)
  /\ UNCHANGED <<handle, others, calls, cmds, actor, table, calling, lock, conn, far, history>>

\* Seeded fault: the loop waits for the call in flight before it ends.
LoopEndsIdle == handle = "dropped" /\ ~others /\ cmds = <<>> /\ calling = {}

\* rx.recv() yields None: every sender is gone and the queue is empty.
LoopEnds == handle = "dropped" /\ ~others /\ cmds = <<>>

\* The loop returns, and the LocalSet goes with every task and the RPC system.
ActorStops ==
  /\ actor = "running" /\ LoopEnds
  /\ actor' = "stopped" /\ conn' = "down"
  /\ registered' = FALSE /\ recvState' = NoState
  /\ calling' = {} /\ answered' = {} /\ lock' = 0
  /\ UNCHANGED <<client, cmds, far, history>>

(***************************************************************************)
(* The server: BackendServer forwards each call to the backend under a     *)
(* mutex held until the backend answers.                                   *)
(***************************************************************************)
\* Any waiting call may be next: tokio's mutex is fair, the order in which the
\* RPC system first polls two calls is its own affair.
Acquire ==
  /\ lock = 0
  /\ \E c \in calling : lock' = c.call
  /\ UNCHANGED <<client, cmds, actor, table, calling, answered, conn, far, history>>

\* The call that holds the lock returns with `result` and frees it.
Return(c, result) ==
  /\ c \in calling /\ lock = c.call
  /\ calling' = calling \ {c}
  /\ answered' = answered \cup {[op |-> c.op, call |-> c.call, result |-> result]}
  /\ lock' = 0

\* backend.recv(): the next message, or Closed once the peer is gone and drained.
ServerRecv == \E c \in calling :
  /\ c.op = "recv"
  /\ \/ /\ taken < arrived
        /\ taken' = taken + 1
        /\ Return(c, taken + 1)
     \/ /\ taken = arrived /\ peer = "closed"
        /\ Return(c, Closed)
        /\ UNCHANGED taken
  /\ UNCHANGED <<client, cmds, actor, table, conn, backend, arrived, peer, outbox, history>>

\* backend.send(): accepted when there is room, Closed once the peer is gone.
ServerSend == \E c \in calling :
  /\ c.op = "send"
  /\ \/ /\ peer = "open" /\ outbox < OutCap
        /\ outbox' = outbox + 1
        /\ Return(c, Accepted)
     \/ /\ peer = "closed"
        /\ Return(c, Closed)
        /\ UNCHANGED outbox
  /\ UNCHANGED <<client, cmds, actor, table, conn, backend, arrived, taken, peer, history>>

\* Any other error of the backend, which crosses the bridge as Failed.
BackendFails ==
  /\ \E c \in calling : Return(c, Failed)
  /\ UNCHANGED <<client, cmds, actor, table, conn, far, history>>

\* The last reference to the capability goes, or the connection does.
ServerDropsBackend ==
  /\ backend = "open"
  /\ \/ conn = "down"
     \/ ~registered /\ calling = {} /\ answered = {}
  /\ backend' = "dropped"
  /\ UNCHANGED <<client, cmds, actor, table, rpc, arrived, taken, peer, outbox, history>>

(***************************************************************************)
(* The connection and the peer.                                            *)
(***************************************************************************)
\* The connection breaks: every call without an answer fails with Closed, and
\* so do those whose answer was still on its way.
Disconnect ==
  /\ conn = "up" /\ actor = "running"
  /\ conn' = "down" /\ calling' = {} /\ lock' = 0
  /\ \E arrives \in SUBSET answered :
       answered' = arrives \cup
         {[op |-> c.op, call |-> c.call, result |-> Closed] :
            c \in calling \cup (answered \ arrives)}
  /\ UNCHANGED <<client, cmds, actor, table, far, history>>

PeerSend ==
  /\ peer = "open" /\ arrived < MaxMsgs
  /\ arrived' = arrived + 1
  /\ UNCHANGED <<client, cmds, actor, table, rpc, backend, taken, peer, outbox, history>>

PeerRecv ==
  /\ peer = "open" /\ outbox > 0
  /\ outbox' = outbox - 1
  /\ UNCHANGED <<client, cmds, actor, table, rpc, backend, arrived, taken, peer, history>>

PeerClose ==
  /\ peer = "open"
  /\ peer' = "closed"
  /\ UNCHANGED <<client, cmds, actor, table, rpc, backend, arrived, taken, outbox, history>>

ServeCommand == RecvFromBuffer \/ RecvJoin \/ RecvStart \/ ServeSend \/ ServeRelease
ResumeTask   == RecvTaskDone \/ RecvTaskOrphaned \/ SendTaskDone
ServerStep   == Acquire \/ ServerRecv \/ ServerSend

Next ==
  \/ \E op \in Ops : Call(op)
  \/ Enqueue \/ Poll \/ Abandon \/ DropHandle \/ DropOthers
  \/ ServeCommand \/ ResumeTask \/ ActorStops
  \/ ServerStep \/ BackendFails \/ ServerDropsBackend
  \/ Disconnect \/ PeerSend \/ PeerRecv \/ PeerClose

Spec == Init /\ [][Next]_vars

(***************************************************************************)
(* Fairness.  The actor thread and the server's runtime keep polling what  *)
(* is ready; a caller that holds a future keeps polling it.  Nothing makes *)
(* the peer read, send or close, the connection break, or a caller drop    *)
(* what it holds.                                                          *)
(***************************************************************************)
Fairness ==
  /\ WF_vars(Enqueue)
  /\ WF_vars(ServeCommand)
  /\ WF_vars(ResumeTask)
  /\ WF_vars(ActorStops)
  /\ WF_vars(ServerStep)
  /\ WF_vars(ServerDropsBackend)

FairSpec == Spec /\ Fairness

(***************************************************************************)
(* Properties.                                                             *)
(***************************************************************************)
ServerCall == [op : Ops, call : Calls]
Command    == ServerCall \cup [op : {"release"}, call : {0}]
Answered   == [op : Ops, call : Calls, result : Results]

\* Every variable keeps its type; the command queue and the backend's outgoing
\* buffer keep their capacity.
TypeOK ==
  /\ handle \in {"open", "dropped"} /\ others \in BOOLEAN
  /\ calls \in 0 .. MaxCalls
  /\ fut \in [op : Ops, phase : {"none", "sending", "waiting", "ready"}, result : Results]
  /\ cmds \in Seq(Command) /\ Len(cmds) <= QueueDepth
  /\ actor \in {"running", "stopped"} /\ registered \in BOOLEAN
  /\ recvState \in [present : BOOLEAN, inFlight : BOOLEAN,
                    waiter : 0 .. MaxCalls, buffer : Seq(Msgs)]
  /\ calling \in SUBSET ServerCall /\ answered \in SUBSET Answered
  /\ lock \in 0 .. MaxCalls
  /\ backend \in {"open", "dropped"} /\ conn \in {"up", "down"}
  /\ arrived \in 0 .. MaxMsgs /\ taken \in 0 .. MaxMsgs
  /\ peer \in {"open", "closed"} /\ outbox \in 0 .. OutCap
  /\ delivered \in Seq(Msgs) /\ stranded \in SUBSET Msgs /\ sawClosed \in BOOLEAN

\* The recv calls issued on the connection that have not resumed their task.
RecvCalls == {c.call : c \in {d \in calling : d.op = "recv"}}
             \cup {a.call : a \in {b \in answered : b.op = "recv"}}

\* At most one capnp `recv` is ever outstanding for a channel, however its
\* caller drops and repeats `recv`, before and after the handle is dropped
\* (doc of RecvState).
RecvExclusive == \A c, d \in RecvCalls : c = d

\* Messages taken from the backend and not yet returned by `recv`: buffered,
\* travelling in an answer, or in the oneshot of the future the caller holds.
Buffered  == {recvState.buffer[i] : i \in DOMAIN recvState.buffer}
Travelling == {a.result : a \in answered} \cap Msgs
InOneshot == IF fut.phase = "ready" THEN {fut.result} \cap Msgs ELSE {}
Held      == Buffered \cup Travelling \cup InOneshot
Delivered == {delivered[i] : i \in DOMAIN delivered}

\* The bridge reads ahead by at most one message: what it holds is the newest
\* message taken from the backend and nothing else.
OneMessageHeld == Held \subseteq {taken}

\* While the handle and the connection live, a message the server took from the
\* backend has been returned, or is held for the next `recv`, or went with a
\* future that was dropped after it had been filled: dropping a `recv` that
\* still waits loses nothing (cancel safety, channel.rs and RecvState).
NoSilentLoss ==
  handle = "open" /\ conn = "up" =>
    1 .. taken \subseteq Delivered \cup Held \cup stranded

\* After Release no task brings the channel's receive state back, where it
\* would stay for the life of the connection (comment in the Recv task).
NoResurrection == ~registered => ~recvState.present

\* `recv` returns messages in the order the peer sent them and none twice: the
\* bridge adds neither reordering nor duplication to the backend's, through joined
\* calls, buffered messages and those put back for a caller that was gone too.
DeliveredInOrder ==
  \A i, j \in DOMAIN delivered : i < j => delivered[i] < delivered[j]

\* Once `recv` returned Closed, no later `recv` returns a message
\* (RecvError::Closed: "no further messages will arrive on it").
ClosedIsFinal == [][sawClosed => delivered' = delivered]_vars

\* Something a recv can answer with exists.
Answerable == taken < arrived \/ Held # {} \/ peer = "closed" \/ conn = "down"

\* A send, abandoned or not, waits inside the backend for a peer that does not
\* read, and holds BackendServer's lock there.
Stuck ==
  /\ peer = "open" /\ outbox = OutCap
  /\ \E c \in calling : c.op = "send" /\ lock = c.call

\* A caller that keeps its `recv` is answered once there is a message for it,
\* or the peer or the connection is gone: the call of an abandoned recv delivers
\* to the new waiter.  The one thing in its way is a send stuck in the backend for
\* ever, whose lock keeps the recv out though a message is there.
RecvAnswered ==
  []<>~Stuck =>
    ((fut.op = "recv" /\ fut.phase \in {"sending", "waiting"} /\ Answerable)
       ~> (fut.phase \notin {"sending", "waiting"}))

\* A caller that keeps its `send` is answered unless a send is stuck in the
\* backend for ever, once a `recv` that may hold the server's lock can be: that
\* lock is a delay, and no second recv hides behind it.
SendAnswered ==
  []<>~Stuck =>
    ((/\ fut.op = "send" /\ fut.phase \in {"sending", "waiting"}
      /\ taken < arrived \/ peer = "closed" \/ conn = "down")
       ~> (fut.phase \notin {"sending", "waiting"}))

\* Dropping the last handle ends the actor and tears the remote channel down,
\* even with a `recv` parked in the peer (doc of client_actor).
LastHandleCloses ==
  (handle = "dropped" /\ ~others) ~> (actor = "stopped" /\ backend = "dropped")

\* What the documentation claims beyond that.

\* "a dropped `recv` future never loses a message" (doc of RecvState).
CancelSafe == stranded = {}

\* "The lock cannot deadlock a send against a recv" (doc of BackendServer): a send
\* is answered, as long as no send is stuck for want of a peer that reads.
SendProgress ==
  []<>~Stuck => ((fut.op = "send" /\ fut.phase = "waiting") ~> (fut.phase # "waiting"))

\* "each handle's Drop also releases its stored capability so the remote server
\* tears the matching object down" (module doc).
DropTearsDown == (handle = "dropped") ~> (backend = "dropped")
=============================================================================
