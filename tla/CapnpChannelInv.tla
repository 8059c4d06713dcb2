-------------------------- MODULE CapnpChannelInv ---------------------------
(***************************************************************************)
(* The inductive invariant behind the safety properties of CapnpChannel,   *)
(* as a conjunction of named parts.  TLC checks it on the reachable states *)
(* of small instances; CapnpChannelProofs proves it for all of them.       *)
(***************************************************************************)
EXTENDS CapnpChannel

\* A recv call that has not resumed its task, at the server or answered.
RecvOutstanding == (\E c \in calling : c.op = "recv") \/ (\E a \in answered : a.op = "recv")

\* The command of the caller's future has not been served yet.
Unserved == fut.phase = "sending" \/ (fut.phase = "waiting" /\ cmds # <<>>)

\* Release is the last command of a channel, and ends its entries for good.
ReleaseInv ==
  /\ \A i \in 1 .. Len(cmds) : cmds[i].op = "release" => i = Len(cmds) /\ handle = "dropped"
  /\ handle = "open" => registered
  /\ ~registered => cmds = <<>> /\ ~recvState.present
  /\ fut.phase # "none" => handle = "open"

\* Calls are served in the order the futures were created, so that whatever was
\* served before the current future's command belongs to an earlier future.
OrderInv ==
  /\ fut.phase # "none" => calls > 0
  /\ \A i \in 1 .. Len(cmds) : cmds[i].call <= calls
  /\ recvState.waiter <= calls
  /\ \A c \in calling : c.call <= calls
  /\ \A a \in answered : a.call <= calls
  /\ Unserved => /\ recvState.waiter < calls
                 /\ \A c \in calling : c.call < calls
                 /\ \A a \in answered : a.call < calls
  /\ fut.phase = "sending" => \A i \in 1 .. Len(cmds) : cmds[i].call < calls
  /\ fut.phase = "waiting" /\ cmds # <<>> =>
       /\ cmds[Len(cmds)].op = fut.op /\ cmds[Len(cmds)].call = calls
       /\ \A i \in 1 .. Len(cmds) - 1 : cmds[i].call < calls
  /\ fut.phase = "ready" => cmds = <<>>

\* What a future waits for is a call of its own kind.
KindInv ==
  /\ fut.phase = "waiting" /\ recvState.waiter = calls => fut.op = "recv"
  /\ \A c \in calling : fut.phase = "waiting" /\ c.call = calls => fut.op = c.op
  /\ \A a \in answered : fut.phase = "waiting" /\ a.call = calls => fut.op = a.op
  /\ \A a \in answered : a.op = "send" => a.result \notin Msgs
  /\ fut.phase = "ready" /\ fut.op = "send" => fut.result \notin Msgs

\* One recv outstanding, gated by inFlight while the channel is registered.
GateInv ==
  /\ \A c, d \in calling : c.op = "recv" /\ d.op = "recv" => c = d
  /\ \A a, b \in answered : a.op = "recv" /\ b.op = "recv" => a = b
  /\ \A c \in calling, a \in answered : ~(c.op = "recv" /\ a.op = "recv")
  /\ registered /\ ~recvState.inFlight => ~RecvOutstanding
  /\ recvState.inFlight => recvState.present /\ recvState.buffer = <<>>
  /\ ~recvState.present => recvState.buffer = <<>>
  /\ Len(recvState.buffer) <= 1
  /\ fut.phase = "ready" /\ fut.op = "recv" =>
       ~recvState.inFlight /\ recvState.buffer = <<>>

\* Message m is in the bridge: buffered, in an answer, or in the caller's oneshot.
IsHeld(m) ==
  \/ recvState.buffer # <<>> /\ recvState.buffer[1] = m
  \/ \E a \in answered : a.result = m
  \/ fut.phase = "ready" /\ fut.result = m

\* The bridge holds no message but the newest one taken, and none it has given
\* to the caller.
MessageInv ==
  /\ taken <= arrived
  /\ \A m \in Msgs : IsHeld(m) => m = taken /\ m \notin Delivered
  /\ \A m \in Delivered : m <= taken
  /\ handle = "open" /\ conn = "up" =>
       \A m \in 1 .. taken : m \in Delivered \/ m \in stranded \/ IsHeld(m)

\* No message will come any more: the connection is down, or the peer has
\* closed and everything it sent was taken.
Dry == conn = "down" \/ (peer = "closed" /\ taken = arrived)

ClosedInv ==
  /\ conn = "down" => calling = {}
  /\ \A a \in answered : a.op = "recv" /\ a.result = Closed => Dry
  /\ fut.phase = "ready" /\ fut.op = "recv" /\ fut.result = Closed => Dry
  /\ sawClosed => Dry /\ \A m \in Msgs : ~IsHeld(m)

\* Inductive: every step from a state that satisfies it leads to one that does.
IInv ==
  /\ TypeOK /\ ReleaseInv /\ OrderInv /\ KindInv /\ GateInv /\ MessageInv /\ ClosedInv
=============================================================================
