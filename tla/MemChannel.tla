----------------------------- MODULE MemChannel -----------------------------
(***************************************************************************)
(* The in-memory channels of fungi-transport (mem.rs): each end sends into *)
(* a bounded queue that its peer receives from.  An end has at most one    *)
(* future, since send and recv borrow the channel mutably; it suspends in  *)
(* the latency sleep, in the wait for a slot, and in recv.                 *)
(*                                                                         *)
(* The n-th send of an end is its message n.  A pipe without latency is    *)
(* one whose sleeps end at once.                                           *)
(***************************************************************************)
EXTENDS Naturals, Sequences, FiniteSets

CONSTANTS
  Ends, Peer,   \* the ends of the channels, and the other end of each
  Capacity,     \* MemConfig.capacity
  Modes,        \* what MemConfig.delivery and send_timeout are set to
  MaxSends,     \* bound: calls of send by each end
  MaxInject     \* bound: what drop_next and fail_next are called with

AllModes == {"confirmed", "deadline", "besteffort"}

ASSUME MemAssumption ==
  /\ Peer \in [Ends -> Ends]
  /\ \A e \in Ends : Peer[e] # e /\ Peer[Peer[e]] = e
  /\ Capacity \in Nat \ {0} /\ MaxInject \in Nat
  /\ MaxSends \in [Ends -> Nat]
  /\ Modes \subseteq AllModes

VARIABLES
  mode,      \* MemConfig of the network
  state,     \* of each end: not made yet, alive, or dropped
  fut,       \* the future of each end
  queue,     \* messages of each end its peer has not received
  outcome,   \* history: what each send of an end came to, in order
  received,  \* history: messages of its peer each end received
  sawClosed, \* history: recv returned Closed
  dropNext,  \* MemChannel.drop_next
  failNext   \* MemChannel.fail_next

wires   == <<queue, outcome, received, sawClosed>>
faults  == <<dropNext, failNext>>
chanVars == <<mode, state, fut, wires, faults>>

Futures  == {"none", "sleeping", "waiting", "recving"}
Accepted == {"sent", "lost"}           \* send returned Ok
Outcomes == Accepted \cup {"nothing"}  \* send failed, or its future was dropped

Init ==
  /\ mode \in Modes
  /\ state = [e \in Ends |-> "unmade"] /\ fut = [e \in Ends |-> "none"]
  /\ queue = [e \in Ends |-> <<>>] /\ outcome = [e \in Ends |-> <<>>]
  /\ received = [e \in Ends |-> <<>>] /\ sawClosed = [e \in Ends |-> FALSE]
  /\ dropNext = [e \in Ends |-> 0] /\ failNext = [e \in Ends |-> 0]

\* duplex
Duplex(e) ==
  /\ state[e] = "unmade" /\ state[Peer[e]] = "unmade"
  /\ state' = [state EXCEPT ![e] = "alive", ![Peer[e]] = "alive"]
  /\ UNCHANGED <<mode, fut, wires, faults>>

Free(e) == state[e] = "alive" /\ fut[e] = "none"

\* Ends are dropped, together when they go with one future or one queue.  Both
\* queue halves of an end go with it: what was sent to it is lost, what it sent
\* stays.
DropEnds(dropped) ==
  /\ \A e \in dropped : Free(e)
  /\ state' = [e \in Ends |-> IF e \in dropped THEN "gone" ELSE state[e]]
  /\ queue' = [e \in Ends |-> IF Peer[e] \in dropped THEN <<>> ELSE queue[e]]
  /\ UNCHANGED <<mode, fut, outcome, received, sawClosed, faults>>

\* drop_next and fail_next store, and do not add.  Bounded to the time before the
\* first send of the end.
Inject(e, n) ==
  /\ Free(e) /\ outcome[e] = <<>> /\ MaxSends[e] > 0
  /\ \/ dropNext' = [dropNext EXCEPT ![e] = n] /\ UNCHANGED failNext
     \/ failNext' = [failNext EXCEPT ![e] = n] /\ UNCHANGED dropNext
  /\ UNCHANGED <<mode, state, fut, wires>>

(***************************************************************************)
(* send                                                                    *)
(***************************************************************************)
Message(e) == Len(outcome[e]) + 1

\* The send of e resolves, or is dropped.
Settle(e, result) ==
  /\ outcome' = [outcome EXCEPT ![e] = Append(@, result)]
  /\ fut' = [fut EXCEPT ![e] = "none"]

\* Up to the sleep: the size check and the injected failure.
Send(e, tooLarge) ==
  /\ Free(e) /\ Len(outcome[e]) < MaxSends[e]
  /\ \/ /\ tooLarge
        /\ Settle(e, "nothing")
        /\ UNCHANGED failNext
     \/ /\ ~tooLarge /\ failNext[e] > 0
        /\ failNext' = [failNext EXCEPT ![e] = @ - 1]
        /\ Settle(e, "nothing")
     \/ /\ ~tooLarge /\ failNext[e] = 0
        /\ fut' = [fut EXCEPT ![e] = "sleeping"]
        /\ UNCHANGED <<outcome, failNext>>
  /\ UNCHANGED <<mode, state, queue, received, sawClosed, dropNext>>

HasRoom(e) == Len(queue[e]) < Capacity

PeerGone(e) == state[Peer[e]] = "gone"

Push(e) ==
  /\ queue' = [queue EXCEPT ![e] = Append(@, Message(e))]
  /\ Settle(e, "sent")

\* tx.send: at once when it can be settled, else it waits.
SendConfirmed(e) ==
  \/ /\ PeerGone(e) /\ Settle(e, "nothing") /\ UNCHANGED queue
  \/ /\ ~PeerGone(e) /\ HasRoom(e) /\ Push(e)
  \/ /\ ~PeerGone(e) /\ ~HasRoom(e)
     /\ fut' = [fut EXCEPT ![e] = "waiting"]
     /\ UNCHANGED <<queue, outcome>>

\* tx.try_send, its error ignored.
SendBestEffort(e) ==
  \/ /\ ~PeerGone(e) /\ HasRoom(e) /\ Push(e)
  \/ /\ PeerGone(e) \/ ~HasRoom(e)
     /\ Settle(e, "lost")
     /\ UNCHANGED queue

\* From the sleep on: the injected loss, then the delivery.
Awake(e) ==
  /\ fut[e] = "sleeping"
  /\ \/ /\ dropNext[e] > 0
        /\ dropNext' = [dropNext EXCEPT ![e] = @ - 1]
        /\ Settle(e, "lost")
        /\ UNCHANGED queue
     \/ /\ dropNext[e] = 0
        /\ IF mode = "besteffort" THEN SendBestEffort(e) ELSE SendConfirmed(e)
        /\ UNCHANGED dropNext
  /\ UNCHANGED <<mode, state, received, sawClosed, failNext>>

\* A slot is free, or the peer goes, while the send waits.
Resume(e) ==
  /\ fut[e] = "waiting"
  /\ \/ /\ PeerGone(e) /\ Settle(e, "nothing") /\ UNCHANGED queue
     \/ /\ ~PeerGone(e) /\ HasRoom(e) /\ Push(e)
  /\ UNCHANGED <<mode, state, received, sawClosed, faults>>

\* Seeded fault: the message is handed over before the deadline is looked at.
PushedAnyway(e) ==
  /\ queue' = [queue EXCEPT ![e] = Append(@, Message(e))]
  /\ Settle(e, "nothing")

Expired(e) == Settle(e, "nothing") /\ UNCHANGED queue

\* The deadline of the send: the future of tx.send is dropped.  A slot may have
\* been freed since that future was last polled.
TimeOut(e) ==
  /\ mode = "deadline" /\ fut[e] = "waiting"
  /\ Expired(e)
  /\ UNCHANGED <<mode, state, received, sawClosed, faults>>

CancelSend(e) ==
  /\ fut[e] \in {"sleeping", "waiting"}
  /\ Settle(e, "nothing")
  /\ UNCHANGED <<mode, state, queue, received, sawClosed, faults>>

(***************************************************************************)
(* recv                                                                    *)
(***************************************************************************)
Recv(e) ==
  /\ Free(e)
  /\ fut' = [fut EXCEPT ![e] = "recving"]
  /\ UNCHANGED <<mode, state, wires, faults>>

Incoming(e) == queue[Peer[e]]

\* The queue is drained before Closed.
Drained(e) == PeerGone(e) /\ Incoming(e) = <<>>

RecvMessage(e) ==
  /\ fut[e] = "recving" /\ Incoming(e) # <<>>
  /\ received' = [received EXCEPT ![e] = Append(@, Head(Incoming(e)))]
  /\ queue' = [queue EXCEPT ![Peer[e]] = Tail(@)]
  /\ fut' = [fut EXCEPT ![e] = "none"]
  /\ UNCHANGED <<mode, state, outcome, sawClosed, faults>>

RecvClosed(e) ==
  /\ fut[e] = "recving" /\ Drained(e)
  /\ sawClosed' = [sawClosed EXCEPT ![e] = TRUE]
  /\ fut' = [fut EXCEPT ![e] = "none"]
  /\ UNCHANGED <<mode, state, queue, outcome, received, faults>>

\* Seeded fault: the future holds the message it took while it is polled again.
RecvTakesFirst(e) ==
  /\ fut[e] = "recving" /\ Incoming(e) # <<>>
  /\ queue' = [queue EXCEPT ![Peer[e]] = Tail(@)]
  /\ fut' = [fut EXCEPT ![e] = "none"]
  /\ UNCHANGED <<mode, state, outcome, received, sawClosed, faults>>

CancelRecv(e) ==
  /\ fut[e] = "recving"
  /\ fut' = [fut EXCEPT ![e] = "none"]
  /\ UNCHANGED <<mode, state, wires, faults>>

Use(e) ==
  \/ \E n \in 1 .. MaxInject : Inject(e, n)
  \/ \E tooLarge \in BOOLEAN : Send(e, tooLarge)
  \/ Awake(e) \/ Resume(e) \/ TimeOut(e) \/ CancelSend(e)
  \/ Recv(e) \/ RecvMessage(e) \/ RecvClosed(e) \/ CancelRecv(e)

Next ==
  \/ \E e \in Ends : Duplex(e) \/ Use(e)
  \/ \E dropped \in SUBSET Ends : DropEnds(dropped)

Spec == Init /\ [][Next]_chanVars

(***************************************************************************)
(* Properties.                                                             *)
(***************************************************************************)
\* Types, and no queue ever holds more than the capacity.
TypeOK ==
  /\ mode \in AllModes
  /\ state \in [Ends -> {"unmade", "alive", "gone"}]
  /\ fut \in [Ends -> Futures]
  /\ queue \in [Ends -> Seq(Nat)] /\ \A e \in Ends : Len(queue[e]) <= Capacity
  /\ outcome \in [Ends -> Seq(Outcomes)]
  /\ received \in [Ends -> Seq(Nat)] /\ sawClosed \in [Ends -> BOOLEAN]
  /\ dropNext \in [Ends -> Nat] /\ failNext \in [Ends -> Nat]

\* The direction from e, as the contract of channel.rs sees it.
Contract(e) == INSTANCE ChannelContract WITH
  Messages <- 1 .. MaxSends[e],
  accepted <- {n \in 1 .. Len(outcome[e]) : outcome[e][n] \in Accepted},
  inFlight <- {queue[e][i] : i \in 1 .. Len(queue[e])},
  received <- received[Peer[e]],
  broken   <- state[Peer[e]] = "gone",
  ended    <- sawClosed[Peer[e]],
  garbled  <- FALSE

\* A MemChannel implements the contract of channel.rs, in both directions and on
\* every channel: what recv returns was taken by a send that did not fail, a send
\* that timed out or failed leaves nothing behind, dropped recv futures and a
\* Closed lose nothing.
ImplementsContract ==
  /\ \A e \in Ends : Contract(e)!Init
  /\ [][\A e \in Ends : Contract(e)!Next \/ UNCHANGED Contract(e)!vars]_chanVars

Line(e) == received[Peer[e]] \o queue[e]

\* What the mock adds to the contract (tests mock_is_fifo_per_direction and
\* drop_next_loses_the_message_even_in_confirmed_mode): messages come out in the
\* order of their sends, once, and every send that reached the queue is received
\* or still in it, however many futures were dropped, until the receiver goes.
Fifo == \A e \in Ends :
  /\ \A i, j \in 1 .. Len(Line(e)) : i < j => Line(e)[i] < Line(e)[j]
  /\ ~PeerGone(e) => {n \in 1 .. Len(outcome[e]) : outcome[e][n] = "sent"}
                       \subseteq {Line(e)[i] : i \in 1 .. Len(Line(e))}
=============================================================================
