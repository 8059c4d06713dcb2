----------------------------- MODULE MemNetwork -----------------------------
(***************************************************************************)
(* The in-memory network of fungi-transport (mem.rs): `connect` makes a    *)
(* channel and hands its far end to the listener over a bounded queue, a   *)
(* MemTransport gives its one listener out once, and both ends are then    *)
(* used as MemChannel says.                                                *)
(*                                                                         *)
(* A connect is named by the near end of the channel it makes.             *)
(***************************************************************************)
EXTENDS MemChannel

CONSTANTS
  Near,     \* the ends `connect` returns; their peers are those `accept` returns
  Users,    \* bound: the ends whose owner sends and receives, not only holds them
  Backlog   \* the capacity of the listener's queue, 8 in `network`

ASSUME NetworkAssumption ==
  /\ Near \subseteq Ends /\ \A e \in Ends : e \in Near <=> Peer[e] \notin Near
  /\ Users \subseteq Ends /\ Backlog \in Nat \ {0}

VARIABLES
  dialing,     \* each connect
  inbound,     \* MemListener.inbound: far ends not yet accepted
  accepted,    \* far ends accept returned
  listener,    \* kept by the MemTransport, taken by `listen`, or dropped
  accepting,   \* a future of accept exists
  connectors   \* some connector, or the transport, is alive

netOnly == <<dialing, inbound, accepted, listener, accepting, connectors>>
netVars == <<chanVars, netOnly>>

NetInit ==
  /\ Init
  /\ dialing = [c \in Near |-> "idle"] /\ inbound = <<>> /\ accepted = {}
  /\ listener = "kept" /\ accepting = FALSE /\ connectors = TRUE

(***************************************************************************)
(* The transport and its connectors.                                       *)
(***************************************************************************)
\* MemTransport::listen; a second call finds the slot empty and is refused.
Listen ==
  /\ connectors /\ listener = "kept"
  /\ listener' = "held"
  /\ UNCHANGED <<chanVars, dialing, inbound, accepted, accepting, connectors>>

\* The transport and every connector are dropped, and a listener never taken.
\* A connect under way holds a clone of the queue's sender.
DropConnectors ==
  /\ connectors /\ connectors' = FALSE
  /\ listener' = IF listener = "kept" THEN "gone" ELSE listener
  /\ DropEnds(IF listener = "kept" THEN {inbound[i] : i \in 1 .. Len(inbound)} ELSE {})
  /\ inbound' = IF listener = "kept" THEN <<>> ELSE inbound
  /\ UNCHANGED <<dialing, accepted, accepting>>

\* The channel is made when connect is called.
Connect(c) ==
  /\ connectors /\ dialing[c] = "idle"
  /\ Duplex(c)
  /\ dialing' = [dialing EXCEPT ![c] = "waiting"]
  /\ UNCHANGED <<inbound, accepted, listener, accepting, connectors>>

\* Seeded fault: the far end is handed over before the last await of connect.
HandOverEarly(c) ==
  /\ inbound' = Append(inbound, Peer[c])
  /\ UNCHANGED dialing

\* The slot is taken and connect resolves in one poll.
HandOver(c) ==
  /\ inbound' = Append(inbound, Peer[c])
  /\ dialing' = [dialing EXCEPT ![c] = "connected"]

ConnectOk(c) ==
  /\ dialing[c] = "waiting" /\ listener # "gone" /\ Len(inbound) < Backlog
  /\ HandOver(c)
  /\ UNCHANGED <<chanVars, accepted, listener, accepting, connectors>>

\* The future of connect ends without a channel: both ends go with it.
Undial(c, result) ==
  /\ dialing[c] = "waiting"
  /\ dialing' = [dialing EXCEPT ![c] = result]
  /\ DropEnds({c, Peer[c]})
  /\ UNCHANGED <<inbound, accepted, listener, accepting, connectors>>

ConnectUnreachable(c) == listener = "gone" /\ Undial(c, "unreachable")

CancelConnect(c) == Undial(c, "dropped")

(***************************************************************************)
(* The listener.                                                           *)
(***************************************************************************)
Accept ==
  /\ listener = "held" /\ ~accepting
  /\ accepting' = TRUE
  /\ UNCHANGED <<chanVars, dialing, inbound, accepted, listener, connectors>>

AcceptOk ==
  /\ accepting /\ inbound # <<>>
  /\ accepted' = accepted \cup {Head(inbound)} /\ inbound' = Tail(inbound)
  /\ accepting' = FALSE
  /\ UNCHANGED <<chanVars, dialing, listener, connectors>>

\* Every sender of the queue is gone and it is empty: nobody will ever connect.
NobodyLeft ==
  ~connectors /\ inbound = <<>> /\ \A c \in Near : dialing[c] # "waiting"

AcceptUnreachable ==
  /\ accepting /\ NobodyLeft
  /\ accepting' = FALSE
  /\ UNCHANGED <<chanVars, dialing, inbound, accepted, listener, connectors>>

CancelAccept ==
  /\ accepting /\ accepting' = FALSE
  /\ UNCHANGED <<chanVars, dialing, inbound, accepted, listener, connectors>>

\* Seeded fault: what waits in the queue outlives the listener.
QueueOutlives ==
  /\ listener = "held" /\ ~accepting
  /\ listener' = "gone"
  /\ UNCHANGED <<chanVars, dialing, inbound, accepted, accepting, connectors>>

\* The far ends in the queue go with the listener.
DropListener ==
  /\ listener = "held" /\ ~accepting
  /\ listener' = "gone" /\ inbound' = <<>>
  /\ DropEnds({inbound[i] : i \in 1 .. Len(inbound)})
  /\ UNCHANGED <<dialing, accepted, accepting, connectors>>

(***************************************************************************)
(* The applications use the ends they were given.                          *)
(***************************************************************************)
Owned(e) == e \in accepted \/ (e \in Near /\ dialing[e] = "connected")

UseEnd(e) == Owned(e) /\ e \in Users /\ Use(e) /\ UNCHANGED netOnly

LeaveEnd(e) == Owned(e) /\ DropEnds({e}) /\ UNCHANGED netOnly

NetNext ==
  \/ Listen \/ DropConnectors \/ Accept \/ AcceptOk \/ AcceptUnreachable
  \/ CancelAccept \/ DropListener
  \/ \E c \in Near :
       Connect(c) \/ ConnectOk(c) \/ ConnectUnreachable(c) \/ CancelConnect(c)
  \/ \E e \in Ends : UseEnd(e) \/ LeaveEnd(e)

NetSpec == NetInit /\ [][NetNext]_netVars

(***************************************************************************)
(* Fairness.  The runtime polls what can go on: a send whose sleep is over *)
(* or whose slot is free, a deadline that has passed.  A user of an end    *)
(* calls recv whenever it is not sending and polls that future at least    *)
(* once; it may drop it for ever, hence strong fairness.  Nothing is asked *)
(* of connect, accept or a drop.                                           *)
(***************************************************************************)
Polled(e) == UNCHANGED netOnly /\ (Awake(e) \/ Resume(e) \/ TimeOut(e))

Fairness == \A e \in Users :
  /\ WF_netVars(Polled(e))
  /\ WF_netVars(Owned(e) /\ Recv(e) /\ UNCHANGED netOnly)
  /\ SF_netVars(RecvMessage(e) /\ UNCHANGED netOnly)
  /\ SF_netVars(RecvClosed(e) /\ UNCHANGED netOnly)

FairSpec == NetSpec /\ Fairness

(***************************************************************************)
(* Properties.                                                             *)
(***************************************************************************)
InQueue(e) == \E i \in 1 .. Len(inbound) : inbound[i] = e

\* A far end reaches the listener if and only if its connect returned the near
\* one: a connect dropped while it waits for a slot leaves no far end that accept
\* would return without a peer, and a channel returned to a client is in the queue
\* or was accepted, exactly one of the two, or went with the listener.
NoGhosts == \A c \in Near :
  LET far == Peer[c]
  IN  /\ InQueue(far) \/ far \in accepted => dialing[c] = "connected"
      /\ ~(InQueue(far) /\ far \in accepted)
      /\ dialing[c] = "connected" =>
           InQueue(far) \/ far \in accepted \/ (listener = "gone" /\ PeerGone(c))
      /\ Len(inbound) <= Backlog

\* Each MemChannel of the network lives as MemChannel says.
ChannelSpec == Spec

\* A send with a deadline, and a best-effort one, ends though nobody receives.
SendSettles == \A e \in Users :
  (fut[e] \in {"sleeping", "waiting"} /\ mode # "confirmed")
    ~> fut[e] \notin {"sleeping", "waiting"}

\* The peer of e is gone, or will never exist: the listener went before the accept.
Deserted(e) ==
  Owned(e) /\ (PeerGone(e) \/ (listener = "gone" /\ Peer[e] \notin accepted \cup Near))

\* "A dropped peer must be detected, not hang" (testkit.rs): an application that
\* keeps receiving learns it, also when the peer was dropped before it was accepted.
PeerLossSeen == \A e \in Users :
  Deserted(e) ~> (sawClosed[e] \/ state[e] = "gone")
=============================================================================
