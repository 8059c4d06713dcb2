---------------------------- MODULE ArtiListener ----------------------------
(***************************************************************************)
(* The arti listener and the calls that reach it (listener.rs,             *)
(* connector.rs, the Transport of transport.rs), on top of the deferred    *)
(* bootstrap: a caller that LazyInner::get served launches the onion       *)
(* service, peers dial it over circuits that carry several stream          *)
(* requests each, and `accept` takes the requests one by one.  A request   *)
(* for another port is refused by shutting its whole circuit down.         *)
(*                                                                         *)
(* tor_hsservice's merged stream of requests is the queue `incoming`; that *)
(* a request of a dead circuit stays in it is arti's, as is the end of the *)
(* stream when its client shuts down.                                      *)
(***************************************************************************)
EXTENDS LazyArti

CONSTANTS
  Requests,   \* stream requests of peers
  Circuit,    \* the circuit each request comes over
  RightPort   \* the requests that are a Begin for virt_port

ASSUME RequestsAssumption ==
  "idle" \notin Requests /\ "waiting" \notin Requests /\ RightPort \subseteq Requests

VARIABLES
  listener,   \* the ArtiListener: not made, open, its requests at an end, dropped
  accept,     \* the accept future: none, awaiting `incoming`, or a request
  incoming,   \* ArtiListener.incoming
  fate,       \* what became of each request
  dead        \* circuits shut down or lost

onionVars == <<listener, accept, incoming, fate, dead>>
artiVars == <<vars, onionVars>>

Held == {"open", "ended"}
Settled == {"served", "failed", "refused", "dropped"}
Fates == {"unsent", "queued", "taken"} \cup Settled

ArtiInit ==
  /\ Init
  /\ listener = "none" /\ accept = "idle" /\ incoming = <<>>
  /\ fate = [r \in Requests |-> "unsent"] /\ dead = {}

\* The rest of a listen whose get returned the client: the service is launched.
\* (A bad nickname or a service that arti does not launch is an error and
\* leaves nothing.)
Listen(c) ==
  /\ pc[c] = "ready" /\ listener = "none"
  /\ listener' = "open"
  /\ UNCHANGED <<accept, incoming, fate, dead>>

\* A peer's ArtiConnector::connect sends its Begin; it ends as the request does.
Dial(r) ==
  /\ fate[r] = "unsent" /\ listener = "open" /\ Circuit[r] \notin dead
  /\ incoming' = Append(incoming, r)
  /\ fate' = [fate EXCEPT ![r] = "queued"]
  /\ UNCHANGED <<listener, accept, dead>>

CircuitLost(r) ==
  /\ fate[r] \notin Settled /\ Circuit[r] \notin dead
  /\ dead' = dead \cup {Circuit[r]}
  /\ UNCHANGED <<listener, accept, incoming, fate>>

ServiceEnds ==
  /\ listener = "open" /\ listener' = "ended"
  /\ UNCHANGED <<accept, incoming, fate, dead>>

\* accept is called: it takes &mut self, so there is one at a time.
Accept ==
  /\ listener \in Held /\ accept = "idle"
  /\ accept' = "waiting"
  /\ UNCHANGED <<listener, incoming, fate, dead>>

\* A request for the right port: req.accept is called.
Take ==
  /\ accept = "waiting" /\ incoming # <<>> /\ Head(incoming) \in RightPort
  /\ accept' = Head(incoming)
  /\ incoming' = Tail(incoming)
  /\ fate' = [fate EXCEPT ![Head(incoming)] = "taken"]
  /\ UNCHANGED <<listener, dead>>

\* Seeded fault: the refused request is looked at and not taken.
RefusedStays ==
  /\ accept = "waiting" /\ incoming # <<>> /\ Head(incoming) \notin RightPort
  /\ dead' = dead \cup {Circuit[Head(incoming)]}
  /\ fate' = [fate EXCEPT ![Head(incoming)] = "refused"]
  /\ UNCHANGED <<listener, accept, incoming>>

\* Any other request: its circuit is shut down, and the loop goes on.
Refuse ==
  /\ accept = "waiting" /\ incoming # <<>> /\ Head(incoming) \notin RightPort
  /\ dead' = dead \cup {Circuit[Head(incoming)]}
  /\ incoming' = Tail(incoming)
  /\ fate' = [fate EXCEPT ![Head(incoming)] = "refused"]
  /\ UNCHANGED <<listener, accept>>

AcceptEnds(r, outcome) ==
  /\ accept = r
  /\ accept' = "idle"
  /\ fate' = [fate EXCEPT ![r] = outcome]
  /\ UNCHANGED <<listener, incoming, dead>>

\* The Connected cell goes out: both ends have a FramedChannel.
AcceptOk(r) == Circuit[r] \notin dead /\ AcceptEnds(r, "served")

\* The circuit is dead, or the peer has given its stream up: accept returns Err.
AcceptFails(r) == AcceptEnds(r, "failed")

\* incoming.next() is None: Unreachable.
NoMoreRequests ==
  /\ accept = "waiting" /\ incoming = <<>> /\ listener = "ended"
  /\ accept' = "idle"
  /\ UNCHANGED <<listener, incoming, fate, dead>>

\* The accept future is dropped; a request it had taken goes with it.
CancelAccept ==
  \/ /\ accept = "waiting" /\ accept' = "idle"
     /\ UNCHANGED <<listener, incoming, fate, dead>>
  \/ \E r \in Requests : AcceptEnds(r, "dropped")

\* The listener is dropped, and its requests and service with it.
DropListener ==
  /\ listener \in Held /\ accept = "idle"
  /\ listener' = "gone" /\ incoming' = <<>>
  /\ fate' = [r \in Requests |-> IF fate[r] = "queued" THEN "dropped" ELSE fate[r]]
  /\ UNCHANGED <<accept, dead>>

AcceptSteps == Take \/ Refuse \/ NoMoreRequests
                 \/ \E r \in Requests : AcceptOk(r) \/ AcceptFails(r)

OnionNext ==
  \/ \E c \in Callers : Listen(c)
  \/ \E r \in Requests : Dial(r) \/ CircuitLost(r)
  \/ ServiceEnds \/ Accept \/ AcceptSteps \/ CancelAccept \/ DropListener

ArtiNext ==
  \/ Next /\ UNCHANGED onionVars
  \/ OnionNext /\ UNCHANGED vars

ArtiSpec == ArtiInit /\ [][ArtiNext]_artiVars

\* Besides the callers of the bootstrap, an accept that is kept is polled, and
\* every poll of one finds the request at the head of the queue.
ArtiFairness ==
  /\ Fairness
  /\ SF_artiVars(AcceptSteps /\ UNCHANGED vars)

ArtiFairSpec == ArtiSpec /\ ArtiFairness

(***************************************************************************)
(* Properties.                                                             *)
(***************************************************************************)
\* Every variable of the listener keeps its type.
OnionTypeOK ==
  /\ listener \in {"none", "gone"} \cup Held
  /\ accept \in {"idle", "waiting"} \cup Requests
  /\ incoming \in Seq(Requests)
  /\ fate \in [Requests -> Fates]
  /\ dead \subseteq {Circuit[r] : r \in Requests}

\* Every request is in one place: in the queue once while its fate says so, in the
\* hands of accept while it is taken, and in neither before and after; and only
\* requests for virt_port are ever taken (the match of accept in listener.rs).
Placed ==
  /\ \A r \in Requests : fate[r] = "queued" <=> \E i \in 1 .. Len(incoming) : incoming[i] = r
  /\ \A i, j \in 1 .. Len(incoming) : incoming[i] = incoming[j] => i = j
  /\ \A r \in Requests : fate[r] = "taken" <=> accept = r
  /\ \A r \in Requests : fate[r] \in {"taken", "served"} => r \in RightPort

\* No request for the right port is forgotten: if the owner of the listener
\* keeps calling accept, the request is accepted, or fails on its own account,
\* or goes with the accept or the listener that the owner dropped - however
\* many requests before it were refused, failed, or were dropped at the await
\* in accept (listener.rs, the loop of accept).
RequestsServed ==
  []<>(accept # "idle" \/ listener \notin Held) =>
    \A r \in RightPort : (fate[r] = "queued") ~> (fate[r] \in Settled)
=============================================================================
