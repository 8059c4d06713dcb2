--------------------------- MODULE ChannelContract --------------------------
(***************************************************************************)
(* What channel.rs promises of one direction of any Channel, whatever the  *)
(* transport: the abstract specification that FramedChannel and MemChannel *)
(* are shown to implement.  There is no ordering and no deduplication in   *)
(* it, and a message may be lost where the transport takes it or when the  *)
(* direction breaks; but never because a recv future was dropped, and      *)
(* never ahead of a Closed.  A Closed is the last answer.                  *)
(*                                                                         *)
(* "send is NOT required to be cancel-safe": one that is dropped, or fails *)
(* halfway, may garble the direction.  What was accepted before still      *)
(* arrives first; behind it recv may return anything.                      *)
(***************************************************************************)
EXTENDS Naturals, Sequences

CONSTANT Messages   \* distinct sends: two messages of equal bytes are two elements

VARIABLES
  accepted,  \* messages the transport took: their send returned Ok, or was dropped
  inFlight,  \* of those, what it still holds for the receiver
  received,  \* what recv returned, in order
  broken,    \* the direction broke: what was in flight is gone
  ended,     \* recv returned Closed
  garbled    \* a send was cut off halfway

vars == <<accepted, inFlight, received, broken, ended, garbled>>

Init ==
  /\ accepted = {} /\ inFlight = {} /\ received = <<>>
  /\ broken = FALSE /\ ended = FALSE /\ garbled = FALSE

\* The transport accepts a message and will deliver it "best-effort": it may
\* have lost it already.  A send that errs has not done this.
Accept(m) ==
  /\ m \notin accepted
  /\ accepted' = accepted \cup {m}
  /\ \/ inFlight' = inFlight
     \/ ~broken /\ inFlight' = inFlight \cup {m}
  /\ UNCHANGED <<received, broken, ended, garbled>>

\* recv returns any message in flight, which may stay there: "no ordering
\* guarantees, no deduplication".
Deliver(m) ==
  /\ ~ended /\ m \in inFlight
  /\ received' = Append(received, m)
  /\ inFlight' \in {inFlight, inFlight \ {m}}
  /\ UNCHANGED <<accepted, broken, ended, garbled>>

\* A send is cut off halfway.
Garble ==
  /\ garbled' = TRUE
  /\ UNCHANGED <<accepted, inFlight, received, broken, ended>>

\* Behind what was accepted in time, recv returns something that nobody sent.
Garbage ==
  /\ garbled /\ ~ended /\ ~broken /\ inFlight = {}
  /\ Len(received') = Len(received) + 1
  /\ SubSeq(received', 1, Len(received)) = received
  /\ UNCHANGED <<accepted, inFlight, broken, ended, garbled>>

\* The receiving end is gone, or refuses the direction for good.
Break ==
  /\ broken' = TRUE /\ inFlight' = {}
  /\ UNCHANGED <<accepted, received, ended, garbled>>

\* recv returns Closed: "no further messages will arrive".  It may be how the
\* receiver learns that the direction broke.
End ==
  /\ ended' = TRUE
  /\ \/ inFlight = {} /\ UNCHANGED <<inFlight, broken>>
     \/ broken' = TRUE /\ inFlight' = {}
  /\ UNCHANGED <<accepted, received, garbled>>

Next ==
  \/ \E m \in Messages : Accept(m) \/ Deliver(m)
  \/ Garble \/ Garbage \/ Break \/ End

Spec == Init /\ [][Next]_vars
=============================================================================
