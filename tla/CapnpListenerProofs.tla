------------------------- MODULE CapnpListenerProofs ------------------------
(***************************************************************************)
(* The accept calls and the server's mutex, for any queue depth and any    *)
(* number of calls and of inbound channels.                                *)
(***************************************************************************)
EXTENDS CapnpListener, SequenceTheorems, TLAPS

\* Every step keeps the types.
LEMMA TypeStep ==
  ASSUME TypeOK, Next
  PROVE  TypeOK'
<1> USE BoundsAssumption DEF TypeOK, Calls, Pending, Released, NoCall
<1>1. CASE Accept
  BY <1>1 DEF Accept, actorVars, serverVars
\* A command at the end of the queue, while there is room.
<1>2. ASSUME NEW c \in Calls \cup {Released}, HasRoom
      PROVE  Append(cmds, c) \in Seq(Calls \cup {Released}) /\ Len(Append(cmds, c)) <= QueueDepth
  BY <1>2 DEF HasRoom
<1>3. ASSUME NEW n \in Calls, Enqueue(n) PROVE TypeOK'
  <2>1. /\ cmds' = Append(cmds, n) /\ HasRoom /\ fut' = [fut EXCEPT ![n] = "waiting"]
        /\ UNCHANGED <<handle, made, registered, conn, waiting, holder, answers, arrived, inbound>>
    BY <1>3 DEF Enqueue, serverVars
  <2> QED
    BY <1>2, <2>1
<1>4. ASSUME NEW n \in Calls, Poll(n) \/ Abandon(n) PROVE TypeOK'
  BY <1>4 DEF Poll, Abandon, Finish, actorVars, serverVars
<1>5. CASE DropHandle
  <2>1. /\ cmds' = IF HasRoom THEN Append(cmds, Released) ELSE cmds
        /\ handle' = FALSE
        /\ UNCHANGED <<made, fut, registered, conn, waiting, holder, answers, arrived, inbound>>
    BY <1>5 DEF DropHandle, serverVars
  <2>2. cmds' \in Seq(Calls \cup {Released}) /\ Len(cmds') <= QueueDepth
    BY <1>2, <2>1
  <2> QED
    BY <2>1, <2>2
<1>7. ASSUME cmds # <<>>
      PROVE  /\ Tail(cmds) \in Seq(Calls \cup {Released}) /\ Len(Tail(cmds)) <= QueueDepth
             /\ Head(cmds) \in Calls \cup {Released}
  BY <1>7
<1>8. CASE ServeAccept
  <2>1. /\ cmds # <<>> /\ Head(cmds) # Released /\ cmds' = Tail(cmds)
        /\ UNCHANGED <<handle, made, registered, conn, holder, answers, arrived, inbound>>
        /\ \/ waiting' = Append(waiting, Head(cmds)) /\ UNCHANGED fut
           \/ Reply({Head(cmds)}) /\ UNCHANGED waiting
    BY <1>8 DEF ServeAccept
  <2>2. waiting' \in Seq(Calls) /\ fut' \in [Calls -> Pending \cup {"none", "done"}]
    <3>1. Head(cmds) \in Calls
      BY <1>7, <2>1
    <3>2. Append(waiting, Head(cmds)) \in Seq(Calls)
      BY <3>1
    <3>3. fut' \in [Calls -> Pending \cup {"none", "done"}]
      BY <2>1 DEF Reply
    <3> QED
      BY <2>1, <3>2, <3>3
  <2> QED
    BY <1>7, <2>1, <2>2
<1>9. CASE ServeRelease
  BY <1>7, <1>9 DEF ServeRelease, callerVars, serverVars
<1>10. ASSUME NEW n \in Calls, TaskEnds(n) PROVE TypeOK'
  BY <1>10 DEF Reply, TaskEnds, actorVars
<1>11. CASE Disconnect
  <2>1. <<>> \in Seq(Calls) /\ 0 \in 0 .. arrived
    OBVIOUS
  <2>2. fut' \in [Calls -> Pending \cup {"none", "done"}]
    BY <1>11 DEF Disconnect, Reply
  <2> QED
    BY <1>11, <2>1, <2>2 DEF Disconnect
<1>12. CASE Lock
  <2>1. waiting # <<>> => Head(waiting) \in Calls /\ Tail(waiting) \in Seq(Calls)
    OBVIOUS
  <2> QED
    BY <1>12, <2>1 DEF Lock, callerVars, actorVars
<1>13. CASE BackendAccepts \/ BackendFails
  <2>1. answers' = answers \cup {holder} /\ holder' = NoCall /\ holder # NoCall
    BY <1>13 DEF BackendAccepts, BackendFails, Answer
  <2>2. inbound' \in 0 .. arrived /\ UNCHANGED <<callerVars, actorVars, waiting, arrived>>
    BY <1>13 DEF BackendAccepts, BackendFails
  <2> QED
    BY <2>1, <2>2 DEF callerVars, actorVars
<1>14. CASE PeerConnects \/ ServerDrops
  <2>1. /\ arrived' \in 0 .. MaxInbound /\ inbound' \in 0 .. arrived'
        /\ UNCHANGED <<callerVars, actorVars, waiting, holder, answers>>
    BY <1>14 DEF PeerConnects, ServerDrops
  <2> QED
    BY <2>1 DEF callerVars, actorVars
<1> QED
  BY <1>1, <1>3, <1>4, <1>5, <1>8, <1>9, <1>10, <1>11, <1>12, <1>13, <1>14 DEF Next

\* The command queue never outgrows COMMAND_QUEUE_DEPTH, the backend never hands
\* out more channels than peers opened, and the variables keep their types.
THEOREM TypeCorrect == Spec => []TypeOK
<1>1. Init => TypeOK
  <2>1. <<>> \in Seq(Calls \cup {Released}) /\ <<>> \in Seq(Calls) /\ Len(<<>>) = 0
    OBVIOUS
  <2> QED
    BY <2>1, BoundsAssumption DEF Init, TypeOK, Calls, NoCall
<1>2. TypeOK /\ [Next]_vars => TypeOK'
  <2>1. TypeOK /\ UNCHANGED vars => TypeOK'
    BY DEF TypeOK, vars, callerVars, actorVars, serverVars
  <2> QED
    BY <2>1, TypeStep
<1> QED
  BY <1>1, <1>2, PTL DEF Spec
=============================================================================
