---------------------------- MODULE CapnpListener ---------------------------
(***************************************************************************)
(* One CapnpListener and the ListenerServer behind it: the accept calls of *)
(* a caller that may drop any of them (a timeout, then a retry), the tasks *)
(* of the client actor that carry them to the server, and the server's     *)
(* mutex around the backend listener, which every call holds while it      *)
(* awaits the backend's accept.                                            *)
(*                                                                         *)
(* CapnpRegistry models the ids and handles of a whole connection, with    *)
(* the server as a black box.  This module opens that box for `accept`: an *)
(* answer is here just an answer, what is registered under which id is     *)
(* left to CapnpRegistry.                                                  *)
(***************************************************************************)
EXTENDS Naturals, Sequences

CONSTANTS
  QueueDepth,  \* capacity of the command queue (COMMAND_QUEUE_DEPTH)
  MaxCalls,    \* bound: accept calls
  MaxInbound   \* bound: channels that peers open to the backend listener

ASSUME BoundsAssumption ==
  QueueDepth \in Nat \ {0} /\ MaxCalls \in Nat /\ MaxInbound \in Nat

Calls    == 1 .. MaxCalls
Released == 0             \* the Release command of the handle
NoCall   == 0

VARIABLES
  handle,      \* the CapnpListener is open
  made,        \* accept calls so far
  fut,         \* the future of each call
  cmds,        \* the command queue: calls, and the Release
  registered,  \* the registry holds the listener's capability
  conn,        \* the connection is up
  waiting,     \* calls that wait for the ListenerServer's mutex, in order
  holder,      \* the call that holds it and awaits the backend's accept
  answers,     \* calls whose answer is on its way to their task
  arrived,     \* channels that peers have opened so far
  inbound      \* how many of them the backend has yet to hand out

callerVars == <<handle, made, fut>>
actorVars  == <<cmds, registered, conn>>
serverVars == <<waiting, holder, answers, arrived, inbound>>
vars == <<callerVars, actorVars, serverVars>>

Pending == {"sending", "waiting", "ready"}

Init ==
  /\ handle = TRUE /\ made = 0 /\ fut = [n \in Calls |-> "none"]
  /\ cmds = <<>> /\ registered = TRUE /\ conn = TRUE
  /\ waiting = <<>> /\ holder = NoCall /\ answers = {}
  /\ arrived = 0 /\ inbound = 0

(***************************************************************************)
(* The caller.                                                             *)
(***************************************************************************)
\* accept takes &mut self: the call before is answered or dropped.
Accepting == \E n \in Calls : fut[n] \in Pending

Accept ==
  /\ handle /\ ~Accepting /\ made < MaxCalls
  /\ made' = made + 1
  /\ fut' = [fut EXCEPT ![made + 1] = "sending"]
  /\ UNCHANGED <<handle, actorVars, serverVars>>

HasRoom == Len(cmds) < QueueDepth

Enqueue(n) ==
  /\ fut[n] = "sending" /\ HasRoom
  /\ cmds' = Append(cmds, n)
  /\ fut' = [fut EXCEPT ![n] = "waiting"]
  /\ UNCHANGED <<handle, made, registered, conn, serverVars>>

Finish(n) ==
  /\ fut' = [fut EXCEPT ![n] = "done"]
  /\ UNCHANGED <<handle, made, actorVars, serverVars>>

\* The oneshot is polled: a CapnpChannel, or an error.
Poll(n) == fut[n] = "ready" /\ Finish(n)

\* The caller drops its accept.  Nothing tells the actor or the server.
Abandon(n) == fut[n] \in Pending /\ Finish(n)

\* Drop for CapnpListener: try_send, which gives up when the queue is full.
DropHandle ==
  /\ handle /\ ~Accepting
  /\ handle' = FALSE
  /\ cmds' = IF HasRoom THEN Append(cmds, Released) ELSE cmds
  /\ UNCHANGED <<made, fut, registered, conn, serverVars>>

(***************************************************************************)
(* The client actor, and the tasks of the accept commands.                 *)
(***************************************************************************)
\* The calls in `set` whose caller still waits are answered.
Reply(set) ==
  fut' = [n \in Calls |-> IF n \in set /\ fut[n] = "waiting" THEN "ready" ELSE fut[n]]

\* Command::Accept: the task sends the request, or fails without the capability
\* or the connection.
ServeAccept ==
  /\ cmds # <<>> /\ Head(cmds) # Released
  /\ cmds' = Tail(cmds)
  /\ IF registered /\ conn
       THEN waiting' = Append(waiting, Head(cmds)) /\ UNCHANGED fut
       ELSE Reply({Head(cmds)}) /\ UNCHANGED waiting
  /\ UNCHANGED <<handle, made, registered, conn, holder, answers, arrived, inbound>>

ServeRelease ==
  /\ cmds # <<>> /\ Head(cmds) = Released
  /\ cmds' = Tail(cmds)
  /\ registered' = FALSE
  /\ UNCHANGED <<callerVars, conn, serverVars>>

\* The answer arrives.
TaskEnds(n) ==
  /\ n \in answers
  /\ answers' = answers \ {n}
  /\ Reply({n})
  /\ UNCHANGED <<handle, made, actorVars, waiting, holder, arrived, inbound>>

\* Calls that the server has not answered, or whose answer is on its way.
Out == {waiting[i] : i \in DOMAIN waiting} \cup {holder} \cup answers

\* Every call that is out fails, and the server drops what it has.
Disconnect ==
  /\ conn /\ conn' = FALSE
  /\ Reply(Out)
  /\ waiting' = <<>> /\ holder' = NoCall /\ answers' = {} /\ inbound' = 0
  /\ UNCHANGED <<handle, made, cmds, registered, arrived>>

(***************************************************************************)
(* The server, and the peers of its backend.                               *)
(***************************************************************************)
\* The mutex is free, and passes to the call that waited first.
Lock ==
  /\ holder = NoCall /\ waiting # <<>>
  /\ holder' = Head(waiting) /\ waiting' = Tail(waiting)
  /\ UNCHANGED <<callerVars, actorVars, answers, arrived, inbound>>

\* Seeded fault: the guard lives on with the answer.
GuardKept ==
  /\ answers' = answers \cup {holder}
  /\ UNCHANGED holder

\* The call ends: its guard goes and its answer is on the way.
Answer ==
  /\ answers' = answers \cup {holder}
  /\ holder' = NoCall

\* The backend's accept returns a channel, which new_channel_client wraps.
BackendAccepts ==
  /\ holder # NoCall /\ inbound > 0
  /\ Answer
  /\ inbound' = inbound - 1
  /\ UNCHANGED <<callerVars, actorVars, waiting, arrived>>

BackendFails ==
  /\ holder # NoCall
  /\ Answer
  /\ UNCHANGED <<callerVars, actorVars, waiting, arrived, inbound>>

\* The ListenerServer is there: its capability is held by the client's registry,
\* by a task, or by a call in progress.
Alive == conn /\ (registered \/ waiting # <<>> \/ holder # NoCall)

PeerConnects ==
  /\ Alive /\ arrived < MaxInbound
  /\ arrived' = arrived + 1
  /\ inbound' = inbound + 1
  /\ UNCHANGED <<callerVars, actorVars, waiting, holder, answers>>

\* The ListenerServer goes, and with it the channels nobody accepted.
ServerDrops ==
  /\ ~Alive /\ inbound > 0
  /\ inbound' = 0
  /\ UNCHANGED <<callerVars, actorVars, waiting, holder, answers, arrived>>

Next ==
  \/ Accept \/ DropHandle
  \/ \E n \in Calls : Enqueue(n) \/ Poll(n) \/ Abandon(n) \/ TaskEnds(n)
  \/ ServeAccept \/ ServeRelease \/ Disconnect
  \/ Lock \/ BackendAccepts \/ BackendFails \/ PeerConnects \/ ServerDrops

Spec == Init /\ [][Next]_vars

\* The two threads run, and the backend hands out a channel that is there.
Fairness ==
  /\ WF_vars(ServeAccept \/ ServeRelease) /\ WF_vars(Lock) /\ WF_vars(BackendAccepts)
  /\ \A n \in Calls : WF_vars(TaskEnds(n))

FairSpec == Spec /\ Fairness

(***************************************************************************)
(* Properties.                                                             *)
(***************************************************************************)
\* Every variable keeps its type, and the command queue its capacity.
TypeOK ==
  /\ handle \in BOOLEAN /\ made \in 0 .. MaxCalls
  /\ fut \in [Calls -> Pending \cup {"none", "done"}]
  /\ cmds \in Seq(Calls \cup {Released}) /\ Len(cmds) <= QueueDepth
  /\ registered \in BOOLEAN /\ conn \in BOOLEAN
  /\ waiting \in Seq(Calls) /\ holder \in Calls \cup {NoCall}
  /\ answers \subseteq Calls
  /\ arrived \in 0 .. MaxInbound /\ inbound \in 0 .. arrived

\* A caller that drops an accept and calls it again is answered in the end: each
\* call dropped before takes at most one inbound channel with it, so that the
\* n-th call has its answer once n peers have connected - though every dropped
\* call still holds, or waits for, the mutex around the backend
\* (ListenerServer::accept).
RetriesAnswered == \A n \in Calls :
  (fut[n] = "waiting" /\ arrived >= n) ~> (fut[n] # "waiting")
=============================================================================
