---------------------------- MODULE CapnpRegistry ---------------------------
(***************************************************************************)
(* The capability graph of one capnp connection (fungi-transport-capnp):   *)
(* the handles CapnpTransport, CapnpConnector, CapnpListener and           *)
(* CapnpChannel on the caller's side, the Registry of the client actor     *)
(* that keeps their capabilities by id, and the factory calls `listen`,    *)
(* `connect` and `accept` that make new ones.                              *)
(*                                                                         *)
(* A factory call is a future its caller may drop at any point, while its  *)
(* command is queued, its task waits for the server, or its answer sits in *)
(* the oneshot.  CapnpChannel models what a channel does once it exists.   *)
(***************************************************************************)
EXTENDS Integers, Sequences, FiniteSets

CONSTANTS
  Connectors,   \* handles that Transport::connector returned
  NoConnector,  \* the `by` of a call made on something else
  QueueDepth,   \* capacity of the command queue (COMMAND_QUEUE_DEPTH)
  MaxCalls      \* bound: factory calls

ASSUME RegistryAssumption ==
  /\ NoConnector \notin Connectors
  /\ QueueDepth \in Nat \ {0} /\ MaxCalls \in Nat

Calls     == 1 .. MaxCalls
Bootstrap == 0                    \* BOOTSTRAP_ID: the transport
Ids       == 1 .. 2 * MaxCalls    \* a call makes a connector and a channel at most
Kinds     == {"transport", "connector", "listener", "channel"}
Factories == {"listen", "connect", "accept"}
Requests  == Factories \cup {"configure"}
Products  == [listen |-> "listener", connect |-> "channel", accept |-> "channel",
              connector |-> "connector"]
Targets   == [listen |-> "transport", connect |-> "connector", accept |-> "listener",
              connector |-> "transport", configure |-> "transport"]

VARIABLES
  transport,  \* the CapnpTransport handle is open
  connectors, \* open CapnpConnector handles
  cell,       \* CapnpConnector.connector_id of each, 0 while it is empty
  listeners,  \* listener_id of the open CapnpListener handles
  channels,   \* channel_id of the open CapnpChannel handles
  made,       \* factory calls so far
  fut,        \* the future of each call
  cmds,       \* the mpsc command queue
  actor,      \* the actor's thread: "starting", "running" or "stopped"
  conn,       \* the capnp connection: "up" or "down"
  caps,       \* Registry: the kind of capability stored under each id
  nextId,     \* Registry.next_id
  tasks,      \* spawned tasks that wait for the server
  lost,       \* history: ids whose Release found the queue full
  orphans     \* history: ids made for a caller that was gone

handles == <<transport, connectors, listeners, channels>>
vars    == <<handles, cell, made, fut, cmds, actor, conn, caps, nextId, tasks, lost, orphans>>

\* Phases of a future.  "ensuring" waits for the connector's OnceCell,
\* "asking" and "resolving" run its initializer, "named" has its answer.
Initializing == {"asking", "resolving", "named"}
Pending      == {"ensuring", "sending", "waiting", "ready"} \cup Initializing

NoCall == [op |-> "listen", by |-> NoConnector, on |-> Bootstrap, phase |-> "done", id |-> 0]

Init ==
  /\ transport = TRUE /\ connectors = Connectors /\ listeners = {} /\ channels = {}
  /\ cell = [h \in Connectors |-> 0]
  /\ made = 0 /\ fut = [n \in Calls |-> NoCall]
  /\ cmds = <<>> /\ actor = "starting" /\ conn = "up"
  /\ caps = [id \in Ids \cup {Bootstrap} |-> IF id = Bootstrap THEN "transport" ELSE "none"]
  /\ nextId = Bootstrap + 1
  /\ tasks = {} /\ lost = {} /\ orphans = {}

(***************************************************************************)
(* The callers.                                                            *)
(***************************************************************************)
Create(op, by, on, phase) ==
  /\ made < MaxCalls
  /\ made' = made + 1
  /\ fut' = [fut EXCEPT ![made + 1] =
               [op |-> op, by |-> by, on |-> on, phase |-> phase, id |-> 0]]
  /\ UNCHANGED <<handles, cell, cmds, actor, conn, caps, nextId, tasks, lost, orphans>>

\* Futures that borrow connector h, or listener l.
On(h)        == {n \in Calls : fut[n].by = h /\ fut[n].phase \in Pending}
Accepting(l) == {n \in Calls : fut[n].op = "accept" /\ fut[n].on = l
                               /\ fut[n].phase \in Pending}

\* Transport::listen, configure_private_net and Connector::connect take &self,
\* Listener::accept takes &mut self.
Listen  == transport /\ Create("listen", NoConnector, Bootstrap, "sending")
Configure == transport /\ Create("configure", NoConnector, Bootstrap, "sending")
Connect == \E h \in connectors : Create("connect", h, Bootstrap, "ensuring")
Accept  == \E l \in listeners :
             Accepting(l) = {} /\ Create("accept", NoConnector, l, "sending")

\* Seeded fault: every connect that finds the cell empty resolves it.
NobodyChecks(h) == TRUE

\* Nobody runs the initializer of h's OnceCell.
PermitFree(h) == \A n \in On(h) : fut[n].phase \notin Initializing

\* ensure_connector: use the id in the cell, or be the one that asks for it.
Ensure(n) ==
  /\ fut[n].phase = "ensuring"
  /\ LET h == fut[n].by IN
     \/ /\ cell[h] # 0
        /\ fut' = [fut EXCEPT ![n].phase = "sending", ![n].on = cell[h]]
     \/ /\ cell[h] = 0 /\ PermitFree(h)
        /\ fut' = [fut EXCEPT ![n].phase = "asking"]
  /\ UNCHANGED <<handles, cell, made, cmds, actor, conn, caps, nextId, tasks, lost, orphans>>

\* Seeded fault: one command more than the queue was made for.
RoomOffByOne == Len(cmds) <= QueueDepth

HasRoom == Len(cmds) < QueueDepth

\* Seeded fault: the receiver outlives the thread that never got to read it.
NeverCloses == FALSE

QueueClosed == actor = "stopped"

\* tx.send(..).await: waits for room, and fails once the receiver is gone.
Enqueue(n) ==
  /\ fut[n].phase \in {"asking", "sending"}
  /\ \/ /\ ~QueueClosed /\ HasRoom
        /\ \/ /\ fut[n].phase = "asking"
              /\ cmds' = Append(cmds, [op |-> "connector", on |-> Bootstrap, call |-> n])
              /\ fut' = [fut EXCEPT ![n].phase = "resolving"]
           \/ /\ fut[n].phase = "sending"
              /\ cmds' = Append(cmds, [op |-> fut[n].op, on |-> fut[n].on, call |-> n])
              /\ fut' = [fut EXCEPT ![n].phase = "waiting"]
     \/ /\ QueueClosed
        /\ fut' = [fut EXCEPT ![n].phase = "ready"]
        /\ UNCHANGED cmds
  /\ UNCHANGED <<handles, cell, made, actor, conn, caps, nextId, tasks, lost, orphans>>

\* The initializer's answer is polled: the cell is filled for good.
FillCell(n) ==
  /\ fut[n].phase = "named"
  /\ cell' = [cell EXCEPT ![fut[n].by] = fut[n].id]
  /\ fut' = [fut EXCEPT ![n].phase = "sending", ![n].on = fut[n].id, ![n].id = 0]
  /\ UNCHANGED <<handles, made, cmds, actor, conn, caps, nextId, tasks, lost, orphans>>

\* The answer is polled: a new handle, or an error.  A `listen` whose address
\* text does not parse returns an error with the listener registered.
Poll(n) ==
  /\ fut[n].phase = "ready"
  /\ fut' = [fut EXCEPT ![n] = NoCall]
  /\ \/ /\ fut[n].id = 0
        /\ UNCHANGED <<listeners, channels, orphans>>
     \/ /\ fut[n].id # 0 /\ fut[n].op = "listen"
        /\ \/ listeners' = listeners \cup {fut[n].id} /\ UNCHANGED orphans
           \/ orphans' = orphans \cup {fut[n].id} /\ UNCHANGED listeners
        /\ UNCHANGED channels
     \/ /\ fut[n].id # 0 /\ fut[n].op # "listen"
        /\ channels' = channels \cup {fut[n].id}
        /\ UNCHANGED <<listeners, orphans>>
  /\ UNCHANGED <<transport, connectors, cell, made, cmds, actor, conn, caps, nextId,
                 tasks, lost>>

\* The caller drops the future; an id in its oneshot goes with it.
Abandon(n) ==
  /\ fut[n].phase \in Pending
  /\ fut' = [fut EXCEPT ![n] = NoCall]
  /\ orphans' = orphans \cup ({fut[n].id} \ {0})
  /\ UNCHANGED <<handles, cell, made, cmds, actor, conn, caps, nextId, tasks, lost>>

\* Drop of a handle that holds `id`: try_send, which never waits.
Release(id) ==
  /\ IF ~QueueClosed /\ HasRoom
       THEN /\ cmds' = Append(cmds, [op |-> "release", on |-> id, call |-> 0])
            /\ UNCHANGED lost
       ELSE /\ lost' = lost \cup {id}
            /\ UNCHANGED cmds
  /\ UNCHANGED <<transport, made, fut, actor, conn, caps, nextId, tasks, orphans>>

DropConnector == \E h \in connectors :
  /\ On(h) = {}
  /\ connectors' = connectors \ {h} /\ cell' = [cell EXCEPT ![h] = 0]
  /\ \/ cell[h] # 0 /\ Release(cell[h])
     \/ cell[h] = 0 /\ UNCHANGED <<transport, made, fut, cmds, actor, conn, caps, nextId,
                                   tasks, lost, orphans>>
  /\ UNCHANGED <<listeners, channels>>

DropListener == \E l \in listeners :
  /\ Accepting(l) = {}
  /\ listeners' = listeners \ {l}
  /\ Release(l)
  /\ UNCHANGED <<connectors, cell, channels>>

DropChannel == \E c \in channels :
  /\ channels' = channels \ {c}
  /\ Release(c)
  /\ UNCHANGED <<connectors, cell, listeners>>

\* The transport's handle has no Drop: its capability stays in the registry.
DropTransport ==
  /\ transport
  /\ \A n \in Calls : ~(fut[n].op \in {"listen", "configure"} /\ fut[n].phase \in Pending)
  /\ transport' = FALSE
  /\ UNCHANGED <<connectors, listeners, channels, cell, made, fut, cmds, actor, conn,
                 caps, nextId, tasks, lost, orphans>>

(***************************************************************************)
(* The client actor.                                                       *)
(***************************************************************************)
\* The thread starts the plugin (or just the runtime) and enters the loop.
Start ==
  /\ actor = "starting"
  /\ actor' = "running"
  /\ UNCHANGED <<handles, cell, made, fut, cmds, conn, caps, nextId, tasks, lost, orphans>>

\* Seeded fault: the commands go, the senders in them stay.
NobodyHears(n) == FALSE

\* Call n has a command in the queue, with the sender of its oneshot.
HearsDrop(n) == fut[n].phase \in {"resolving", "waiting"}

\* The plugin's process cannot be spawned: the receiver goes with every queued
\* command, and with each command the sender of its oneshot.
SpawnFails ==
  /\ actor = "starting"
  /\ actor' = "stopped" /\ conn' = "down" /\ cmds' = <<>>
  /\ caps' = [id \in DOMAIN caps |-> "none"]
  /\ fut' = [n \in Calls |-> IF HearsDrop(n)
                             THEN [fut[n] EXCEPT !.phase = "ready"] ELSE fut[n]]
  /\ UNCHANGED <<handles, cell, made, nextId, tasks, lost, orphans>>

Serve(op) ==
  /\ actor = "running" /\ cmds # <<>> /\ Head(cmds).op = op
  /\ cmds' = Tail(cmds)

\* Seeded fault: ids by the number of capabilities stored.
CountedId == Cardinality({id \in DOMAIN caps : caps[id] # "none"})

\* Registry::alloc_id: never an id that was given out before.
FreshId == nextId

\* Store a new capability and answer call n with its id; `phase` is where that
\* call waits and `next` where the answer takes it.
Store(n, kind, phase, next) ==
  /\ caps' = [caps EXCEPT ![FreshId] = kind]
  /\ nextId' = nextId + 1
  /\ IF fut[n].phase = phase
       THEN /\ fut' = [fut EXCEPT ![n].phase = next, ![n].id = FreshId]
            /\ UNCHANGED orphans
       ELSE /\ orphans' = orphans \cup {FreshId}
            /\ UNCHANGED fut

\* The connector is pipelined, so this is served inline, whatever the
\* connection's state.  The transport is registered before the loop starts and no
\* handle releases it: the branch without one is for a bootstrapped channel,
\* whose client has no connectors.
ServeConnector ==
  /\ Serve("connector")
  /\ caps[Bootstrap] = "transport"
  /\ Store(Head(cmds).call, "connector", "resolving", "named")
  /\ UNCHANGED <<handles, cell, made, actor, conn, tasks, lost>>

\* A task for the call, with the capability it acts on, if it is there.
\* (ConfigurePrivateNet acts on the bootstrap plugin, which the actor keeps.)
ServeFactory == \E op \in Requests :
  /\ Serve(op)
  /\ tasks' = tasks \cup {[op |-> op, call |-> Head(cmds).call,
                           found |-> caps[Head(cmds).on] = Targets[op]]}
  /\ UNCHANGED <<handles, cell, made, fut, actor, conn, caps, nextId, lost, orphans>>

\* Seeded fault: Release forgets all but the channels.
RemovesChannelOnly(kind) == kind = "channel"

\* Every map of the registry is cleared of the id.
Removes(kind) == TRUE

ServeRelease ==
  /\ Serve("release")
  /\ LET id == Head(cmds).on IN
     caps' = [caps EXCEPT ![id] = IF Removes(@) THEN "none" ELSE @]
  /\ UNCHANGED <<handles, cell, made, fut, actor, conn, nextId, tasks, lost, orphans>>

\* The server has made the object: register it, wanted or not.
TaskSucceeds == \E t \in tasks :
  /\ t.found /\ conn = "up" /\ t.op \in Factories
  /\ tasks' = tasks \ {t}
  /\ Store(t.call, Products[t.op], "waiting", "ready")
  /\ UNCHANGED <<handles, cell, made, cmds, actor, conn, lost>>

\* No capability, an error of the backend, or a connection that is gone; or the
\* answer to configure_private_net, which carries no capability either way.
TaskFails(n) == \E t \in tasks :
  /\ t.call = n
  /\ tasks' = tasks \ {t}
  /\ fut' = IF fut[n].phase = "waiting" THEN [fut EXCEPT ![n].phase = "ready"] ELSE fut
  /\ UNCHANGED <<handles, cell, made, cmds, actor, conn, caps, nextId, lost, orphans>>

Disconnect ==
  /\ conn = "up" /\ actor = "running"
  /\ conn' = "down"
  /\ UNCHANGED <<handles, cell, made, fut, cmds, actor, caps, nextId, tasks, lost, orphans>>

\* Every sender of the queue is gone: handles, and futures that borrow or clone one.
Unused ==
  /\ ~transport /\ connectors = {} /\ listeners = {} /\ channels = {}
  /\ \A n \in Calls : fut[n].phase \notin Pending

ActorStops ==
  /\ actor = "running" /\ Unused /\ cmds = <<>>
  /\ actor' = "stopped" /\ conn' = "down" /\ tasks' = {}
  /\ caps' = [id \in DOMAIN caps |-> "none"]
  /\ UNCHANGED <<handles, cell, made, fut, cmds, nextId, lost, orphans>>

ServeCommand == ServeConnector \/ ServeFactory \/ ServeRelease

Next ==
  \/ Listen \/ Configure \/ Connect \/ Accept
  \/ \E n \in Calls :
       Ensure(n) \/ Enqueue(n) \/ FillCell(n) \/ Poll(n) \/ Abandon(n) \/ TaskFails(n)
  \/ DropConnector \/ DropListener \/ DropChannel \/ DropTransport
  \/ Start \/ SpawnFails \/ ServeCommand \/ TaskSucceeds \/ Disconnect \/ ActorStops

Spec == Init /\ [][Next]_vars

\* The actor's thread runs, callers poll the futures they hold, and a task on a
\* dead connection or without a capability fails; the server answers if it wants.
Fairness ==
  /\ WF_vars(Start \/ SpawnFails) /\ WF_vars(ServeCommand) /\ WF_vars(ActorStops)
  /\ \A n \in Calls :
       /\ WF_vars(Ensure(n)) /\ WF_vars(Enqueue(n)) /\ WF_vars(FillCell(n))
       /\ WF_vars(conn = "down" /\ TaskFails(n))

FairSpec == Spec /\ Fairness

(***************************************************************************)
(* Properties.                                                             *)
(***************************************************************************)
Command == [op : Requests, on : Ids \cup {Bootstrap}, call : Calls]
           \cup [op : {"connector"}, on : {Bootstrap}, call : Calls]
           \cup [op : {"release"}, on : Ids, call : {0}]

\* Every variable keeps its type, and the queue its capacity.
TypeOK ==
  /\ transport \in BOOLEAN /\ connectors \subseteq Connectors
  /\ cell \in [Connectors -> Ids \cup {0}]
  /\ listeners \subseteq Ids /\ channels \subseteq Ids /\ made \in 0 .. MaxCalls
  /\ fut \in [Calls -> [op : Requests, by : Connectors \cup {NoConnector},
                        on : Ids \cup {Bootstrap}, phase : Pending \cup {"done"},
                        id : Ids \cup {0}]]
  /\ cmds \in Seq(Command) /\ Len(cmds) <= QueueDepth
  /\ actor \in {"starting", "running", "stopped"} /\ conn \in {"up", "down"}
  /\ caps \in [Ids \cup {Bootstrap} -> Kinds \cup {"none"}]
  /\ nextId \in 1 .. 2 * MaxCalls + 1
  /\ tasks \subseteq [op : Requests, call : Calls, found : BOOLEAN]
  /\ lost \subseteq Ids /\ orphans \subseteq Ids

\* Who answers for the capability under `id`: an open handle, an answer on its
\* way to a caller, or a Release in the queue.
Owners(id) ==
  {<<"listener", l>> : l \in listeners \cap {id}}
  \cup {<<"channel", c>> : c \in channels \cap {id}}
  \cup {<<"connector", h>> : h \in {k \in connectors : cell[k] = id}}
  \cup {<<"answer", n>> : n \in {m \in Calls : fut[m].id = id}}
  \cup {<<"release", i>> : i \in {j \in DOMAIN cmds : cmds[j].op = "release"
                                                      /\ cmds[j].on = id}}

\* No two owners share a capability: no handle can release, or be served with,
\* what belongs to another, however calls are dropped and ids given out.
OneOwner == \A id \in Ids : \A o, p \in Owners(id) : o = p

\* A handle's capability is in the registry, under the right kind, as long as
\* the handle is open and the actor lives.
HandlesBacked ==
  actor # "stopped" =>
    /\ \A l \in listeners : caps[l] = "listener"
    /\ \A c \in channels : caps[c] = "channel"
    /\ \A h \in connectors : cell[h] # 0 => caps[cell[h]] = "connector"

\* A command finds what it was meant for when its turn comes: nothing released
\* its target before it in the queue.
CommandsFindTarget ==
  \A i \in DOMAIN cmds : cmds[i].op # "release" =>
    /\ caps[cmds[i].on] = Targets[cmds[i].op]
    /\ \A j \in 1 .. i - 1 : ~(cmds[j].op = "release" /\ cmds[j].on = cmds[i].on)

\* Every registered capability has an owner, or its Release met a full queue,
\* or its caller had dropped the call that made it: there is no other leak.
LeaksAccounted ==
  \A id \in Ids : caps[id] # "none" => Owners(id) # {} \/ id \in lost \cup orphans

\* All connects of one handle go through one remote connector, even when the
\* connect that was resolving it is dropped halfway (doc of CapnpConnector).
ConnectorShared ==
  \A n, m \in Calls :
    /\ fut[n].by = fut[m].by /\ fut[n].by # NoConnector
    /\ fut[n].on # Bootstrap /\ fut[m].on # Bootstrap
    => fut[n].on = fut[m].on

\* A caller that keeps its future is served or refused: no wait for the OnceCell
\* or the queue lasts, whoever drops out in front of it.
CommandGoesOut == \A n \in Calls :
  (fut[n].phase \in {"ensuring", "sending"} \cup Initializing)
    ~> (fut[n].phase \notin {"ensuring", "sending"} \cup Initializing)

\* A plugin that cannot start, or a connection that is gone, surfaces as an
\* error and never as a hang (doc of connect_plugin).
UnreachableIsSeen == \A n \in Calls :
  (fut[n].phase = "waiting" /\ (conn = "down" \/ actor = "stopped"))
    ~> (fut[n].phase # "waiting")
=============================================================================
