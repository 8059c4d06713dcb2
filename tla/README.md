# Verification of fungi-transport

TLA+ models of the fungi transport workspace (Rust), model-checked with TLC and
proved with TLAPS. Paths below are relative to the repository; `capnp` stands
for `crates/fungi-transport-capnp/src/lib.rs`, `framed` for
`crates/fungi-transport/src/framed.rs`, `lazy` for
`crates/fungi-transport-arti/src/lazy.rs`, `control` and `socks5h` for
`crates/fungi-transport-socks5h/src/control.rs` and `lib.rs`, `mem` for
`crates/fungi-transport/src/mem.rs`.

## 1. The system

`fungi-transport` defines four traits (`Transport`, `Connector`, `Listener`,
`Channel`): a peer obtains bidirectional message channels by connecting to an
address or by accepting on a listener. All operations are `async`; a caller may
drop any future at any await, and the contract (`channel.rs`) asks that a
dropped `recv` loses nothing. `send` and `recv` take `&mut self`, so one channel
never has two futures at once, but dropping one and creating another is always
allowed. There are no timeouts in the traits: callers wrap futures in one, which
drops them. Most of what is hard in this code follows from that.

| Component | State | Operations | What makes it correct |
|---|---|---|---|
| capnp channel (`capnp`): client handle, actor thread, `RecvState`, `BackendServer` | command queue (mpsc, 32), a oneshot per call, `in_flight`/`waiter`/`buffer` per channel, outstanding capnp calls, the backend's lock | `send`, `recv`, drop; the actor's `Send`, `Recv`, `Release`; the tasks; the server's calls; disconnection | one capnp `recv` at a time; no message lost, doubled or reordered by dropped futures; `Closed` is final; pending calls are answered; the last drop ends the actor |
| capnp registry (`capnp`): `CapnpTransport`, `CapnpConnector`, `CapnpListener`, `Registry` | capabilities by id, `next_id`, the connector's `OnceCell`, queued commands, spawned tasks | `listen`, `connect`, `accept`, `ensure_connector`, drops, `Release`, plugin spawn | ids never shared; an open handle has its capability; leaks only where a `Release` or an answer is lost; nobody waits on a dead connection |
| capnp server side (`capnp`) | a backend per object, a mutex per listener and channel | forwards calls | the mutexes do not stop a call for ever; a dropped `accept` costs one inbound channel at most |
| framed channel (`framed`) | partial header and payload, `poisoned`, the byte stream | `send`, `recv` | whole messages in order over any cut of the stream; a dropped `recv` loses no byte; a bounded allocation; end and truncation told apart |
| lazy arti (`lazy`, `private_net.rs`, `transport.rs`) | `OnceCell` of the client, pending descriptor | `get` under every `listen`/`connect`, `configure_private_net` | one bootstrap, one client, on the network configured last; failures and drops hand over |
| arti connector and listener (`listener.rs`, `connector.rs`) | the stream of requests, circuits that carry several | `listen`, `connect`, `accept` | a request for the right port is never forgotten behind refused, failed or dropped ones |
| tor listener (`control`, `socks5h`) | local TCP listener, control connection; at the daemon: the service | `bind`, `accept`, drop | no service without a listener behind it, none left behind, `bind` never waits for a line that will not come |
| socks5 connector (`socks5.rs`) | one socket, shared with the frames behind the handshake | `connect` | the handshake takes exactly its own bytes, and never waits for others |
| in-memory channel and network (`mem`) | two bounded queues, injection counters, a listener slot, a queue of eight | `send`, `recv`, `connect`, `accept`, `listen` | first in, first out; loss only where configured; a timed-out send leaves nothing behind; a far end without its near end is never accepted |
| channel traits (`channel.rs`, `error.rs`) | none: a contract | `send`, `recv` | every transport above keeps it |
| addresses, conformance kit, harness, plugin binaries, nix | none that matters | | |

How they interact: a handle puts a `Command` with a oneshot sender on the
bounded queue of its connection's actor; the actor, one thread, serves it inline
or in a task on its `LocalSet`; tasks share the `Registry` by `RefCell` and hold
clones of capabilities across awaits; the capnp connection carries calls to the
server, whose objects wrap any backend that implements the traits; the answer
comes back through the oneshot. `Drop` of a handle sends `Release` with
`try_send`, which fails on a full queue. `FramedChannel` is the channel of both
tor backends; `LazyArti` sits in front of the arti backend in its plugin;
`TorListener` is the listener of the socks5h one.

The hard behaviours are listed with their lines in `PROJECT.json` (`hazards`):
futures dropped between the filling of a oneshot and its poll, commands that
join a call in flight, tasks that wake after a `Release`, a lock held across an
await, lost `Release`s, the races of an `OnceCell`, torn frames, a descriptor
cloned before an await, a daemon that goes away, a deadline that fires as a slot is
freed, a reply and a frame in one read, a circuit shut down under other requests.

## 2. The modules

Each module has one action per operation or handler. Where code runs between two
awaits it is one step, since the actor and its tasks share one thread; every
await is a step boundary and a point where the caller may drop the future.
Definitions marked "Seeded fault" are used nowhere: each is the form a plausible
bug would give the definition under it, and the property named for it in
`PROJECT.json` (`mutants`) fails when the two are swapped.

| Composition | is made of |
|---|---|
| `TorChannel` | `FramedChannel` behind a SOCKS5 handshake or an `accept` |
| `MemNetwork` | `MemChannel`s, made by `connect` and handed over to `accept` |
| `ArtiListener` | `LazyArti`, whose callers launch the listener |
| `ChannelContract` | the abstract specification; `FramedChannel` and `MemChannel` each define `ImplementsContract` by an `INSTANCE` of it |

### CapnpChannel

One `CapnpChannel` and its connection. `fut` is the caller's future: `sending`
(waits for room in the queue), `waiting` (on its oneshot), `ready` (the oneshot
is filled, the future not yet polled). `cmds` is the queue, `recvState` the
`RecvState`, `calling` the capnp calls at the server, `answered` the answers on
their way to their tasks, `lock` the holder of `BackendServer`'s mutex. Messages
are numbered in the order the peer sent them: `arrived` have reached the backend,
`taken` were given out by it. `others` says whether other handles keep the
connection. `Abandon` drops the future; `Disconnect` breaks the connection and
fails the calls outstanding, of which some answers may still get through. The
bytes of messages and the local size check are left out. `Acquire` lets any
waiting call take the lock first, though tokio's mutex is fair: the order in
which the RPC system first polls two calls is not the model's to fix. `Stuck` is a
send, abandoned or not, that waits inside the backend on a full outbox: whether it
moves is up to the peer's application, which nothing makes read.

`CapnpChannelInv` states the inductive invariant, `CapnpChannelProofs` proves it.

### CapnpRegistry

The capability graph of one connection. A factory call is a record in `fut` that
moves through `ensuring`/`asking`/`resolving`/`named` (the connector's
`OnceCell` and its initializer), `sending`, `waiting`, `ready`. `caps` is the
registry, `tasks` the spawned tasks (with whether the capability was found when
the command was served), `lost` and `orphans` are history: ids whose `Release`
met a full queue, and ids made for callers that were gone. `SpawnFails` is
`connect_plugin`'s failure to start its process. `Release` may find a slot that a
waiting sender was about to be given, which tokio would reserve for that sender:
the model allows a little more than the code. What a channel does once it exists
is in `CapnpChannel`. `ServeConnector` has no branch for a plugin without a
transport (`capnp` 262-271): a connection bootstrapped by a plugin has it in the
registry from the start and releases it never (`CapsInv`), and one bootstrapped by a
channel has no transport handle that could ask for a connector.

A factory call of this module ends as the server wants. `configure_private_net`
is a call too, but its answer registers nothing, so for the registry it ends as a
call that failed does; what the descriptor changes is in `LazyArti`.

`CapnpRegistryProofs` proves its properties, for any connectors, calls and queue.

### CapnpListener

The server's half of `accept`, opened up: the calls of one `CapnpListener`, the
tasks that carry them, and `ListenerServer`'s mutex, which each call holds while it
awaits the backend's `accept`. `waiting` is the mutex's queue, `holder` the call
inside, `answers` what is on its way back; `arrived` counts the channels peers
opened, `inbound` those the backend has yet to hand out. A dropped call is not
withdrawn at the server: it takes the next channel, or its place in the queue.

### ChannelContract

What `channel.rs` promises of one direction of any channel. `accepted` are the
messages a `send` took (it returned `Ok`, or was dropped and the message went all
the same), `inFlight` those the transport still holds. `Accept` may lose the
message at once, `Deliver` may leave it in flight: there is no ordering and no
deduplication in the contract. What it does exclude is a message the transport did
not take, a message lost by a dropped `recv`, and a message after `Closed`. A `send`
need not be cancel-safe: one that is cut off halfway may garble the direction
(`garbled`). Then `recv` may return something nobody sent (`Garbage`), but only with
nothing left in flight, and never after a `Closed` or once the direction broke. A
`Closed` may itself be how the receiver learns that the direction broke.

### FramedChannel, TorChannel

`FramedChannel` is one direction of the framing. `pipe` is the byte stream;
`Write(n)` and the reads move any number of bytes, so frames are cut in every way.
Bytes are digits of base `Base` and the prefix has `HeaderLen` of them: 256 and 4
in the code, 6 and 2 in the run, which keeps big-endian order, the limits at both
ends, zero length, and an announced length over the limit. `HalfWritten` marks a
send that was dropped or failed inside a frame; from then on the stream is out of
step, as the documentation of `framed` says, and both ends go on: later frames are
written whole (`late`) and `recv` returns what it finds. `ReadReset` is a stream that
reports a reset, which `recv` turns into `Closed` without poisoning the channel; what
the stream still held is never read.

Under the mapping to `ChannelContract` the messages accepted are `sent` and `late`,
those received are all that `recv` returned, poison and a reset break the direction,
and a torn frame garbles it. `Intact` says what the framing adds to the contract:
order, and no message twice, up to the first torn frame.

`TorChannel` puts it where the tor-daemon backend does: an accepted socket carries
frames from its first byte, a dialled one carries the proxy's answers first, on the
same stream. `dial` follows `socks5::connect` from one `read_exact` to the next;
`got` and `want` are its buffer. The proxy (external) answers well, badly or with
an address of any kind, in pieces, stops, or closes; the peer's frames may be in
the stream right behind its last byte. What it answers wrongly (`Others`) is none of
the values the protocol has a meaning for. `V4Len` and `V6Len` are 1 and 3 in the run,
4 and 16 in the code.

`TorChannelProofs` proves the safety of both modules.

### MemChannel, MemNetwork

`MemChannel` has any number of ends and pairs them by `Peer`. An end has one
future: `sleeping` is the latency, `waiting` the `tx.send` on a full queue,
`recving` the `recv`. The n-th send of an end is its message n, and `outcome` keeps
what each came to: `sent` (in the queue), `lost` (`Ok` without it: injected, or
best-effort), `nothing` (an error, or the future dropped). `TimeOut` may come with
a slot already free: the timer is polled when the send was not. Data and
`max_msg_len` are reduced to a choice of `tooLarge`.

`MemNetwork` adds `connect`, which makes both ends and waits to hand the far one
over, the listener's queue, `listen`, which works once, `accept`, and every drop:
of a `connect` that waits (both ends go), of the connectors, of the listener with
what is in its queue, of the transport with a listener never taken.

### LazyArti

`LazyInner::get` over tokio's `OnceCell` (a one-permit fair semaphore, external
code modelled from its documented behaviour): `holder`, `queue`, `booted`.
`attempt` is the descriptor the running initializer has cloned; `raced` is
history. That all callers get one client is not a property of its own: the cell is
filled once, by one bootstrap (`OneBootstrap`). A caller may fail, be dropped while it waits, when it has just been
given the permit, or in the middle of the bootstrap, and call again.

### ArtiListener, ArtiListenerProofs

A caller that `get` served launches the onion service and has the listener. Peers'
requests come over circuits; `fate` follows each request from `unsent` over
`queued` and `taken` to its end. `Refuse` is the `_` arm of `accept`'s loop: it
shuts the circuit down, which kills what else came over it, and goes on. A request
taken by an `accept` that is dropped goes with it. What tor_hsservice and tor_proto
do between circuits and the stream of requests is external: a circuit may be lost
at any time, a dead circuit's requests stay in the stream, the stream may end.

### TorListener

`bind` over the control port and the listener it returns: the connection, the two
commands and the two replies are steps of their own, and between any two of them the
future may fail or be dropped and the daemon may go. Calls of `bind` are
numbered and each has its own local listener, connection and service (fresh key).
The daemon (external) reads commands when it likes, also after the caller has
gone, answers them well, badly or not at all, and closes connections, because we
did or on its own, which may cut a reply after any line. Reply lines are classified as the code classifies them. What
`accept` returns is in `TorChannel`.

## 3. What is checked

| Run | Bounds | Shows |
|---|---|---|
| `channel_safety` | queue 2, 4 futures, 2 messages, outbox 1 | `TypeOK`, `RecvExclusive`, `OneMessageHeld`, `NoSilentLoss`, `NoResurrection`, `DeliveredInOrder`, `ClosedIsFinal` |
| `channel_liveness` | queue 2, 3 futures, 1 message | `RecvAnswered`, `SendAnswered`, `LastHandleCloses` |
| `registry` | queue 2, 1 connector, 3 calls | `TypeOK`, `OneOwner`, `HandlesBacked`, `CommandsFindTarget`, `LeaksAccounted`, `ConnectorShared`, `CommandGoesOut`, `UnreachableIsSeen` |
| `capnp_listener` | queue 2, 4 accepts, 4 inbound channels | `RetriesAnswered` |
| `mem` | 2 channels, one of them used, capacity 1, backlog 1, all modes, 1 injected fault | `Fifo`, `NoGhosts`, `ImplementsContract`, `SendSettles`, `PeerLossSeen` |
| `tor_channel` | base 6, prefix of 2, stream of 3 bytes, 3 sends, payloads of `MCTorChannel` | `TypeOK`, `Intact`, `ImplementsContract`, `FramesArrive`, `EndIsSeen`, `DialEnds` |
| `arti_listener` | 3 callers, a good and a bad descriptor, 3 requests on 2 circuits | `OneBootstrap`, `ConfigureApplies`, `CallersServed`, `RequestsServed` |
| `tor_listener` | 3 binds | `PublishedIsServed`, `BoundIsPublished`, `OneServiceHeld`, `BindEnds`, `StrayServicesGo` |

The type invariants of `LazyArti`, `ArtiListener`, `MemChannel`, `CapnpListener`
and `TorListener` are proved (section 4) and are in no run.

Why the bounds are enough. In the channel, the longest interesting story is a
`recv` that is dropped, a second that joins its call and is dropped, a third that
finds the message buffered, and one more after it; two queue slots let a `Release`
be lost and a command wait. In the registry three calls give one that is dropped,
one that takes over its work and one after both; a `connect` makes two
capabilities, so six ids exist. Behind the server's mutex, three dropped calls are
one inside, one waiting and one still on its way when the fourth comes. Of two
in-memory channels, one fills the backlog and the other waits behind it or is
dropped there; capacity 1, the code's default, is where a send waits, a
best-effort send is lost and a deadline fires, and the second message of an end is
the one that could overtake. A stream that holds less than a frame and less than a
reply cuts both everywhere; three messages are one before, one around and one
after a torn one. Three callers of the bootstrap are one that runs it, one that
takes over and one behind; of three requests, two share a circuit, and one of
them is refused. Three binds let the daemon still hold the connections of two while
the third is under way.

Four runs show a disagreement between the code and what it says of itself
(`findings` in `PROJECT.json`):

- `channel_cancel`: a message in a filled oneshot is lost with a future dropped
  before its last poll.
- `channel_lock`: the abandoned `recv`'s call holds the server's lock and a later
  `send` waits behind it. (Its premise leaves out the other half: a dropped `send` that
  waits on a full backend holds the same lock and keeps a later `recv` out, though a
  message is there. `RecvAnswered` and `SendAnswered` except it too, as `[]<>~Stuck`:
  the backend is free of such a send again and again.)
- `channel_drop`: a parked, abandoned `recv` keeps the remote channel alive after
  the handle's `Release`.
- `tor_lifetime`: the service may go while the listener stays.

Two more are facts of passing runs. `LeaksAccounted` has to except, besides a
`Release` that met a full queue, every capability made for a caller that had
dropped its `listen`, `connect` or `accept` (`orphans`): the documentation of the
handles' `Drop` (`capnp` 868-871) speaks of the full queue alone. And a caller in
`LazyArti` can come to `rejected`: `configure_private_net` runs only
`PrivateNet::parse` (`lazy` 109), so a descriptor it accepted may fail later, in
`build_config`, though the comment there (107-108) says that it validates eagerly.

### Fairness

A module has `Spec`, safety only, and `FairSpec`. Fairness is asked of: the
actor's thread and its tasks (a runtime that polls what is ready), the
server's answer to a call that can be answered, callers that hold a future
(they poll it), and a `drop` that has begun. Never of: a peer sending or reading, a caller
calling, dropping or not dropping, the daemon or the server answering a factory
call. `TorChannel` needs strong fairness of the reads, because the
application may drop `recv` futures for ever between them; it keeps calling
`recv`, and polls each future at least once. Its handshake is polled as long as it
is kept, and a proxy that has begun an answer writes it out. `MemNetwork` asks the
same of an application that receives, weak fairness of a send that can go on (the
latency over, a slot free, the deadline past), and nothing of `connect` or
`accept`. `CapnpListener` asks for the actor, the tasks, the mutex and a backend
that hands out a channel it has. In `ArtiListener` an `accept` may be dropped again
and again, so its steps are strongly fair: each poll of one finds the request at
the head; that the owner keeps calling `accept` is a premise in the formula of
`RequestsServed`, not fairness. The lock of `CapnpChannel` is passed
under the fairness of its module's `Fairness`, stated there action by action; a send
stuck on a peer that does not read is a premise of its properties, not ruled out by
fairness. In `TorListener` the daemon owes nothing but to notice a closed connection:
a `bind` ends because the daemon has gone or has answered, which are the premises
of `BindEnds`.

`CHECK_DEADLOCK FALSE` stands where everything may be dropped and the system end.

## 4. What is proved

All theorems hold for every value of the constants under the modules' named
assumptions (sizes are naturals, queues have room for one element, special values
are in no set, `Peer` pairs the ends, limits fit in the length prefix). With them
every safety property that a passing run checks is proved.

- `CapnpChannelProofs`: `TypeOK`, `RecvExclusive`, `OneMessageHeld`,
  `NoSilentLoss`, `NoResurrection`, `DeliveredInOrder`, `ClosedIsFinal`.
- `ArtiListenerProofs`: for `LazyArti`, `TypeOK`, `OneBootstrap`,
  `ConfigureApplies`, and the last two again under the listener (`UnderListener`);
  the listener's types and `Placed` (every request in one place).
- `TorChannelProofs`: `TypeOK`, `Intact` and `ImplementsContract`, for
  `FramedChannel` alone (`Framed...`) and behind the handshake (`Tor...`), and that
  `Length` undoes `Prefix` (`LengthUndoesPrefix`). `TorClosedIsFinal` states the end
  of a channel directly: nothing is received after `Closed`, torn frames or not.
- `MemProofs`: for `MemChannel`, its types, `Fifo` and `ImplementsContract`; for
  `MemNetwork`, that it uses its channels as `MemChannel!Spec` allows
  (`ChannelsRefined`), hence both again, and `NoGhosts`.
- `CapnpRegistryProofs`: `TypeOK`, `OneOwner`, `HandlesBacked`,
  `CommandsFindTarget`, `LeaksAccounted`, `ConnectorShared`.
- `CapnpListenerProofs`: its types and the queue's capacity.
- `TorListenerProofs`: `TypeOK`, `OneServiceHeld`, `PublishedIsServed`,
  `BoundIsPublished`.

The argument for the capnp channel. None of the properties is inductive alone: that
a `Recv` starts no second call needs that `in_flight` is true exactly while a call
or its answer exists; that needs that a call's state cannot be dropped and
re-created under it, i.e. that nothing is queued behind a `Release`; and so on.
`CapnpChannelInv!IInv` is `TypeOK` with named parts: `ReleaseInv` (a `Release` is
the last command and the handle is gone), `OrderInv` and `KindInv` (what call
numbers may appear where), `GateInv` (the outstanding call and `in_flight` agree),
`MessageInv` (the messages taken, delivered, held and stranded, and that at most
the newest is held), `ClosedInv` (after a `Closed` seen by the caller nothing is
left that could be delivered). Each action has a lemma that it preserves `IInv`;
the lemma `MessageFrame` serves those that move no message. The action properties
follow from `IInv` in the state before the step.

For `CapnpRegistry` the question is where an id may be. `OneOwner` needs that an
id is given to one answer only, thus that a call is answered once: `PlaceInv` says
that a call the actor still owes an answer has one command or one task, and the
command or task is for what the call waits for. That an id is never reused is
`KnownInv` (every id in sight is below `nextId`); that the ids suffice, and so that
`TypeOK` holds at all, is `CountInv`, which counts the calls that may still make a
connector or a product. `OwnInv` then keeps answers, handles and queued `Release`s
apart, `CapsInv` gives each the capability it is for, and says that nothing behind
a `Release` in the queue names its id, and `LeakInv` follows every capability to an
owner or to one of the two histories. `CallInv` has the rule of the `OnceCell`: one
initializer per connector, and a call that has gone past it names the id in the
cell, from which `ConnectorShared` follows.

For `LazyArti` the permit carries the argument: whoever is past the queue holds it
(`PermitInv`) and the running attempt is for the pending descriptor unless one came
since (`AttemptInv`).

For `MemChannel` it is the line of each direction, `received` followed by `queue`:
its messages are increasing, all of them are sends with outcome `sent`, and none of
those is missing while the receiver lives. A send that ends appends a number larger
than any before, a `recv` moves the head from one part to the other and leaves the
line as it is, and a drop cuts it. After `Closed` the sending end is gone and its
queue empty, so that nothing can follow. Each action is then matched with a step of
the contract, or a stutter, in each direction. The network's invariant says that what
the listener has, or had, is the far end of a connect that succeeded, once and in one
place (`Offered`), and that no such far end is lost before the listener goes
(`Kept`). That every network step is a step of `MemChannel` or leaves the channels
alone follows from the actions themselves.

For `TorListener` the invariant follows the dialogue of the current `bind`: one
command is out at a time, and what is left to read is the rest of the answer to it
(`Dialogue`). We hold the current bind's connection and local listener, and no
other (`Holdings`); of later binds the daemon has heard nothing. So late answers and
closings on an earlier connection cannot be mistaken for the current one's.

For the framing the question is what the bytes on their way mean. `Stream(B)` says
that `B`, which is the receiver's header and payload with the pipe behind them
(`Undelivered`), holds the frames of the messages sent and not delivered, each where
the one before it ends, then the written part of the frame of the current send. The
position of each frame is a function of its number, so a write adds at the end
(`StreamGrows`), completing a frame moves it from the current send to the messages
(`StreamCompletes`), a read that completes nothing leaves `B` as it is, and a
delivery takes the first frame off (`StreamDelivers`). The receiver cuts the stream
by the length it reads, so the first frame comes off whole only if that length is
the one of the message: `LengthUndoesPrefix`, on the digits of a number. Both are
recursive functions; the induction is spelled out by the least number that would be
a counterexample, since the library's induction theorems cannot be used. After a
torn frame `Stream` still speaks of the messages whole before it and of nothing
behind: that is why `Intact` allows `received` to grow beyond `sent` then, and why such
a delivery is the contract's `Garbage`, for which nothing of `sent` may be left. The
contract's `Deliver` and `End` need two facts more, kept in `Quiet` and `Shows`: a
`Closed` comes only with the stream empty, refused or reset, after which no read
succeeds, and a delivery within `sent` is the next message.

For the handshake `TorInv` splits the stream into what is left of the proxy's reply
and the peer's frames behind it (`Parts`), and `Reply` says what that rest may be,
by the step of `connect`: an answer of two bytes, a reply that grants with exactly
the length its address type announces (`Granting`), one that the first four bytes
refuse, the length byte and the name, or the bytes of a bound address, as many as
the buffer takes. `TakesFacts` then says that no read of the handshake reaches a byte of
a frame, and `FullFacts` that the next step waits for the next part. When `connect`
returns nothing of the reply is left, and `Stream` holds of the channel's first
byte. The proof needed `Head4` to test the version before the code: as cases of
equal rank, the two were ambiguous.

Only model-checked: all liveness (fairness and `ENABLED` are outside the prover).

## 5. What is not modelled, and why

The parser of onion addresses (`addr.rs`) and the text of a private network
descriptor: pure, and only their verdicts matter. `into_stream` and the `Display`
impls. The server objects that only forward a call (`ConnectorServer`,
`TransportServer`, `PluginServer`, `FixturesServer`) and the test server
`Loopback`. The local `TooLarge` check of `CapnpChannel`, which changes nothing. The
conformance kit, the harness (`harness.rs`, `testkit.rs`, `bin/harness`): sequential
test drivers over the traits. The plugin binaries and the nix checks: glue. The
internals of tokio, capnp-rpc, arti and tor are external; where a model depends on
them the map says so. That `CapnpChannel` implements `ChannelContract` is not
stated: a filled oneshot dropped with its future loses the message
(`channel_cancel`), which the contract excludes.

## 6. Plan

1. What a client of the bridge may count on, as an abstract specification:
   `ChannelContract` with the loss of `channel_cancel` allowed, implemented by
   `CapnpChannel`.
2. A session of the harness over the composed transports, if its retries are ever
   relied on.
