----------------------------- MODULE TorListener ----------------------------
(***************************************************************************)
(* The listener of fungi-transport-socks5h: TorListener::bind publishes an *)
(* onion service through the control port of a tor daemon, and the service *)
(* lives as long as that control connection.  The daemon is another        *)
(* process: it answers when it likes, refuses, or goes away, and notices   *)
(* later that we closed our end.                                           *)
(*                                                                         *)
(* Each call of bind is numbered, and so are its local TCP listener, its   *)
(* control connection and (DiscardPK: a fresh key each time) its service.  *)
(*                                                                         *)
(* A reply line is "id" (250-ServiceID=...), "more" (any other 250-...),   *)
(* "ok" (250 OK), "fin" (250 and other text) or "err" (any other code).    *)
(***************************************************************************)
EXTENDS Naturals, Sequences

CONSTANT MaxBinds    \* bound: calls of bind

ASSUME BindsAssumption == MaxBinds \in Nat

Binds == 1 .. MaxBinds
Lines == {"id", "more", "ok", "fin", "err"}

VARIABLES
  bind,      \* calls of bind so far; the last one is the current
  phase,     \* where it is
  local,     \* binds whose local TCP listener is open
  held,      \* binds whose control connection we hold
  serving,   \* binds whose control connection the daemon holds
  asked,     \* commands the daemon has not read, on each bind's connection
  replies,   \* lines we have not read, of the current bind
  trusted,   \* binds whose AUTHENTICATE the daemon took
  published, \* binds whose service the daemon runs
  named      \* service_id: the loop has read a ServiceID line

daemon == <<serving, trusted, published>>
vars   == <<bind, phase, local, held, asked, replies, named, daemon>>

\* Where a bind may be: connecting; writing AUTHENTICATE, reading its reply;
\* writing ADD_ONION, reading its reply.
Handshake == {"connecting", "connected", "authenticating", "authenticated", "adding"}

Init ==
  /\ bind = 0 /\ phase = "none" /\ local = {} /\ held = {}
  /\ serving = {} /\ asked = [n \in Binds |-> <<>>] /\ replies = <<>>
  /\ trusted = {} /\ published = {} /\ named = FALSE

(***************************************************************************)
(* The owner of the listener.                                              *)
(***************************************************************************)
\* Seeded fault: the local listener is opened once the service is published.
OpensLater == local' = local

OpensLocal == local' = local \cup {bind'}

\* bind: the local listener first, so that its port can be published.
Bind ==
  /\ phase = "none" /\ bind < MaxBinds
  /\ bind' = bind + 1
  /\ phase' = "connecting"
  /\ OpensLocal
  /\ replies' = <<>> /\ named' = FALSE
  /\ UNCHANGED <<held, asked, daemon>>

\* create_onion: the control port takes the connection.
Connect ==
  /\ phase = "connecting" /\ phase' = "connected"
  /\ held' = held \cup {bind} /\ serving' = serving \cup {bind}
  /\ UNCHANGED <<bind, local, asked, replies, named, trusted, published>>

\* A command is written, be it to a daemon that has closed its end.
Writes(command) ==
  /\ asked' = [asked EXCEPT ![bind] = Append(@, command)]
  /\ UNCHANGED <<bind, local, held, replies, named, daemon>>

\* The cookie is read, and AUTHENTICATE written.
Authenticate ==
  /\ phase = "connected" /\ phase' = "authenticating"
  /\ Writes("AUTHENTICATE")

\* Seeded fault: a failed bind keeps its connection for the next attempt.
KeepsConnection == held' = held

\* The bind future goes, with the listener and the connection it holds.
ClosesConnection == held' = held \ {bind}

Ends ==
  /\ phase' = "none" /\ local' = local \ {bind}
  /\ ClosesConnection
  /\ UNCHANGED <<bind, asked, named, daemon>>

\* The future fails with an I/O error (of the control port, of the cookie file), or
\* its caller drops it.
BindAborts ==
  /\ phase \in Handshake
  /\ Ends
  /\ UNCHANGED replies

\* read_reply_line finds the connection closed by the daemon.
ReadsEnd ==
  /\ phase \in {"authenticating", "adding"} /\ replies = <<>> /\ bind \notin serving
  /\ Ends
  /\ UNCHANGED replies

\* read_reply_line finds a line.
ReadsLine ==
  /\ replies # <<>>
  /\ replies' = Tail(replies)

\* expect_ok: one line, "250" or "250 ..."; a continuation is a desync.
Authenticated ==
  /\ phase = "authenticating" /\ ReadsLine
  /\ \/ /\ Head(replies) \in {"ok", "fin"}
        /\ phase' = "authenticated"
        /\ UNCHANGED <<bind, local, held, asked, named, daemon>>
     \/ Head(replies) \notin {"ok", "fin"} /\ Ends

\* ADD_ONION is written.
AddOnion ==
  /\ phase = "authenticated" /\ phase' = "adding"
  /\ Writes("ADD_ONION")

\* Seeded fault: any 250 line but "250 OK" is a continuation.
EveryLine250(line) == line \in {"id", "more", "fin"}

\* Lines after which the loop of create_onion reads another.
Continues(line) == line \in {"id", "more"}

\* Seeded fault: a reply without a ServiceID will do.
AnyNamed == TRUE

HasName == named

\* One turn of the loop: the final "250 OK" ends it, with the listener if a
\* ServiceID came before; any other final line is an error.
ReadsAdded ==
  /\ phase = "adding" /\ ReadsLine
  /\ \/ /\ Continues(Head(replies))
        /\ named' = (named \/ Head(replies) = "id")
        /\ UNCHANGED <<bind, phase, local, held, asked, daemon>>
     \/ /\ ~Continues(Head(replies)) /\ Head(replies) = "ok" /\ HasName
        /\ phase' = "listening"
        /\ UNCHANGED <<bind, local, held, asked, named, daemon>>
     \/ /\ ~Continues(Head(replies)) /\ ~(Head(replies) = "ok" /\ HasName)
        /\ Ends

\* Drop of TorListener, field by field: the local listener, then the service.
DropLocal ==
  /\ phase = "listening"
  /\ phase' = "dropping" /\ local' = local \ {bind}
  /\ UNCHANGED <<bind, held, asked, replies, named, daemon>>

DropService ==
  /\ phase = "dropping"
  /\ Ends
  /\ UNCHANGED replies

(***************************************************************************)
(* The daemon.                                                             *)
(***************************************************************************)
\* It reads the next command it was sent, even of a caller that has gone.
Answers(n, command, reply) ==
  /\ n \in serving /\ asked[n] # <<>> /\ Head(asked[n]) = command
  /\ asked' = [asked EXCEPT ![n] = Tail(@)]
  /\ replies' = IF n = bind /\ n \in held THEN replies \o reply ELSE replies
  /\ UNCHANGED <<bind, phase, local, held, serving, named>>

AnswersAuth(n) ==
  \/ /\ \E reply \in {<<"ok">>, <<"fin">>, <<"more", "ok">>} : Answers(n, "AUTHENTICATE", reply)
     /\ trusted' = trusted \cup {n} /\ UNCHANGED published
  \/ /\ Answers(n, "AUTHENTICATE", <<"err">>)
     /\ UNCHANGED <<trusted, published>>

\* The service is up before its reply is sent; an error publishes nothing.
AnswersAdd(n) ==
  \/ /\ n \in trusted
     /\ \E reply \in {<<"id", "ok">>, <<"id", "more", "ok">>} : Answers(n, "ADD_ONION", reply)
     /\ published' = published \cup {n} /\ UNCHANGED trusted
  \/ /\ \E reply \in {<<"err">>, <<"fin">>, <<"more", "err">>, <<"ok">>} :
          Answers(n, "ADD_ONION", reply)
     /\ UNCHANGED <<trusted, published>>

\* Seeded fault: the service is asked to outlive its connection.
DetachedFlags == {"DiscardPK", "Detach"}

\* The flags of ADD_ONION.
Flags == {"DiscardPK"}

\* The daemon closes a connection, because we did, or it restarts; a service that
\* was not detached goes with it.  A reply may be cut after any of its lines.
DaemonCloses(n) ==
  /\ n \in serving
  /\ serving' = serving \ {n}
  /\ published' = IF "Detach" \in Flags THEN published ELSE published \ {n}
  /\ \E k \in 0 .. Len(replies) :
        replies' = IF n = bind THEN SubSeq(replies, 1, k) ELSE replies
  /\ UNCHANGED <<bind, phase, local, held, asked, named, trusted>>

Next ==
  \/ Bind \/ Connect \/ Authenticate \/ Authenticated \/ AddOnion \/ ReadsAdded
  \/ BindAborts \/ ReadsEnd
  \/ DropLocal \/ DropService
  \/ \E n \in Binds : AnswersAuth(n) \/ AnswersAdd(n) \/ DaemonCloses(n)

Spec == Init /\ [][Next]_vars

\* A caller polls its bind, whose small writes the socket takes, and a drop runs to
\* its end; the daemon notices that a connection was closed.  Nothing makes it
\* take a connection or answer a command.
Fairness ==
  /\ WF_vars(Authenticate) /\ WF_vars(Authenticated)
  /\ WF_vars(AddOnion) /\ WF_vars(ReadsAdded) /\ WF_vars(ReadsEnd)
  /\ WF_vars(DropService)
  /\ \A n \in Binds : WF_vars(n \notin held /\ DaemonCloses(n))

FairSpec == Spec /\ Fairness

(***************************************************************************)
(* Properties.                                                             *)
(***************************************************************************)
\* Every variable keeps its type, a service runs on a connection the daemon
\* holds, and one command at most awaits its answer.
TypeOK ==
  /\ bind \in 0 .. MaxBinds /\ phase \in Handshake \cup {"none", "listening", "dropping"}
  /\ local \subseteq Binds /\ held \subseteq Binds
  /\ serving \subseteq Binds /\ published \subseteq serving
  /\ asked \in [Binds -> Seq({"AUTHENTICATE", "ADD_ONION"})]
  /\ \A n \in Binds : Len(asked[n]) <= 1
  /\ replies \in Seq(Lines)
  /\ trusted \subseteq Binds /\ named \in BOOLEAN

\* The daemon never forwards to a port nobody listens on, but for the moment
\* between our closing and its noticing: the local listener is there before
\* the service is asked for, and goes with it.
PublishedIsServed ==
  \A n \in published : n \in local \/ n \notin held \/ phase = "dropping"

\* bind returns a listener only for a service the daemon has published on its
\* connection, with nothing of the reply left unread.
BoundIsPublished ==
  phase = "listening" => /\ bind \in published \/ bind \notin serving
                         /\ named /\ replies = <<>>

\* We hold the control connection of the current bind and of no other: nothing
\* keeps a service of an earlier bind alive.
OneServiceHeld ==
  held \subseteq {bind} /\ local \subseteq {bind} /\ (phase = "none" => held = {})

\* bind never waits for a line that will not come.  Once the daemon has gone it
\* ends, wherever it was, with whatever lines it still had to read; once the
\* daemon has answered a command, of which it reads no more, bind leaves the
\* reading of that answer: for an error, for the next command, or for good.
BindEnds ==
  /\ (phase \in Handshake \ {"connecting"} /\ bind \notin serving) ~> (phase \notin Handshake)
  /\ \A p \in {"authenticating", "adding"} :
        (phase = p /\ asked[bind] = <<>>) ~> (phase # p)

\* A bind that failed or was dropped, and a dropped listener, leave no service.
StrayServicesGo == \A n \in Binds :
  (n \in published /\ n \notin held) ~> (n \notin published)

\* "lives exactly as long as this listener" (doc of TorListener).
ServiceLivesWithListener == phase = "listening" => bind \in published
=============================================================================
