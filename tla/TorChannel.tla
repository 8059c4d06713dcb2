----------------------------- MODULE TorChannel -----------------------------
(***************************************************************************)
(* The channel of the tor-daemon backend (fungi-transport-socks5h): what   *)
(* TorConnector::connect and TorListener::accept return.  An accepted      *)
(* socket carries frames from its first byte.  A dialled one carries the   *)
(* proxy's half of a SOCKS5 handshake first (socks5.rs), and the frames of *)
(* the peer right behind it on the same stream: the handshake must take    *)
(* exactly the bytes that are its own.                                     *)
(*                                                                         *)
(* This is the end that dials or accepts, receiving; what it sends is not  *)
(* shown.  The proxy (external) answers what it likes, stops or waits.     *)
(***************************************************************************)
EXTENDS FramedChannel

CONSTANTS
  V4Len, V6Len,  \* bytes of an address in the proxy's reply: 4 and 16 in the code
  NameLens,      \* lengths of the names a proxy answers with
  Codes,         \* reply codes the proxy answers with
  Others         \* bound: a version and an address type that are wrong

ASSUME SocksAssumption ==
  /\ V4Len \in Nat /\ V6Len \in Nat /\ {0, 1, 3, 4, 5} \subseteq Byte
  /\ NameLens \subseteq Byte /\ Codes \subseteq Byte
  /\ Others \subseteq Byte \ {0, 1, 3, 4, 5}

VARIABLES
  dial,     \* where socks5::connect is, and what it returned
  got,      \* the filled part of the buffer of read_exact
  want,     \* the length of that buffer
  asked,    \* the proxy owes an answer
  script,   \* bytes of its answer the proxy has not written yet
  tunnel    \* the proxy forwards the peer's bytes

socks   == <<dial, got, want, asked, script, tunnel>>
torVars == <<vars, socks>>

Reading == {"chosen", "head", "length", "bound"}

TorInit ==
  /\ Init
  /\ dial \in {"calling", "connected"}
  /\ got = <<>> /\ want = 0 /\ asked = FALSE /\ script = <<>>
  /\ tunnel = (dial = "connected")

(***************************************************************************)
(* The client: socks5::connect.                                            *)
(***************************************************************************)
\* read_exact of n bytes begins; asking says that a request was written before.
Await(step, n, asking) ==
  /\ dial' = step /\ want' = n /\ got' = <<>> /\ asked' = asking

Answer(result) ==
  /\ dial' = result /\ want' = 0 /\ got' = <<>>
  /\ UNCHANGED asked

\* The socket is open and the greeting written.
Greet ==
  /\ dial = "calling"
  /\ Await("chosen", 2, TRUE)
  /\ UNCHANGED <<vars, script, tunnel>>

\* The host is longer than 255 bytes, the proxy cannot be reached, a write or a
\* read fails, or the future is dropped.
DialFails ==
  /\ dial \in {"calling"} \cup Reading
  /\ Answer("failed")
  /\ UNCHANGED <<vars, script, tunnel>>

\* Only version 5 without authentication will do; then the request is written.
Chosen(bytes) ==
  IF bytes = <<5, 0>> THEN Await("head", 4, TRUE) ELSE Answer("failed")

\* Seeded fault: every bound address is taken for the longest.
AlwaysV6(atyp) == Await("bound", V6Len + 2, asked)

\* The bound address and a port of two bytes follow.
BoundAddress(atyp) ==
  CASE atyp = 1 -> Await("bound", V4Len + 2, asked)
    [] atyp = 4 -> Await("bound", V6Len + 2, asked)
    [] atyp = 3 -> Await("length", 1, asked)
    [] OTHER    -> Answer("failed")

Head4(bytes) ==
  IF bytes[1] # 5 THEN Answer("failed")
  ELSE CASE bytes[2] = 0        -> BoundAddress(bytes[4])
         [] bytes[2] \in 3 .. 5 -> Answer("unreachable")
         [] OTHER               -> Answer("failed")

\* Seeded fault: the port behind the name is forgotten.
NameOnly(bytes) == Await("bound", bytes[1], asked)

NameLength(bytes) == Await("bound", bytes[1] + 2, asked)

\* A read of read_exact, and what follows when the buffer is full.
ReadReply(n) ==
  LET bytes == got \o SubSeq(pipe, 1, n)
  IN  /\ dial \in Reading /\ n \in 1 .. want - Len(got) /\ n <= Len(pipe)
      /\ pipe' = SubSeq(pipe, n + 1, Len(pipe))
      /\ \/ /\ Len(bytes) < want
            /\ got' = bytes
            /\ UNCHANGED <<dial, want, asked>>
         \/ /\ Len(bytes) = want
            /\ \/ dial = "chosen" /\ Chosen(bytes)
               \/ dial = "head" /\ Head4(bytes)
               \/ dial = "length" /\ NameLength(bytes)
               \/ dial = "bound" /\ Answer("connected")
      /\ UNCHANGED <<sender, receiver, script, tunnel>>

\* The end of the stream in read_exact: UnexpectedEof.
ReplyEnds ==
  /\ dial \in Reading /\ closed /\ pipe = <<>>
  /\ Answer("failed")
  /\ UNCHANGED <<vars, script, tunnel>>

(***************************************************************************)
(* The proxy.                                                              *)
(***************************************************************************)
\* An unspecified address and port, as proxies give them.
Fill(n) == [i \in 1 .. n |-> 0]

MethodReplies == {<<5, 0>>} \cup {<<5, x>> : x \in Others} \cup {<<x, 0>> : x \in Others}

Bound == {<<1>> \o Fill(V4Len + 2), <<4>> \o Fill(V6Len + 2)}
           \cup {<<3, l>> \o Fill(l + 2) : l \in NameLens}

Granted == {<<5, 0, 0>> \o b : b \in Bound}

Replies == Granted
  \cup {<<5, c, 0>> \o Fill(V4Len + 3) : c \in Codes \ {0}}
  \cup {<<x, 0, 0>> \o Fill(V4Len + 3) : x \in Others}
  \cup {<<5, 0, 0, x>> : x \in Others}

ProxyAnswers ==
  /\ asked /\ ~closed /\ asked' = FALSE
  /\ script' \in IF dial = "chosen" THEN MethodReplies ELSE Replies
  /\ tunnel' = (script' \in Granted)
  /\ UNCHANGED <<vars, dial, got, want>>

ProxyWrites(n) ==
  /\ n \in 1 .. Len(script) /\ Len(pipe) + n <= PipeCap /\ ~closed
  /\ pipe' = pipe \o SubSeq(script, 1, n)
  /\ script' = SubSeq(script, n + 1, Len(script))
  /\ UNCHANGED <<sender, receiver, dial, got, want, asked, tunnel>>

\* The proxy goes away before it has opened the tunnel.
ProxyCloses ==
  /\ ~closed /\ dial # "calling" /\ (~tunnel \/ script # <<>>)
  /\ closed' = TRUE /\ script' = <<>>
  /\ UNCHANGED <<sends, sending, sent, torn, late, pipe, receiver, dial, got, want, asked, tunnel>>

(***************************************************************************)
(* The tunnel.                                                             *)
(***************************************************************************)
PeerStep == tunnel /\ script = <<>> /\ SenderNext /\ UNCHANGED socks

Framed == dial = "connected" /\ UNCHANGED socks

TorNext ==
  \/ Greet \/ DialFails \/ ReplyEnds \/ ProxyAnswers \/ ProxyCloses
  \/ \E n \in 1 .. PipeCap : ReadReply(n) \/ ProxyWrites(n)
  \/ PeerStep
  \/ Framed /\ ReceiverNext

TorSpec == TorInit /\ [][TorNext]_torVars

(***************************************************************************)
(* Fairness.  The dialler polls its future, which reads what the stream    *)
(* holds.  The receiving application keeps calling recv and polls each     *)
(* future it creates at least once; it may drop futures for ever, hence    *)
(* strong fairness.  The proxy writes out an answer it has begun.          *)
(***************************************************************************)
Fairness ==
  /\ WF_torVars((\E n \in 1 .. PipeCap : ReadReply(n)) \/ ReplyEnds)
  /\ WF_torVars(\E n \in 1 .. PipeCap : ProxyWrites(n))
  /\ WF_torVars(Framed /\ Recv)
  /\ SF_torVars(Framed /\ Read) /\ SF_torVars(Framed /\ ReadEnd)

FairSpec == TorSpec /\ Fairness

(***************************************************************************)
(* Properties.                                                             *)
(***************************************************************************)
\* The dialler waits for bytes the proxy still owes it, never for others: once the
\* proxy has answered in full or has gone, connect resolves, whatever kind of
\* address the reply holds and though the peer sends nothing.
DialEnds == (dial \in Reading /\ ~asked) ~> (dial \notin Reading \/ asked)

\* Every whole frame reaches an application that keeps calling recv on a channel
\* it was given, or the receiver has refused the stream or it was reset.
FramesArrive == \A k \in 1 .. MaxSends :
  (dial = "connected" /\ Len(sent) >= k) ~> (Len(received) >= k \/ poisoned \/ reset)

\* An application that keeps calling recv learns that the stream has ended.
EndIsSeen == (dial = "connected" /\ closed) ~> sawClosed
=============================================================================
