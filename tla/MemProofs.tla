----------------------------- MODULE MemProofs ------------------------------
(***************************************************************************)
(* The in-memory channels and their network, for any number of channels,   *)
(* any capacity and any number of sends.                                   *)
(*                                                                         *)
(* The argument follows the line of a direction: what its receiver has     *)
(* got, then what is queued.  A send that succeeds adds its number at the  *)
(* end, recv moves the boundary without changing the line, and a receiver  *)
(* that goes cuts the queued part off.  So the line is increasing, and     *)
(* holds every successful send until the receiver goes (Fifo); and, since  *)
(* a number occurs once in it, taking the head of the queue takes that     *)
(* message out of flight, which is what the contract of channel.rs asks.   *)
(***************************************************************************)
EXTENDS MemNetwork, SequenceTheorems, TLAPS

\* The elements of a sequence; the sends with the outcomes in question.
ElemsOf(q) == {q[i] : i \in 1 .. Len(q)}
Took(o)    == {n \in 1 .. Len(o) : o[n] \in Accepted}
Sent(o)    == {n \in 1 .. Len(o) : o[n] = "sent"}
\* Each once, in the order of their sends.
Increasing(q) == \A i, j \in 1 .. Len(q) : i < j => q[i] < q[j]

\* The line of a direction: increasing, of sends that succeeded, and all of them
\* as long as the receiver is there.
LineInv(e) ==
  /\ Increasing(Line(e))
  /\ ElemsOf(Line(e)) \subseteq Sent(outcome[e])
  /\ ~PeerGone(e) => Sent(outcome[e]) \subseteq ElemsOf(Line(e))

\* Where an end is and what may be left of its direction.
EndInv(e) ==
  /\ PeerGone(e) => queue[e] = <<>>
  /\ sawClosed[Peer[e]] => queue[e] = <<>> /\ state[e] = "gone"
  /\ fut[e] # "none" => state[e] = "alive"
  /\ Len(outcome[e]) <= MaxSends[e]
  /\ fut[e] \in {"sleeping", "waiting"} => Len(outcome[e]) < MaxSends[e]

\* The inductive invariant.
MemInv == TypeOK /\ \A e \in Ends : LineInv(e) /\ EndInv(e)

(***************************************************************************)
(* Sequences.                                                              *)
(***************************************************************************)
\* Adding a number that is above all others at the end.
LEMMA AppendFacts ==
  ASSUME NEW q \in Seq(Nat), NEW m \in Nat
  PROVE  /\ ElemsOf(Append(q, m)) = ElemsOf(q) \cup {m}
         /\ Increasing(q) /\ (\A n \in ElemsOf(q) : n < m) => Increasing(Append(q, m))
<1> DEFINE s == Append(q, m)
<1>1. /\ s \in Seq(Nat) /\ Len(s) = Len(q) + 1 /\ Len(q) \in Nat
      /\ s[Len(q) + 1] = m /\ \A i \in 1 .. Len(q) : s[i] = q[i]
  OBVIOUS
<1> HIDE DEF s
<1>0. \A i : i \in 1 .. Len(s) <=> i \in 1 .. Len(q) \/ i = Len(q) + 1
  BY <1>1
<1>2. ElemsOf(s) = ElemsOf(q) \cup {m}
  <2>1. \A i \in 1 .. Len(s) : s[i] \in ElemsOf(q) \cup {m}
    BY <1>0, <1>1 DEF ElemsOf
  <2>2. \A n \in ElemsOf(q) \cup {m} : \E i \in 1 .. Len(s) : s[i] = n
    BY <1>0, <1>1 DEF ElemsOf
  <2> QED
    BY <2>1, <2>2 DEF ElemsOf
<1>3. ASSUME Increasing(q), \A n \in ElemsOf(q) : n < m PROVE Increasing(s)
  <2> SUFFICES ASSUME NEW i \in 1 .. Len(s), NEW j \in 1 .. Len(s), i < j PROVE s[i] < s[j]
    BY DEF Increasing
  <2>1. i \in 1 .. Len(q) /\ s[i] = q[i]
    BY <1>0, <1>1, SMTT(30)
  <2>2. CASE j \in 1 .. Len(q)
    BY <2>1, <2>2, <1>1, <1>3 DEF Increasing
  <2>3. CASE j = Len(q) + 1
    BY <2>1, <2>3, <1>1, <1>3 DEF ElemsOf
  <2> QED
    BY <1>0, <2>2, <2>3
<1> QED
  BY <1>2, <1>3 DEF s

\* A send appended to the line, as it joins the queue.
LEMMA PushLine ==
  ASSUME NEW r \in Seq(Nat), NEW q \in Seq(Nat), NEW m \in Nat
  PROVE  r \o Append(q, m) = Append(r \o q, m)
<1>1. /\ r \o Append(q, m) \in Seq(Nat) /\ Append(r \o q, m) \in Seq(Nat)
      /\ Len(r \o Append(q, m)) = Len(Append(r \o q, m))
  OBVIOUS
<1>2. \A i \in 1 .. Len(Append(r \o q, m)) : (r \o Append(q, m))[i] = Append(r \o q, m)[i]
  OBVIOUS
<1> QED
  BY <1>1, <1>2, SeqEqual

\* The head of the queue moves to the received part.
LEMMA MoveLine ==
  ASSUME NEW r \in Seq(Nat), NEW q \in Seq(Nat), q # <<>>
  PROVE  Append(r, Head(q)) \o Tail(q) = r \o q
<1>1. Head(q) \in Nat /\ Tail(q) \in Seq(Nat) /\ Len(q) \in Nat \ {0} /\ Len(r) \in Nat
      /\ Len(Tail(q)) = Len(q) - 1 /\ \A i \in 1 .. Len(q) - 1 : Tail(q)[i] = q[i + 1]
  OBVIOUS
<1>2. /\ Append(r, Head(q)) \o Tail(q) \in Seq(Nat) /\ r \o q \in Seq(Nat)
      /\ Len(Append(r, Head(q)) \o Tail(q)) = Len(r \o q)
  BY <1>1
<1>3. ASSUME NEW i \in 1 .. Len(r \o q)
      PROVE  (Append(r, Head(q)) \o Tail(q))[i] = (r \o q)[i]
  <2>1. CASE i <= Len(r)
    BY <2>1, <1>1
  <2>2. CASE i = Len(r) + 1
    BY <2>2, <1>1
  <2>3. CASE i > Len(r) + 1
    BY <2>3, <1>1
  <2> QED
    BY <2>1, <2>2, <2>3, <1>1
<1> QED
  BY <1>2, <1>3, SeqEqual

\* What an increasing queue holds once its head is gone.
LEMMA TailFacts ==
  ASSUME NEW q \in Seq(Nat), q # <<>>, Increasing(q)
  PROVE  ElemsOf(Tail(q)) = ElemsOf(q) \ {Head(q)}
<1>1. /\ Len(q) \in Nat \ {0} /\ Tail(q) \in Seq(Nat) /\ Len(Tail(q)) = Len(q) - 1
      /\ Head(q) = q[1] /\ \A i \in 1 .. Len(q) - 1 : Tail(q)[i] = q[i + 1]
      /\ \A i \in 1 .. Len(q) : q[i] \in Nat
  OBVIOUS
<1>2. \A i \in 1 .. Len(q) - 1 : Tail(q)[i] \in ElemsOf(q) \ {Head(q)}
  BY <1>1 DEF ElemsOf, Increasing
<1>3. ASSUME NEW i \in 1 .. Len(q), q[i] # Head(q) PROVE q[i] \in ElemsOf(Tail(q))
  <2>1. i - 1 \in 1 .. Len(q) - 1 /\ Tail(q)[i - 1] = q[(i - 1) + 1] /\ (i - 1) + 1 = i
    BY <1>1, <1>3
  <2> QED
    BY <2>1, <1>1 DEF ElemsOf
<1>4. \A n \in ElemsOf(Tail(q)) : n \in ElemsOf(q) \ {Head(q)}
  BY <1>1, <1>2 DEF ElemsOf
<1>5. \A n \in ElemsOf(q) \ {Head(q)} : n \in ElemsOf(Tail(q))
  BY <1>3 DEF ElemsOf
<1> QED
  BY <1>4, <1>5

\* The parts of an increasing line.
LEMMA PartFacts ==
  ASSUME NEW r \in Seq(Nat), NEW q \in Seq(Nat)
  PROVE  /\ Increasing(r \o q) => Increasing(r) /\ Increasing(q)
         /\ ElemsOf(r \o q) = ElemsOf(r) \cup ElemsOf(q)
<1> DEFINE s == r \o q
<1>1. /\ Len(s) = Len(r) + Len(q) /\ Len(r) \in Nat /\ Len(q) \in Nat
      /\ \A i \in 1 .. Len(r) : s[i] = r[i]
      /\ \A i \in 1 .. Len(q) : s[i + Len(r)] = q[i]
      /\ \A i \in 1 .. Len(s) : s[i] \in Nat
  OBVIOUS
<1> HIDE DEF s
<1>2. Increasing(s) => Increasing(r)
  BY <1>1 DEF Increasing
<1>3. ASSUME Increasing(s) PROVE Increasing(q)
  <2> SUFFICES ASSUME NEW i \in 1 .. Len(q), NEW j \in 1 .. Len(q), i < j PROVE q[i] < q[j]
    BY DEF Increasing
  <2>1. i + Len(r) \in 1 .. Len(s) /\ j + Len(r) \in 1 .. Len(s) /\ i + Len(r) < j + Len(r)
    BY <1>1
  <2> QED
    BY <2>1, <1>1, <1>3 DEF Increasing
<1>4. ASSUME NEW i \in 1 .. Len(s) PROVE s[i] \in ElemsOf(r) \cup ElemsOf(q)
  <2>1. CASE i <= Len(r)
    BY <2>1, <1>1 DEF ElemsOf
  <2>2. CASE i > Len(r)
    <3>1. i - Len(r) \in 1 .. Len(q) /\ (i - Len(r)) + Len(r) = i
      BY <2>2, <1>1
    <3> QED
      BY <3>1, <1>1 DEF ElemsOf
  <2> QED
    BY <2>1, <2>2, <1>1
<1>5. \A i \in 1 .. Len(r) : r[i] \in ElemsOf(s)
  BY <1>1 DEF ElemsOf
<1>6. ASSUME NEW i \in 1 .. Len(q) PROVE q[i] \in ElemsOf(s)
  <2>1. i + Len(r) \in 1 .. Len(s)
    BY <1>1
  <2> QED
    BY <2>1, <1>1 DEF ElemsOf
<1> QED
  BY <1>2, <1>3, <1>4, <1>5, <1>6 DEF ElemsOf, s

\* One more outcome.
LEMMA OutcomeFacts ==
  ASSUME NEW o \in Seq(Outcomes), NEW r \in Outcomes
  PROVE  /\ Append(o, r) \in Seq(Outcomes) /\ Len(Append(o, r)) = Len(o) + 1
         /\ Took(Append(o, r)) = IF r \in Accepted THEN Took(o) \cup {Len(o) + 1} ELSE Took(o)
         /\ Sent(Append(o, r)) = IF r = "sent" THEN Sent(o) \cup {Len(o) + 1} ELSE Sent(o)
         /\ \A n \in Took(o) \cup Sent(o) : n \in 1 .. Len(o)
<1> DEFINE s == Append(o, r)
<1>1. /\ s \in Seq(Outcomes) /\ Len(s) = Len(o) + 1 /\ Len(o) \in Nat
      /\ s[Len(o) + 1] = r /\ \A i \in 1 .. Len(o) : s[i] = o[i]
  OBVIOUS
<1> HIDE DEF s
<1>2. 1 .. Len(s) = (1 .. Len(o)) \cup {Len(o) + 1} /\ Len(o) + 1 \notin 1 .. Len(o)
  BY <1>1
<1>3. Took(s) = IF r \in Accepted THEN Took(o) \cup {Len(o) + 1} ELSE Took(o)
  BY <1>1, <1>2 DEF Took
<1>4. Sent(s) = IF r = "sent" THEN Sent(o) \cup {Len(o) + 1} ELSE Sent(o)
  BY <1>1, <1>2 DEF Sent
<1>5. \A n \in Took(o) \cup Sent(o) : n \in 1 .. Len(o)
  BY DEF Took, Sent
<1> QED
  BY <1>1, <1>3, <1>4, <1>5 DEF s

(***************************************************************************)
(* What a step does to a direction.                                        *)
(***************************************************************************)
SameReceiver(e) ==
  /\ received'[Peer[e]] = received[Peer[e]] /\ sawClosed'[Peer[e]] = sawClosed[Peer[e]]
  /\ PeerGone(e)' <=> PeerGone(e)

\* Nothing.
Keeps(e) == SameReceiver(e) /\ outcome'[e] = outcome[e] /\ queue'[e] = queue[e]

\* A send ends without its message in the queue.
Settles(e) == \E r \in {"nothing", "lost"} :
  SameReceiver(e) /\ outcome'[e] = Append(outcome[e], r) /\ queue'[e] = queue[e]

\* A send ends with it there.
Pushes(e) ==
  /\ SameReceiver(e) /\ ~PeerGone(e) /\ state[e] = "alive"
  /\ outcome'[e] = Append(outcome[e], "sent")
  /\ queue'[e] = Append(queue[e], Len(outcome[e]) + 1)

\* recv takes the head.
Hands(e) ==
  /\ queue[e] # <<>> /\ queue'[e] = Tail(queue[e])
  /\ received'[Peer[e]] = Append(received[Peer[e]], Head(queue[e]))
  /\ outcome'[e] = outcome[e] /\ sawClosed'[Peer[e]] = sawClosed[Peer[e]]
  /\ PeerGone(e)' <=> PeerGone(e)

\* recv answers Closed.
Closes(e) ==
  /\ state[e] = "gone" /\ queue[e] = <<>> /\ queue'[e] = <<>> /\ outcome'[e] = outcome[e]
  /\ received'[Peer[e]] = received[Peer[e]] /\ sawClosed'[Peer[e]] = TRUE
  /\ PeerGone(e)' <=> PeerGone(e)

\* The receiving end goes.
Cuts(e) ==
  /\ queue'[e] = <<>> /\ PeerGone(e)' /\ outcome'[e] = outcome[e]
  /\ received'[Peer[e]] = received[Peer[e]] /\ sawClosed'[Peer[e]] = sawClosed[Peer[e]]

\* One of these.
Effect(e) ==
  \/ Keeps(e)
  \/ Len(outcome[e]) < MaxSends[e] /\ (Settles(e) \/ Pushes(e))
  \/ Hands(e) \/ Closes(e) \/ Cuts(e)

\* The ways a send of end a may go on (send of mem.rs).
SendMoves(a) ==
  /\ state[a] = "alive" /\ Len(outcome[a]) < MaxSends[a]
  /\ UNCHANGED <<mode, state, received, sawClosed>>
  /\ dropNext' \in [Ends -> Nat] /\ failNext' \in [Ends -> Nat]
  /\ \/ \E r \in {"nothing", "lost"} : Settle(a, r) /\ UNCHANGED queue
     \/ ~PeerGone(a) /\ HasRoom(a) /\ Push(a)
     \/ /\ \E f \in {"sleeping", "waiting"} : fut' = [fut EXCEPT ![a] = f]
        /\ UNCHANGED <<queue, outcome>>

\* The actions of a send move it on in one of those ways.
LEMMA SendCases ==
  ASSUME MemInv, NEW a \in Ends,
         \/ \E tooLarge \in BOOLEAN : Send(a, tooLarge)
         \/ Awake(a) \/ Resume(a) \/ TimeOut(a) \/ CancelSend(a)
  PROVE  SendMoves(a)
<1> USE DEF MemInv, TypeOK
<1>1. ASSUME NEW tooLarge \in BOOLEAN, Send(a, tooLarge) PROVE SendMoves(a)
  <2>1. /\ state[a] = "alive" /\ Len(outcome[a]) < MaxSends[a]
        /\ UNCHANGED <<mode, state, queue, received, sawClosed, dropNext>>
    BY <1>1 DEF Send, Free
  <2>2. failNext' \in [Ends -> Nat]
    <3>1. \/ failNext' = failNext
          \/ failNext[a] > 0 /\ failNext' = [failNext EXCEPT ![a] = @ - 1]
      BY <1>1, SMT DEF Send
    <3> QED
      BY <3>1
  <2>3. \/ Settle(a, "nothing")
        \/ fut' = [fut EXCEPT ![a] = "sleeping"] /\ UNCHANGED <<outcome, failNext>>
    BY <1>1, Zenon DEF Send
  <2> QED
    BY <2>1, <2>2, <2>3 DEF SendMoves
<1>2. CASE Awake(a)
  <2>1. fut[a] = "sleeping" /\ UNCHANGED <<mode, state, received, sawClosed, failNext>>
    BY <1>2 DEF Awake
  <2>2. state[a] = "alive" /\ Len(outcome[a]) < MaxSends[a]
    BY <2>1 DEF EndInv
  <2>3. dropNext' \in [Ends -> Nat]
    BY <1>2 DEF Awake
  <2>4. \/ Settle(a, "lost") /\ UNCHANGED queue
        \/ SendBestEffort(a) \/ SendConfirmed(a)
    BY <1>2 DEF Awake
  <2> QED
    BY <2>1, <2>2, <2>3, <2>4 DEF SendMoves, SendBestEffort, SendConfirmed
<1>3. CASE Resume(a)
  <2>1. fut[a] = "waiting" /\ UNCHANGED <<mode, state, received, sawClosed, faults>>
    BY <1>3 DEF Resume
  <2>2. state[a] = "alive" /\ Len(outcome[a]) < MaxSends[a]
    BY <2>1 DEF EndInv
  <2> QED
    BY <1>3, <2>1, <2>2 DEF SendMoves, Resume, faults
<1>4. CASE TimeOut(a)
  <2>1. state[a] = "alive" /\ Len(outcome[a]) < MaxSends[a]
    BY <1>4 DEF EndInv, TimeOut
  <2> QED
    BY <1>4, <2>1 DEF SendMoves, TimeOut, Expired, faults
<1>5. CASE CancelSend(a)
  <2>1. state[a] = "alive" /\ Len(outcome[a]) < MaxSends[a]
    BY <1>5 DEF EndInv, CancelSend
  <2> QED
    BY <1>5, <2>1 DEF SendMoves, CancelSend, faults
<1> QED
  BY <1>1, <1>2, <1>3, <1>4, <1>5

\* Every step has one of the effects on every direction.
LEMMA SendEffect ==
  ASSUME MemInv, NEW a \in Ends, SendMoves(a), NEW e \in Ends
  PROVE  Effect(e)
<1>1. SameReceiver(e)
  BY DEF SendMoves, SameReceiver, PeerGone
<1>2. CASE e # a
  <2>1. outcome'[e] = outcome[e] /\ queue'[e] = queue[e]
    BY <1>2 DEF SendMoves, Settle, Push, MemInv, TypeOK
  <2> QED
    BY <1>1, <2>1 DEF Effect, Keeps
<1>3. CASE e = a
  <2>1. ASSUME NEW r \in {"nothing", "lost"}, Settle(a, r), UNCHANGED queue PROVE Effect(e)
    <3>1. outcome'[e] = Append(outcome[e], r)
      BY <1>3, <2>1 DEF Settle, MemInv, TypeOK
    <3> QED
      BY <1>1, <1>3, <2>1, <3>1 DEF Effect, Settles, SendMoves
  <2>2. CASE ~PeerGone(a) /\ HasRoom(a) /\ Push(a)
    <3>1. /\ outcome'[e] = Append(outcome[e], "sent")
          /\ queue'[e] = Append(queue[e], Len(outcome[e]) + 1)
      BY <1>3, <2>2 DEF Push, Settle, Message, MemInv, TypeOK
    <3> QED
      BY <1>1, <1>3, <2>2, <3>1 DEF Effect, Pushes, SendMoves
  <2>3. CASE UNCHANGED <<queue, outcome>>
    BY <1>1, <2>3 DEF Effect, Keeps
  <2> QED
    BY <2>1, <2>2, <2>3 DEF SendMoves
<1> QED
  BY <1>2, <1>3

\* What an answer of recv does.
LEMMA RecvEffect ==
  ASSUME MemInv, NEW a \in Ends, RecvMessage(a) \/ RecvClosed(a), NEW e \in Ends
  PROVE  Effect(e)
<1>1. Peer[a] \in Ends /\ Peer[Peer[a]] = a /\ Peer[e] \in Ends /\ Peer[Peer[e]] = e
  BY MemAssumption
<1>2. CASE Peer[e] # a
  <2>1. e # Peer[a]
    BY <1>1, <1>2
  <2>2. Keeps(e)
    BY <1>1, <1>2, <2>1 DEF RecvMessage, RecvClosed, Keeps, SameReceiver, PeerGone, MemInv, TypeOK
  <2> QED
    BY <2>2 DEF Effect
<1>3. CASE Peer[e] = a
  <2>0. e = Peer[a]
    BY <1>1, <1>3
  <2>1. CASE RecvMessage(a)
    <3>1. Hands(e)
      BY <1>3, <2>0, <2>1 DEF RecvMessage, Incoming, Hands, PeerGone, MemInv, TypeOK
    <3> QED
      BY <3>1 DEF Effect
  <2>2. CASE RecvClosed(a)
    <3>1. Closes(e)
      BY <1>3, <2>0, <2>2 DEF RecvClosed, Drained, Incoming, Closes, PeerGone, MemInv, TypeOK
    <3> QED
      BY <3>1 DEF Effect
  <2> QED
    BY <2>1, <2>2
<1> QED
  BY <1>2, <1>3

\* What the drop of ends does.
LEMMA DropEffect ==
  ASSUME MemInv, NEW dropped \in SUBSET Ends, DropEnds(dropped), NEW e \in Ends
  PROVE  Effect(e)
<1>1. Peer[e] \in Ends
  BY MemAssumption
<1>2. CASE Peer[e] \in dropped
  BY <1>1, <1>2 DEF DropEnds, Effect, Cuts, PeerGone
<1>3. CASE Peer[e] \notin dropped
  BY <1>1, <1>3 DEF DropEnds, Effect, Keeps, SameReceiver, PeerGone
<1> QED
  BY <1>2, <1>3

\* What the making of a channel does.
LEMMA DuplexEffect ==
  ASSUME MemInv, NEW a \in Ends, Duplex(a), NEW e \in Ends
  PROVE  Effect(e)
<1>1. Peer[e] \in Ends /\ Peer[a] \in Ends
  BY MemAssumption
<1>2. PeerGone(e)' <=> PeerGone(e)
  BY <1>1 DEF Duplex, PeerGone, MemInv, TypeOK
<1> QED
  BY <1>2 DEF Duplex, wires, Effect, Keeps, SameReceiver

\* Every step.
LEMMA StepEffect ==
  ASSUME MemInv, Next, NEW e \in Ends
  PROVE  Effect(e)
<1>1. ASSUME NEW a \in Ends, Duplex(a) PROVE Effect(e)
  BY <1>1, DuplexEffect
<1>2. ASSUME NEW a \in Ends, Use(a) PROVE Effect(e)
  <2>1. CASE \E n \in 1 .. MaxInject : Inject(a, n)
    BY <2>1 DEF Inject, wires, Effect, Keeps, SameReceiver, PeerGone
  <2>2. CASE Recv(a) \/ CancelRecv(a)
    BY <2>2 DEF Recv, CancelRecv, wires, Effect, Keeps, SameReceiver, PeerGone
  <2>3. CASE RecvMessage(a) \/ RecvClosed(a)
    BY <2>3, RecvEffect
  <2> QED
    BY <1>2, <2>1, <2>2, <2>3, SendCases, SendEffect DEF Use
<1>3. ASSUME NEW dropped \in SUBSET Ends, DropEnds(dropped) PROVE Effect(e)
  BY <1>3, DropEffect
<1> QED
  BY <1>1, <1>2, <1>3 DEF Next

(***************************************************************************)
(* The invariant.                                                          *)
(***************************************************************************)
\* What TypeOK says of one direction, for the sequence lemmas.
LEMMA DirectionTypes ==
  ASSUME MemInv, NEW e \in Ends
  PROVE  /\ Peer[e] \in Ends /\ queue[e] \in Seq(Nat) /\ received[Peer[e]] \in Seq(Nat)
         /\ outcome[e] \in Seq(Outcomes) /\ Line(e) \in Seq(Nat)
         /\ Len(outcome[e]) \in Nat /\ MaxSends[e] \in Nat
<1>1. Peer[e] \in Ends /\ MaxSends[e] \in Nat
  BY MemAssumption
<1>2. queue[e] \in Seq(Nat) /\ received[Peer[e]] \in Seq(Nat) /\ outcome[e] \in Seq(Outcomes)
  BY <1>1 DEF MemInv, TypeOK
<1> QED
  BY <1>1, <1>2 DEF Line

\* The line survives each effect.
LEMMA EffectLine ==
  ASSUME MemInv, NEW e \in Ends, Effect(e)
  PROVE  LineInv(e)'
<1> DEFINE q == queue[e]
           r == received[Peer[e]]
           o == outcome[e]
<1>0. /\ q \in Seq(Nat) /\ r \in Seq(Nat) /\ o \in Seq(Outcomes) /\ Line(e) = r \o q
      /\ Line(e) \in Seq(Nat) /\ Len(o) \in Nat
  BY DirectionTypes DEF Line
<1>1. LineInv(e)
  BY DEF MemInv
<1>2. CASE Keeps(e)
  BY <1>1, <1>2 DEF Keeps, SameReceiver, LineInv, Line
<1>3. CASE Settles(e)
  <2>1. PICK x \in {"nothing", "lost"} : outcome'[e] = Append(o, x)
    BY <1>3 DEF Settles
  <2>2. Sent(outcome'[e]) = Sent(o)
    BY <1>0, <2>1, OutcomeFacts DEF Outcomes, Accepted
  <2> QED
    BY <1>1, <1>3, <2>2 DEF Settles, SameReceiver, LineInv, Line
<1>4. CASE Pushes(e)
  <2> DEFINE m == Len(o) + 1
  <2>0. m \in Nat /\ r \o Append(q, m) = Append(r \o q, m)
    <3>1. m \in Nat
      BY <1>0
    <3> HIDE DEF m, q, r, o
    <3> QED
      BY <1>0, <3>1, PushLine
  <2>1. Line(e)' = Append(Line(e), m)
    BY <1>4, <2>0 DEF Pushes, SameReceiver, Line
  <2>2. Sent(outcome'[e]) = Sent(o) \cup {m} /\ \A n \in Sent(o) : n \in 1 .. Len(o)
    BY <1>0, <1>4, OutcomeFacts DEF Pushes, Outcomes, Accepted
  <2>3. \A n \in ElemsOf(Line(e)) : n < m
    BY <1>0, <1>1, <2>2 DEF LineInv
  <2>4. Increasing(Line(e)') /\ ElemsOf(Line(e)') = ElemsOf(Line(e)) \cup {m}
    <3>1. /\ ElemsOf(Append(Line(e), m)) = ElemsOf(Line(e)) \cup {m}
          /\ Increasing(Append(Line(e), m))
      BY <1>0, <1>1, <2>0, <2>3, AppendFacts DEF LineInv
    <3> QED
      BY <2>1, <3>1
  <2> QED
    BY <1>1, <1>4, <2>2, <2>4 DEF Pushes, LineInv
<1>5. CASE Hands(e)
  <2>1. Line(e)' = Line(e)
    BY <1>0, <1>5, MoveLine DEF Hands, Line
  <2> QED
    BY <1>1, <1>5, <2>1 DEF Hands, LineInv
<1>6. CASE Closes(e)
  BY <1>1, <1>6 DEF Closes, LineInv, Line
<1>7. CASE Cuts(e)
  <2>1. Line(e)' = r
    BY <1>0, <1>7 DEF Cuts, Line
  <2>2. Increasing(r) /\ ElemsOf(r) \subseteq ElemsOf(Line(e))
    BY <1>0, <1>1, PartFacts DEF LineInv
  <2> QED
    BY <1>1, <1>7, <2>1, <2>2 DEF Cuts, LineInv
<1> QED
  BY <1>2, <1>3, <1>4, <1>5, <1>6, <1>7 DEF Effect

\* The types, and the futures and counts of the ends, after a step of a send.
LEMMA SendKeeps ==
  ASSUME MemInv, NEW a \in Ends, SendMoves(a)
  PROVE  /\ TypeOK'
         /\ \A e \in Ends : /\ fut'[e] # "none" => state'[e] = "alive"
                            /\ Len(outcome'[e]) <= MaxSends[e]
                            /\ fut'[e] \in {"sleeping", "waiting"} => Len(outcome'[e]) < MaxSends[e]
<1>1. /\ TypeOK /\ \A e \in Ends : EndInv(e)
      /\ state[a] = "alive" /\ Len(outcome[a]) < MaxSends[a]
      /\ UNCHANGED <<mode, state, received, sawClosed>>
      /\ dropNext' \in [Ends -> Nat] /\ failNext' \in [Ends -> Nat]
  BY DEF MemInv, SendMoves
<1>2. \A e \in Ends : Len(outcome[e]) \in Nat /\ MaxSends[e] \in Nat
  BY DirectionTypes
<1>3. ASSUME NEW r \in Outcomes, Settle(a, r)
      PROVE  /\ fut' \in [Ends -> Futures] /\ outcome' \in [Ends -> Seq(Outcomes)]
             /\ \A e \in Ends : /\ fut'[e] # "none" => state'[e] = "alive"
                                /\ Len(outcome'[e]) <= MaxSends[e]
                                /\ fut'[e] \in {"sleeping", "waiting"} => Len(outcome'[e]) < MaxSends[e]
  <2>1. /\ outcome' = [outcome EXCEPT ![a] = Append(outcome[a], r)]
        /\ fut' = [fut EXCEPT ![a] = "none"]
    BY <1>3 DEF Settle
  <2>2. Append(outcome[a], r) \in Seq(Outcomes) /\ Len(Append(outcome[a], r)) = Len(outcome[a]) + 1
    BY <1>1, OutcomeFacts DEF TypeOK
  <2>3. fut' \in [Ends -> Futures] /\ outcome' \in [Ends -> Seq(Outcomes)]
    BY <1>1, <2>1, <2>2 DEF TypeOK, Futures
  <2>4. ASSUME NEW e \in Ends
        PROVE  /\ fut'[e] # "none" => state'[e] = "alive"
               /\ Len(outcome'[e]) <= MaxSends[e]
               /\ fut'[e] \in {"sleeping", "waiting"} => Len(outcome'[e]) < MaxSends[e]
    <3>1. CASE e = a
      BY <1>1, <1>2, <2>1, <2>2, <3>1 DEF TypeOK
    <3>2. CASE e # a
      BY <1>1, <2>1, <3>2 DEF TypeOK, EndInv
    <3> QED
      BY <3>1, <3>2
  <2> QED
    BY <2>3, <2>4
<1>4. ASSUME NEW r \in {"nothing", "lost"}, Settle(a, r), UNCHANGED queue PROVE TypeOK'
  BY <1>1, <1>3, <1>4 DEF TypeOK, Outcomes, Accepted
<1>5. CASE HasRoom(a) /\ Push(a)
  <2>1. /\ queue' = [queue EXCEPT ![a] = Append(queue[a], Len(outcome[a]) + 1)]
        /\ Settle(a, "sent") /\ Len(queue[a]) < Capacity
    BY <1>5 DEF HasRoom, Push, Message
  <2>2. /\ Append(queue[a], Len(outcome[a]) + 1) \in Seq(Nat)
        /\ Len(Append(queue[a], Len(outcome[a]) + 1)) <= Capacity
    BY <1>1, <1>2, <2>1, MemAssumption, SMTT(30) DEF TypeOK
  <2>3. queue' \in [Ends -> Seq(Nat)] /\ \A e \in Ends : Len(queue'[e]) <= Capacity
    BY <1>1, <2>1, <2>2 DEF TypeOK
  <2> QED
    BY <1>1, <1>3, <2>1, <2>3 DEF TypeOK, Outcomes, Accepted
<1>6. ASSUME NEW f \in {"sleeping", "waiting"}, fut' = [fut EXCEPT ![a] = f],
             UNCHANGED <<queue, outcome>>
      PROVE  /\ TypeOK'
             /\ \A e \in Ends : /\ fut'[e] # "none" => state'[e] = "alive"
                                /\ Len(outcome'[e]) <= MaxSends[e]
                                /\ fut'[e] \in {"sleeping", "waiting"} => Len(outcome'[e]) < MaxSends[e]
  BY <1>1, <1>6 DEF TypeOK, Futures, EndInv
<1>7. CASE \E r \in {"nothing", "lost"} : Settle(a, r) /\ UNCHANGED queue
  BY <1>3, <1>4, <1>7 DEF Outcomes, Accepted
<1>8. CASE HasRoom(a) /\ Push(a)
  BY <1>3, <1>5, <1>8 DEF Push, Outcomes, Accepted
<1> QED
  BY <1>6, <1>7, <1>8 DEF SendMoves

\* Likewise for every other step.
LEMMA OthersKeep ==
  ASSUME MemInv,
         \/ \E a \in Ends : Duplex(a) \/ Recv(a) \/ RecvMessage(a) \/ RecvClosed(a) \/ CancelRecv(a)
         \/ \E a \in Ends, n \in 1 .. MaxInject : Inject(a, n)
         \/ \E dropped \in SUBSET Ends : DropEnds(dropped)
  PROVE  /\ TypeOK'
         /\ \A e \in Ends : /\ fut'[e] # "none" => state'[e] = "alive"
                            /\ Len(outcome'[e]) <= MaxSends[e]
                            /\ fut'[e] \in {"sleeping", "waiting"} => Len(outcome'[e]) < MaxSends[e]
<1> DEFINE Ready(e) == /\ fut[e] # "none" => state[e] = "alive"
                       /\ Len(outcome[e]) <= MaxSends[e]
                       /\ fut[e] \in {"sleeping", "waiting"} => Len(outcome[e]) < MaxSends[e]
<1>0. TypeOK /\ (\A e \in Ends : Ready(e)) /\ (\A e \in Ends : Peer[e] \in Ends)
  BY DirectionTypes DEF MemInv, EndInv
<1>1. ASSUME NEW a \in Ends, Duplex(a) PROVE TypeOK' /\ \A e \in Ends : Ready(e)'
  BY <1>0, <1>1 DEF Duplex, wires, faults, TypeOK
<1>2. ASSUME NEW a \in Ends, Recv(a) \/ CancelRecv(a) PROVE TypeOK' /\ \A e \in Ends : Ready(e)'
  <2>1. /\ UNCHANGED <<mode, state, queue, outcome, received, sawClosed, dropNext, failNext>>
        /\ state[a] = "alive" /\ \E f \in {"recving", "none"} : fut' = [fut EXCEPT ![a] = f]
    BY <1>0, <1>2 DEF Recv, CancelRecv, Free, wires, faults
  <2>2. TypeOK'
    <3>1. fut \in [Ends -> Futures]
      BY <1>0 DEF TypeOK
    <3>2. fut' \in [Ends -> Futures]
      BY <2>1, <3>1 DEF Futures
    <3> QED
      BY <1>0, <2>1, <3>2 DEF TypeOK
  <2>3. \A e \in Ends : Ready(e)'
    BY <1>0, <2>1 DEF TypeOK
  <2> QED
    BY <2>2, <2>3
<1>3. ASSUME NEW a \in Ends, RecvMessage(a) PROVE TypeOK' /\ \A e \in Ends : Ready(e)'
  <2>1. /\ queue[Peer[a]] # <<>>
        /\ received' = [received EXCEPT ![a] = Append(received[a], Head(queue[Peer[a]]))]
        /\ queue' = [queue EXCEPT ![Peer[a]] = Tail(queue[Peer[a]])]
        /\ fut' = [fut EXCEPT ![a] = "none"]
        /\ UNCHANGED <<mode, state, outcome, sawClosed, faults>>
    BY <1>3 DEF RecvMessage, Incoming
  <2>2. /\ Append(received[a], Head(queue[Peer[a]])) \in Seq(Nat)
        /\ Tail(queue[Peer[a]]) \in Seq(Nat) /\ Len(Tail(queue[Peer[a]])) <= Capacity
    <3>1. /\ received[a] \in Seq(Nat) /\ queue[Peer[a]] \in Seq(Nat)
          /\ Len(queue[Peer[a]]) <= Capacity /\ Capacity \in Nat
      BY <1>0, MemAssumption DEF TypeOK
    <3>2. Head(queue[Peer[a]]) \in Nat /\ Tail(queue[Peer[a]]) \in Seq(Nat)
          /\ Len(Tail(queue[Peer[a]])) = Len(queue[Peer[a]]) - 1 /\ Len(queue[Peer[a]]) \in Nat
      BY <2>1, <3>1
    <3> QED
      BY <3>1, <3>2
  <2>3. /\ received' \in [Ends -> Seq(Nat)] /\ queue' \in [Ends -> Seq(Nat)]
        /\ \A e \in Ends : Len(queue'[e]) <= Capacity
    BY <1>0, <2>1, <2>2 DEF TypeOK
  <2>4. TypeOK'
    BY <1>0, <2>1, <2>3 DEF TypeOK, Futures, faults
  <2>5. \A e \in Ends : Ready(e)'
    BY <1>0, <2>1 DEF TypeOK
  <2> QED
    BY <2>4, <2>5
<1>4. ASSUME NEW a \in Ends, RecvClosed(a) PROVE TypeOK' /\ \A e \in Ends : Ready(e)'
  BY <1>0, <1>4 DEF RecvClosed, faults, TypeOK, Futures
<1>5. ASSUME NEW a \in Ends, NEW n \in 1 .. MaxInject, Inject(a, n)
      PROVE  TypeOK' /\ \A e \in Ends : Ready(e)'
  <2>1. n \in Nat
    BY MemAssumption
  <2> QED
    BY <1>0, <1>5, <2>1, SMTT(30) DEF Inject, wires, TypeOK
<1>6. ASSUME NEW dropped \in SUBSET Ends, DropEnds(dropped)
      PROVE  TypeOK' /\ \A e \in Ends : Ready(e)'
  <2>1. /\ \A e \in dropped : fut[e] = "none"
        /\ state' = [e \in Ends |-> IF e \in dropped THEN "gone" ELSE state[e]]
        /\ queue' = [e \in Ends |-> IF Peer[e] \in dropped THEN <<>> ELSE queue[e]]
        /\ UNCHANGED <<mode, fut, outcome, received, sawClosed, faults>>
    BY <1>6 DEF DropEnds, Free
  <2>2. queue' \in [Ends -> Seq(Nat)] /\ \A e \in Ends : Len(queue'[e]) <= Capacity
    BY <1>0, <2>1, EmptySeq, MemAssumption DEF TypeOK
  <2>3. TypeOK'
    BY <1>0, <2>1, <2>2 DEF TypeOK, faults
  <2>4. \A e \in Ends : Ready(e)'
    BY <1>0, <2>1
  <2> QED
    BY <2>3, <2>4
<1> QED
  BY <1>1, <1>2, <1>3, <1>4, <1>5, <1>6

\* An end that is gone stays gone.
LEMMA GoneForGood ==
  ASSUME MemInv, Next, NEW e \in Ends, state[e] = "gone"
  PROVE  state'[e] = "gone"
<1>1. ASSUME NEW a \in Ends, Duplex(a) PROVE state'[e] = "gone"
  BY <1>1 DEF Duplex, MemInv, TypeOK
<1>2. ASSUME NEW a \in Ends, Use(a) PROVE UNCHANGED state
  <2>1. ASSUME SendMoves(a) PROVE UNCHANGED state
    BY <2>1 DEF SendMoves
  <2> QED
    BY <1>2, <2>1, SendCases DEF Use, Inject, Recv, RecvMessage, RecvClosed, CancelRecv
<1>3. ASSUME NEW dropped \in SUBSET Ends, DropEnds(dropped) PROVE state'[e] = "gone"
  BY <1>3 DEF DropEnds
<1> QED
  BY <1>1, <1>2, <1>3 DEF Next

\* Every step keeps the invariant.
LEMMA MemStep ==
  ASSUME MemInv, Next
  PROVE  MemInv'
<1>1. /\ TypeOK'
      /\ \A e \in Ends : /\ fut'[e] # "none" => state'[e] = "alive"
                         /\ Len(outcome'[e]) <= MaxSends[e]
                         /\ fut'[e] \in {"sleeping", "waiting"} => Len(outcome'[e]) < MaxSends[e]
  BY SendCases, SendKeeps, OthersKeep DEF Next, Use
<1>2. ASSUME NEW e \in Ends PROVE LineInv(e)'
  BY StepEffect, EffectLine
<1>3. ASSUME NEW e \in Ends PROVE EndInv(e)'
  <2>1. Effect(e) /\ EndInv(e) /\ queue[e] \in Seq(Nat) /\ Peer[e] \in Ends
    BY StepEffect, DirectionTypes DEF MemInv
  <2>2. state[e] = "gone" => state'[e] = "gone"
    BY GoneForGood
  <2>3. PeerGone(e)' => queue'[e] = <<>>
    BY <2>1 DEF Effect, Keeps, Settles, Pushes, Hands, Closes, Cuts, SameReceiver, EndInv
  <2>4. sawClosed'[Peer[e]] => queue'[e] = <<>> /\ state'[e] = "gone"
    BY <2>1, <2>2
       DEF Effect, Keeps, Settles, Pushes, Hands, Closes, Cuts, SameReceiver, EndInv
  <2> QED
    BY <1>1, <2>3, <2>4 DEF EndInv
<1> QED
  BY <1>1, <1>2, <1>3 DEF MemInv

\* The inductive invariant holds at first.
LEMMA MemInit == Init => MemInv
<1> SUFFICES ASSUME Init PROVE MemInv
  OBVIOUS
<1>1. TypeOK
  BY EmptySeq, MemAssumption DEF Init, TypeOK, Futures, AllModes
<1>2. ASSUME NEW e \in Ends PROVE LineInv(e) /\ EndInv(e)
  <2>1. /\ Peer[e] \in Ends /\ MaxSends[e] \in Nat /\ queue[e] = <<>> /\ outcome[e] = <<>>
        /\ received[Peer[e]] = <<>> /\ Len(<<>>) = 0 /\ <<>> \o <<>> = <<>>
        /\ fut[e] = "none" /\ ~sawClosed[Peer[e]]
    BY MemAssumption DEF Init
  <2>2. LineInv(e)
    BY <2>1 DEF LineInv, Line, Increasing, ElemsOf, Sent
  <2>3. EndInv(e)
    BY <2>1 DEF EndInv
  <2> QED
    BY <2>2, <2>3
<1> QED
  BY <1>1, <1>2 DEF MemInv

\* The inductive invariant holds throughout, for any channels, capacity and sends.
THEOREM InvariantHolds == Spec => []MemInv
<1>1. MemInv /\ UNCHANGED chanVars => MemInv'
  BY DEF chanVars, wires, faults, MemInv, TypeOK, LineInv, EndInv, Line, PeerGone
<1> QED
  BY <1>1, MemInit, MemStep, PTL DEF Spec

\* No queue outgrows its capacity, and the variables keep their types, for every
\* capacity, delivery mode and number of channels (send and recv of mem.rs).
THEOREM TypeCorrect == Spec => []TypeOK
<1>1. MemInv => TypeOK
  BY DEF MemInv
<1> QED
  BY <1>1, InvariantHolds, PTL

\* What is received and what is queued is in the order of the sends, without
\* doubles, and misses none that succeeded while its receiver is there: for any
\* mix of timeouts, dropped futures and injected failures (send of mem.rs).
THEOREM FifoHolds == Spec => []Fifo
<1>1. MemInv => Fifo
  BY DEF MemInv, LineInv, Increasing, Sent, ElemsOf, Fifo
<1> QED
  BY <1>1, InvariantHolds, PTL

(***************************************************************************)
(* The contract of channel.rs.                                             *)
(***************************************************************************)
\* A direction that kept its outcomes, its queue and its receiver is as it was
\* for the contract; Same stands for the parts of it a step leaves alone.
LEMMA ContractStep ==
  ASSUME MemInv, NEW e \in Ends, Effect(e)
  PROVE  Contract(e)!Next \/ UNCHANGED Contract(e)!vars
<1> DEFINE q == queue[e]
           o == outcome[e]
<1>0. /\ q \in Seq(Nat) /\ o \in Seq(Outcomes) /\ Line(e) = received[Peer[e]] \o q
      /\ received[Peer[e]] \in Seq(Nat) /\ Len(o) \in Nat /\ MaxSends[e] \in Nat
      /\ LineInv(e) /\ EndInv(e)
  BY DirectionTypes DEF Line, MemInv
<1>1. CASE Keeps(e)
  BY <1>1 DEF Keeps, SameReceiver, PeerGone, Contract!vars
<1>2. CASE Len(o) < MaxSends[e] /\ Settles(e)
  <2>1. PICK x \in {"nothing", "lost"} : outcome'[e] = Append(o, x)
    BY <1>2 DEF Settles
  <2>2. queue'[e] = q /\ SameReceiver(e)
    BY <1>2 DEF Settles
  <2>3. CASE x = "nothing"
    <3>1. Took(outcome'[e]) = Took(o)
      BY <1>0, <2>1, <2>3, OutcomeFacts DEF Outcomes, Accepted
    <3> QED
      BY <2>2, <3>1 DEF SameReceiver, PeerGone, Took, Contract!vars
  <2>4. CASE x = "lost"
    <3>1. /\ Took(outcome'[e]) = Took(o) \cup {Len(o) + 1} /\ Len(o) + 1 \notin Took(o)
          /\ Len(o) + 1 \in 1 .. MaxSends[e]
      BY <1>0, <1>2, <2>1, <2>4, OutcomeFacts DEF Outcomes, Accepted
    <3>2. PICK n \in 1 .. MaxSends[e] : n = Len(o) + 1
      BY <3>1
    <3>3. Contract(e)!Accept(n)
      BY <2>2, <3>1, <3>2 DEF SameReceiver, PeerGone, Took, Contract!Accept
    <3> QED
      BY <3>3 DEF Contract!Next
  <2> QED
    BY <2>3, <2>4
<1>3. CASE Len(o) < MaxSends[e] /\ Pushes(e)
  <2> DEFINE m == Len(o) + 1
  <2>1. /\ Took(outcome'[e]) = Took(o) \cup {m} /\ m \notin Took(o) /\ m \in 1 .. MaxSends[e]
    BY <1>0, <1>3, OutcomeFacts DEF Pushes, Outcomes, Accepted
  <2>2. ElemsOf(queue'[e]) = ElemsOf(q) \cup {m}
    <3>1. m \in Nat /\ queue'[e] = Append(q, m)
      BY <1>0, <1>3 DEF Pushes
    <3> HIDE DEF m, q
    <3> QED
      BY <1>0, <3>1, AppendFacts
  <2>3. ~PeerGone(e) /\ SameReceiver(e)
    BY <1>3 DEF Pushes
  <2>4. PICK n \in 1 .. MaxSends[e] : n = m
    BY <2>1
  <2>5. Contract(e)!Accept(n)
    BY <2>1, <2>2, <2>3, <2>4 DEF SameReceiver, PeerGone, Took, ElemsOf, Contract!Accept
  <2> QED
    BY <2>5 DEF Contract!Next
<1>4. CASE Hands(e)
  <2> DEFINE m == Head(q)
  <2>1. q # <<>> /\ queue'[e] = Tail(q) /\ outcome'[e] = o
    BY <1>4 DEF Hands
  <2>2. ElemsOf(queue'[e]) = ElemsOf(q) \ {m} /\ m \in ElemsOf(q)
    <3>1. Increasing(q)
      BY <1>0, PartFacts DEF LineInv
    <3>2. m = q[1] /\ 1 \in 1 .. Len(q)
      BY <1>0, <2>1
    <3> QED
      BY <1>0, <2>1, <3>1, <3>2, TailFacts DEF ElemsOf
  <2>3. m \in 1 .. MaxSends[e]
    <3>1. m \in Sent(o)
      BY <1>0, <2>2, PartFacts DEF LineInv
    <3> QED
      BY <1>0, <3>1, SMTT(30) DEF Sent, EndInv
  <2>4. ~sawClosed[Peer[e]]
    BY <1>0, <2>1 DEF EndInv
  <2>5. PICK n \in 1 .. MaxSends[e] : n = m
    BY <2>3
  <2>6. Contract(e)!Deliver(n)
    BY <1>4, <2>2, <2>4, <2>5 DEF Hands, PeerGone, ElemsOf, Contract!Deliver
  <2> QED
    BY <2>6 DEF Contract!Next
<1>5. CASE Closes(e)
  <2>1. ElemsOf(q) = {} /\ ElemsOf(queue'[e]) = {}
    BY <1>5 DEF Closes, ElemsOf
  <2>2. Contract(e)!End
    BY <1>5, <2>1 DEF Closes, PeerGone, ElemsOf, Contract!End
  <2> QED
    BY <2>2 DEF Contract!Next
<1>6. CASE Cuts(e)
  <2>1. ElemsOf(queue'[e]) = {}
    BY <1>6 DEF Cuts, ElemsOf
  <2>2. Contract(e)!Break
    BY <1>6, <2>1 DEF Cuts, PeerGone, ElemsOf, Contract!Break
  <2> QED
    BY <2>2 DEF Contract!Next
<1> QED
  BY <1>1, <1>2, <1>3, <1>4, <1>5, <1>6 DEF Effect

\* Every direction of every in-memory channel implements the contract of
\* channel.rs, whatever its capacity, delivery mode and timeouts (mem.rs).
THEOREM ContractImplemented == Spec => ImplementsContract
<1>1. Init => \A e \in Ends : Contract(e)!Init
  <2> SUFFICES ASSUME Init, NEW e \in Ends PROVE Contract(e)!Init
    OBVIOUS
  <2>1. /\ Peer[e] \in Ends /\ Len(<<>>) = 0
        /\ queue[e] = <<>> /\ outcome[e] = <<>> /\ received[Peer[e]] = <<>>
        /\ state[Peer[e]] = "unmade" /\ sawClosed[Peer[e]] = FALSE
    BY MemAssumption DEF Init
  <2> QED
    BY <2>1 DEF Contract!Init
<1>2. MemInv /\ [Next]_chanVars
        => [\A e \in Ends : Contract(e)!Next \/ UNCHANGED Contract(e)!vars]_chanVars
  BY StepEffect, ContractStep
<1> QED
  BY <1>1, <1>2, InvariantHolds, PTL DEF Spec, ImplementsContract

(***************************************************************************)
(* The network.                                                            *)
(***************************************************************************)
Far == Ends \ Near
Distinct(q) == \A i, j \in 1 .. Len(q) : q[i] = q[j] => i = j
DialStates == {"idle", "waiting", "connected", "unreachable", "dropped"}

\* The types of the network's own variables.
NetTypes ==
  /\ dialing \in [Near -> DialStates]
  /\ inbound \in Seq(Far) /\ Len(inbound) <= Backlog
  /\ accepted \subseteq Far

\* What the listener has, or had, is the far end of a connect that succeeded, and
\* it is in one place, once.
Offered ==
  /\ \A e \in ElemsOf(inbound) \cup accepted : dialing[Peer[e]] = "connected"
  /\ Distinct(inbound) /\ ElemsOf(inbound) \cap accepted = {}

\* A connect that succeeded has its far end with the listener.
Kept(c) ==
  dialing[c] = "connected" =>
    \/ Peer[c] \in ElemsOf(inbound) \cup accepted
    \/ listener = "gone" /\ PeerGone(c)

\* The inductive invariant of the network.
NetInv == NetTypes /\ Offered /\ \A c \in Near : Kept(c)

\* A far end joins the queue of the listener.
LEMMA Enqueued ==
  ASSUME NEW S, NEW q \in Seq(S), NEW m \in S
  PROVE  /\ Append(q, m) \in Seq(S) /\ Len(Append(q, m)) = Len(q) + 1
         /\ ElemsOf(Append(q, m)) = ElemsOf(q) \cup {m}
         /\ Distinct(q) /\ m \notin ElemsOf(q) => Distinct(Append(q, m))
<1> DEFINE s == Append(q, m)
<1>1. /\ s \in Seq(S) /\ Len(s) = Len(q) + 1 /\ Len(q) \in Nat
      /\ s[Len(q) + 1] = m /\ \A i \in 1 .. Len(q) : s[i] = q[i]
  OBVIOUS
<1> HIDE DEF s
<1>2. \A i : i \in 1 .. Len(s) <=> i \in 1 .. Len(q) \/ i = Len(q) + 1
  BY <1>1
<1>3. \A i \in 1 .. Len(s) : s[i] \in ElemsOf(q) \cup {m}
  BY <1>1, <1>2 DEF ElemsOf
<1>4. \A n \in ElemsOf(q) \cup {m} : \E i \in 1 .. Len(s) : s[i] = n
  BY <1>1, <1>2 DEF ElemsOf
<1>5. ElemsOf(s) = ElemsOf(q) \cup {m}
  BY <1>3, <1>4 DEF ElemsOf
<1>6. ASSUME Distinct(q), m \notin ElemsOf(q) PROVE Distinct(s)
  BY <1>1, <1>2, <1>6 DEF Distinct, ElemsOf
<1> QED
  BY <1>1, <1>5, <1>6 DEF s

\* The head leaves it.
LEMMA Dequeued ==
  ASSUME NEW S, NEW q \in Seq(S), q # <<>>, Distinct(q)
  PROVE  /\ Tail(q) \in Seq(S) /\ Len(Tail(q)) = Len(q) - 1
         /\ Head(q) \in S /\ Head(q) \in ElemsOf(q) /\ Distinct(Tail(q))
         /\ ElemsOf(Tail(q)) = ElemsOf(q) \ {Head(q)}
<1> DEFINE t == Tail(q)
           h == Head(q)
<1>1. /\ Len(q) \in Nat \ {0} /\ t \in Seq(S) /\ Len(t) = Len(q) - 1 /\ h \in S
      /\ h = q[1] /\ \A i \in 1 .. Len(q) - 1 : t[i] = q[i + 1]
  OBVIOUS
<1> HIDE DEF t, h
<1>2. \A i \in 1 .. Len(t) : i + 1 \in 1 .. Len(q) /\ i + 1 # 1 /\ t[i] = q[i + 1]
  BY <1>1
<1>3. Distinct(t)
  BY <1>1, <1>2 DEF Distinct
<1>4. \A i \in 1 .. Len(t) : t[i] \in ElemsOf(q) \ {h}
  BY <1>1, <1>2 DEF ElemsOf, Distinct
<1>5. ASSUME NEW i \in 1 .. Len(q), q[i] # h PROVE q[i] \in ElemsOf(t)
  <2>1. i - 1 \in 1 .. Len(t) /\ t[i - 1] = q[(i - 1) + 1] /\ (i - 1) + 1 = i
    BY <1>1, <1>5
  <2> QED
    BY <2>1 DEF ElemsOf
<1>6. ElemsOf(t) = ElemsOf(q) \ {h}
  <2>1. \A n \in ElemsOf(t) : n \in ElemsOf(q) \ {h}
    BY <1>4 DEF ElemsOf
  <2>2. \A n \in ElemsOf(q) \ {h} : n \in ElemsOf(t)
    BY <1>5 DEF ElemsOf
  <2> QED
    BY <2>1, <2>2
<1>7. h \in ElemsOf(q)
  BY <1>1 DEF ElemsOf
<1> QED
  BY <1>1, <1>3, <1>6, <1>7 DEF t, h

\* The ends of a connect, and of the queue, are ends of channels.
LEMMA NetEnds ==
  ASSUME NetInv
  PROVE  /\ \A c \in Near : c \in Ends /\ Peer[c] \in Far /\ Peer[Peer[c]] = c
         /\ \A e \in Far : e \in Ends /\ Peer[e] \in Near /\ Peer[Peer[e]] = e
         /\ ElemsOf(inbound) \subseteq Far
<1>1. ElemsOf(inbound) \subseteq Far
  BY DEF NetInv, NetTypes, ElemsOf
<1> QED
  BY <1>1, MemAssumption, NetworkAssumption DEF Far

\* Whatever the network does to its channels is what MemChannel lets happen.
LEMMA NetToChannel ==
  ASSUME NetInv, NetNext
  PROVE  Next \/ UNCHANGED chanVars
<1>1. ASSUME NEW c \in Near, Connect(c) PROVE Next
  <2>1. c \in Ends /\ Duplex(c)
    BY <1>1, NetEnds DEF Connect
  <2> QED
    BY <2>1 DEF Next
<1>2. ASSUME NEW dropped \in SUBSET Ends, DropEnds(dropped) PROVE Next
  BY <1>2 DEF Next
<1>3. ASSUME NEW c \in Near, ConnectUnreachable(c) \/ CancelConnect(c) PROVE Next
  <2>1. \E r \in {"unreachable", "dropped"} : Undial(c, r)
    BY <1>3 DEF ConnectUnreachable, CancelConnect
  <2>2. DropEnds({c, Peer[c]}) /\ {c, Peer[c]} \in SUBSET Ends
    BY <2>1, NetEnds DEF Undial, Far
  <2> QED
    BY <1>2, <2>2
<1>4. {inbound[i] : i \in 1 .. Len(inbound)} \in SUBSET Ends
  BY NetEnds DEF ElemsOf, Far
<1>5. CASE DropConnectors
  <2>1. CASE listener = "kept"
    BY <1>2, <1>4, <1>5, <2>1 DEF DropConnectors
  <2>2. CASE listener # "kept"
    <3>1. DropEnds({})
      BY <1>5, <2>2 DEF DropConnectors
    <3> QED
      BY <1>2, <3>1
  <2> QED
    BY <2>1, <2>2
<1>6. CASE DropListener
  BY <1>2, <1>4, <1>6 DEF DropListener
<1>7. ASSUME NEW e \in Ends, UseEnd(e) \/ LeaveEnd(e) PROVE Next
  <2>1. CASE UseEnd(e)
    BY <2>1 DEF UseEnd, Next
  <2>2. CASE LeaveEnd(e)
    <3>1. DropEnds({e}) /\ {e} \in SUBSET Ends
      BY <2>2 DEF LeaveEnd
    <3> QED
      BY <1>2, <3>1
  <2> QED
    BY <1>7, <2>1, <2>2
<1>8. CASE \/ Listen \/ Accept \/ AcceptOk \/ AcceptUnreachable \/ CancelAccept
           \/ \E c \in Near : ConnectOk(c)
  BY <1>8 DEF Listen, Accept, AcceptOk, AcceptUnreachable, CancelAccept, ConnectOk
<1> QED
  BY <1>1, <1>3, <1>5, <1>6, <1>7, <1>8 DEF NetNext

\* A step that leaves the dialogue of the network alone.
LEMMA NetKeeps ==
  ASSUME NetInv, UNCHANGED <<dialing, inbound, accepted>>, listener = "gone" => listener' = "gone",
         \A e \in Ends : state[e] = "gone" => state'[e] = "gone"
  PROVE  NetInv'
<1>1. NetTypes' /\ Offered'
  BY DEF NetInv, NetTypes, Offered
<1>2. ASSUME NEW c \in Near PROVE Kept(c)'
  BY NetEnds DEF NetInv, Kept, PeerGone, Far
<1> QED
  BY <1>1, <1>2 DEF NetInv

\* Every step of the network keeps it.
LEMMA NetStep ==
  ASSUME MemInv, NetInv, NetNext
  PROVE  NetInv'
<1>0. \A e \in Ends : state[e] = "gone" => state'[e] = "gone"
  BY NetToChannel, GoneForGood DEF chanVars
<1>1. NetTypes /\ Offered /\ \A c \in Near : Kept(c)
  BY DEF NetInv
\* The listener goes, and what is in its queue with it.
<1>2. ASSUME listener # "gone", listener' = "gone", inbound' = <<>>,
             DropEnds({inbound[i] : i \in 1 .. Len(inbound)}), UNCHANGED <<dialing, accepted>>
      PROVE  NetInv'
  <2>1. NetTypes' /\ Offered'
    BY <1>1, <1>2, NetworkAssumption DEF NetTypes, Offered, ElemsOf, Distinct
  <2>2. ASSUME NEW c \in Near, dialing[c] = "connected", Peer[c] \notin accepted PROVE PeerGone(c)'
    <3>1. Peer[c] \in ElemsOf(inbound)
      BY <1>1, <1>2, <2>2 DEF Kept
    <3> QED
      BY <1>2, <3>1, NetEnds DEF DropEnds, ElemsOf, PeerGone, Far
  <2> QED
    BY <1>2, <2>1, <2>2 DEF NetInv, Kept
<1>3. CASE DropConnectors
  <2>1. CASE listener = "kept"
    BY <1>2, <1>3, <2>1 DEF DropConnectors
  <2>2. CASE listener # "kept"
    BY <1>0, <1>3, <2>2, NetKeeps DEF DropConnectors
  <2> QED
    BY <2>1, <2>2
<1>4. CASE DropListener
  BY <1>2, <1>4 DEF DropListener
<1>5. CASE Listen \/ Accept \/ AcceptUnreachable \/ CancelAccept
  BY <1>0, <1>5, NetKeeps DEF Listen, Accept, AcceptUnreachable, CancelAccept
<1>6. ASSUME NEW e \in Ends, UseEnd(e) \/ LeaveEnd(e) PROVE NetInv'
  BY <1>0, <1>6, NetKeeps DEF UseEnd, LeaveEnd, netOnly
\* A connect that has not succeeded changes its state.
<1>7. ASSUME NEW c \in Near, NEW r \in DialStates \ {"connected"}, dialing[c] # "connected",
             dialing' = [dialing EXCEPT ![c] = r], UNCHANGED <<inbound, accepted, listener>>
      PROVE  NetInv'
  <2>1. NetTypes'
    BY <1>1, <1>7 DEF NetTypes
  <2>2. \A d \in Near : dialing'[d] = "connected" <=> dialing[d] = "connected"
    BY <1>1, <1>7 DEF NetTypes
  <2>3. Offered'
    BY <1>1, <1>7, <2>2, NetEnds DEF Offered, NetTypes
  <2>4. ASSUME NEW d \in Near PROVE Kept(d)'
    BY <1>0, <1>1, <1>7, <2>2, NetEnds DEF Kept, PeerGone, Far
  <2> QED
    BY <2>1, <2>3, <2>4 DEF NetInv
<1>8. ASSUME NEW c \in Near, Connect(c) \/ ConnectUnreachable(c) \/ CancelConnect(c)
      PROVE  NetInv'
  <2>1. CASE Connect(c)
    BY <1>7, <2>1 DEF Connect, DialStates
  <2>2. CASE ConnectUnreachable(c)
    BY <1>7, <2>2 DEF ConnectUnreachable, Undial, DialStates
  <2>3. CASE CancelConnect(c)
    BY <1>7, <2>3 DEF CancelConnect, Undial, DialStates
  <2> QED
    BY <1>8, <2>1, <2>2, <2>3
<1>9. ASSUME NEW c \in Near, ConnectOk(c) PROVE NetInv'
  <2>0. /\ dialing[c] = "waiting" /\ listener' = listener /\ listener # "gone"
        /\ Len(inbound) < Backlog /\ accepted' = accepted
        /\ inbound' = Append(inbound, Peer[c])
        /\ dialing' = [dialing EXCEPT ![c] = "connected"]
    BY <1>9 DEF ConnectOk, HandOver
  <2>1. Peer[c] \in Far /\ Peer[Peer[c]] = c /\ Peer[c] \notin ElemsOf(inbound) \cup accepted
    BY <1>1, <2>0, NetEnds DEF Offered
  <2>2. /\ inbound' \in Seq(Far) /\ Len(inbound') = Len(inbound) + 1 /\ Len(inbound) \in Nat
        /\ ElemsOf(inbound') = ElemsOf(inbound) \cup {Peer[c]} /\ Distinct(inbound')
    BY <1>1, <2>0, <2>1, Enqueued DEF NetTypes, Offered
  <2>3. NetTypes'
    BY <1>1, <2>0, <2>2, NetworkAssumption DEF NetTypes, DialStates
  <2>4. Offered'
    BY <1>1, <2>0, <2>1, <2>2, NetEnds DEF Offered, NetTypes
  <2>5. ASSUME NEW d \in Near PROVE Kept(d)'
    BY <1>1, <2>0, <2>2 DEF Kept, NetTypes
  <2> QED
    BY <2>3, <2>4, <2>5 DEF NetInv
<1>10. CASE AcceptOk
  <2>0. /\ inbound # <<>> /\ inbound' = Tail(inbound) /\ UNCHANGED <<dialing, listener>>
        /\ accepted' = accepted \cup {Head(inbound)}
    BY <1>10 DEF AcceptOk
  <2>1. /\ inbound' \in Seq(Far) /\ Len(inbound') = Len(inbound) - 1 /\ Len(inbound) \in Nat
        /\ Head(inbound) \in Far /\ Head(inbound) \in ElemsOf(inbound) /\ Distinct(inbound')
        /\ ElemsOf(inbound') = ElemsOf(inbound) \ {Head(inbound)}
    BY <1>1, <2>0, Dequeued DEF NetTypes, Offered
  <2>2. NetTypes'
    BY <1>1, <2>0, <2>1, NetworkAssumption DEF NetTypes
  <2>3. Offered'
    BY <1>1, <2>0, <2>1 DEF Offered
  <2>4. ASSUME NEW c \in Near PROVE Kept(c)'
    BY <1>0, <1>1, <2>0, <2>1, NetEnds DEF Kept, PeerGone, Far
  <2> QED
    BY <2>2, <2>3, <2>4 DEF NetInv
<1> QED
  BY <1>3, <1>4, <1>5, <1>6, <1>8, <1>9, <1>10 DEF NetNext

\* Both invariants hold of the network, for any backlog and any channels.
THEOREM NetInvariantHolds == NetSpec => [](MemInv /\ NetInv)
<1>1. NetInit => MemInv /\ NetInv
  <2> SUFFICES ASSUME NetInit PROVE MemInv /\ NetInv
    OBVIOUS
  <2>1. MemInv
    BY MemInit DEF NetInit
  <2>2. NetTypes /\ Offered /\ \A c \in Near : Kept(c)
    BY EmptySeq, NetworkAssumption
       DEF NetInit, NetTypes, Offered, Kept, ElemsOf, Distinct, DialStates
  <2> QED
    BY <2>1, <2>2 DEF NetInv
<1>2. MemInv /\ NetInv /\ [NetNext]_netVars => (MemInv /\ NetInv)'
  <2> SUFFICES ASSUME MemInv, NetInv, [NetNext]_netVars PROVE (MemInv /\ NetInv)'
    OBVIOUS
  <2>1. ASSUME UNCHANGED chanVars PROVE MemInv'
    BY <2>1 DEF chanVars, wires, faults, MemInv, TypeOK, LineInv, EndInv, Line, PeerGone
  <2>2. CASE NetNext
    BY <2>1, <2>2, NetToChannel, MemStep, NetStep
  <2>3. CASE UNCHANGED netVars
    <3>1. UNCHANGED <<dialing, inbound, accepted, listener, state>> /\ UNCHANGED chanVars
      BY <2>3 DEF netVars, netOnly, chanVars
    <3> QED
      BY <2>1, <3>1, NetKeeps
  <2> QED
    BY <2>2, <2>3
<1> QED
  BY <1>1, <1>2, PTL DEF NetSpec

\* Each channel that connect makes lives as MemChannel says (duplex, connect and
\* accept of mem.rs), so that the theorems above hold of it.
THEOREM ChannelsRefined == NetSpec => ChannelSpec
<1>1. NetInit => Init
  BY DEF NetInit
<1>2. NetInv /\ [NetNext]_netVars => [Next]_chanVars
  BY NetToChannel DEF netVars
<1> QED
  BY <1>1, <1>2, NetInvariantHolds, PTL DEF NetSpec, ChannelSpec, Spec

\* Messages come out in order and once on every channel of the network (send and
\* recv of mem.rs).
THEOREM NetworkFifo == NetSpec => []Fifo
<1>1. MemInv => Fifo
  BY DEF MemInv, LineInv, Increasing, Sent, ElemsOf, Fifo
<1> QED
  BY <1>1, NetInvariantHolds, PTL

\* Every channel of the network implements the contract of channel.rs.
THEOREM NetworkContract == NetSpec => ImplementsContract
  BY ChannelsRefined, ContractImplemented, PTL DEF ChannelSpec

\* A connect that is dropped or fails leaves nothing with the listener, and one
\* that succeeds has its far end there once (connect and accept of mem.rs).
THEOREM NoGhostsHolds == NetSpec => []NoGhosts
<1>1. NetInv => NoGhosts
  BY NetEnds DEF NetInv, NetTypes, Offered, Kept, NoGhosts, InQueue, ElemsOf, Far
<1> QED
  BY <1>1, NetInvariantHolds, PTL
=============================================================================
