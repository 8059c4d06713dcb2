------------------------ MODULE CapnpChannelProofs --------------------------
(***************************************************************************)
(* Proofs about CapnpChannel, for every queue depth, every buffer of the   *)
(* backend and any number of futures and messages.                         *)
(*                                                                         *)
(* First facts about the command queue and about issuing a call, then one  *)
(* lemma per action of Next (<Action>Step: it preserves IInv), then the    *)
(* theorems.  In the step lemmas <1>1 ... <1>7 are the conjuncts of IInv   *)
(* in their order, <1>h is what the step does to the messages held, and    *)
(* <1>0, <1>a ... <1>d the facts about the step the conjuncts share.       *)
(***************************************************************************)
EXTENDS CapnpChannelInv, SequenceTheorems, TLAPS

\* A sequence with at most one element that is not empty has exactly one.
LEMMA Singleton ==
  ASSUME NEW S, NEW s \in Seq(S), s # <<>>, Len(s) <= 1
  PROVE  Len(s) = 1 /\ Head(s) = s[1] /\ Head(s) \in S /\ Tail(s) = <<>>
<1>1. Len(s) \in Nat \ {0}
  BY EmptySeq
<1>2. Len(s) = 1
  BY <1>1
<1>3. Tail(s) \in Seq(S) /\ Len(Tail(s)) = 0 /\ Head(s) \in S
  BY <1>2, HeadTailProperties
<1>4. Tail(s) = <<>>
  BY <1>3, EmptySeq
<1>5. Head(s) = s[1]
  OBVIOUS
<1> QED
  BY <1>2, <1>3, <1>4, <1>5

\* What was delivered is a set of messages, and the same while nothing is delivered.
LEMMA DeliveredFacts ==
  /\ TypeOK => Delivered \subseteq Msgs
  /\ UNCHANGED delivered => Delivered' = Delivered
<1>1. TypeOK => Delivered \subseteq Msgs
  BY ElementOfSeq DEF TypeOK, Delivered
<1>2. UNCHANGED delivered => Delivered' = Delivered
  BY DEF Delivered
<1> QED
  BY <1>1, <1>2

\* Appending an element adds it to those of a sequence.
LEMMA AppendedRange ==
  ASSUME NEW S, NEW s \in Seq(S), NEW e \in S, NEW t, t = Append(s, e)
  PROVE  {t[i] : i \in DOMAIN t} = {s[i] : i \in DOMAIN s} \cup {e}
<1>1. /\ Len(s) \in Nat /\ DOMAIN s = 1 .. Len(s) /\ DOMAIN t = 1 .. Len(s) + 1
      /\ \A i \in 1 .. Len(s) : t[i] = s[i]
      /\ t[Len(s) + 1] = e
  OBVIOUS
<1>2. ASSUME NEW x \in {s[i] : i \in DOMAIN s} PROVE x \in {t[i] : i \in DOMAIN t}
  BY <1>1
<1>3. e \in {t[i] : i \in DOMAIN t}
  <2>1. Len(s) + 1 \in DOMAIN t
    BY <1>1
  <2> QED
    BY <1>1, <2>1
<1>4. ASSUME NEW i \in DOMAIN t PROVE t[i] \in {s[j] : j \in DOMAIN s} \cup {e}
  BY <1>1
<1> QED
  BY <1>2, <1>3, <1>4

\* Serving a command takes the first one of the queue and shifts the rest.
LEMMA ServeFacts ==
  ASSUME TypeOK, NEW op, Serve(op)
  PROVE  /\ cmds # <<>> /\ cmds' \in Seq(Command)
         /\ Len(cmds) \in Nat \ {0} /\ Len(cmds') = Len(cmds) - 1
         /\ \A i \in 1 .. Len(cmds') : cmds'[i] = cmds[i + 1]
         /\ Head(cmds) = cmds[1] /\ Head(cmds) \in Command /\ Head(cmds).op = op
         /\ cmds' = <<>> <=> Len(cmds) = 1
<1>1. cmds \in Seq(Command) /\ cmds # <<>> /\ cmds' = Tail(cmds) /\ Head(cmds).op = op
  BY DEF TypeOK, Serve
<1>2. Head(cmds) = cmds[1]
  BY <1>1
<1>3. Head(cmds) \in Command /\ Tail(cmds) \in Seq(Command)
      /\ Len(Tail(cmds)) = Len(cmds) - 1
      /\ \A i \in 1 .. Len(Tail(cmds)) : Tail(cmds)[i] = cmds[i + 1]
  BY <1>1, HeadTailProperties
<1>4. Len(cmds) \in Nat \ {0}
  BY <1>1, EmptySeq
<1>5. Tail(cmds) = <<>> <=> Len(Tail(cmds)) = 0
  BY <1>3, EmptySeq
<1> QED
  BY <1>1, <1>2, <1>3, <1>4, <1>5

\* The order of the queue after its first command was served.
LEMMA ServedOrder ==
  ASSUME TypeOK, OrderInv, NEW op, Serve(op)
  PROVE  /\ Head(cmds).call <= calls
         /\ fut.phase # "ready"
         /\ fut.phase = "sending" => Head(cmds).call < calls
         /\ fut.phase = "waiting" /\ Head(cmds).call = calls => cmds' = <<>> /\ fut.op = op
         /\ fut.phase = "waiting" /\ cmds' # <<>> => Head(cmds).call < calls
         /\ \A i \in 1 .. Len(cmds') : cmds'[i].call <= calls
         /\ fut.phase = "sending" => \A i \in 1 .. Len(cmds') : cmds'[i].call < calls
         /\ fut.phase = "waiting" /\ cmds' # <<>> =>
              /\ cmds'[Len(cmds')].op = fut.op /\ cmds'[Len(cmds')].call = calls
              /\ \A i \in 1 .. Len(cmds') - 1 : cmds'[i].call < calls
<1> USE ServeFacts DEF OrderInv
<1>1. \A i \in 1 .. Len(cmds) : cmds[i].call \in Int /\ calls \in Int
  BY ElementOfSeq DEF TypeOK, Command, ServerCall, Calls
<1>2. /\ Head(cmds).call <= calls
      /\ fut.phase # "ready"
      /\ fut.phase = "sending" => Head(cmds).call < calls
  OBVIOUS
<1>3. fut.phase = "waiting" /\ cmds' # <<>> => Head(cmds).call < calls
  BY <1>1
<1>4. fut.phase = "waiting" /\ Head(cmds).call = calls => cmds' = <<>> /\ fut.op = op
  BY <1>1
<1>5. /\ \A i \in 1 .. Len(cmds') : cmds'[i].call <= calls
      /\ fut.phase = "sending" => \A i \in 1 .. Len(cmds') : cmds'[i].call < calls
  <2>1. \A i \in 1 .. Len(cmds') : i + 1 \in 1 .. Len(cmds)
    OBVIOUS
  <2> QED
    BY <2>1
<1>6. fut.phase = "waiting" /\ cmds' # <<>> =>
        /\ cmds'[Len(cmds')].op = fut.op /\ cmds'[Len(cmds')].call = calls
        /\ \A i \in 1 .. Len(cmds') - 1 : cmds'[i].call < calls
  <2> SUFFICES ASSUME fut.phase = "waiting", cmds' # <<>>
               PROVE  /\ cmds'[Len(cmds')].op = fut.op /\ cmds'[Len(cmds')].call = calls
                      /\ \A i \in 1 .. Len(cmds') - 1 : cmds'[i].call < calls
    OBVIOUS
  <2>1. Len(cmds') \in 1 .. Len(cmds') /\ cmds'[Len(cmds')] = cmds[Len(cmds)]
    OBVIOUS
  <2>2. \A i \in 1 .. Len(cmds') - 1 :
          i \in 1 .. Len(cmds') /\ i + 1 \in 1 .. Len(cmds) - 1
    OBVIOUS
  <2> QED
    BY <2>1, <2>2
<1> QED BY <1>2, <1>3, <1>4, <1>5, <1>6

\* Release is last in the queue: a command other than it leaves the handle's
\* entries registered.
LEMMA ServedRelease ==
  ASSUME TypeOK, ReleaseInv, NEW op, Serve(op)
  PROVE  /\ registered
         /\ \A i \in 1 .. Len(cmds') : cmds'[i].op = "release" => i = Len(cmds') /\ handle = "dropped"
         /\ op = "release" => handle = "dropped" /\ cmds' = <<>>
<1> USE ServeFacts DEF ReleaseInv
<1>1. registered
  OBVIOUS
<1>2. \A i \in 1 .. Len(cmds') : i + 1 \in 1 .. Len(cmds)
  OBVIOUS
<1>3. \A i \in 1 .. Len(cmds') : cmds'[i].op = "release" => i = Len(cmds') /\ handle = "dropped"
  BY <1>2
<1>4. op = "release" => handle = "dropped" /\ cmds' = <<>>
  OBVIOUS
<1> QED
  BY <1>1, <1>3, <1>4


\* Issuing a call adds one call to `calling`, or one answer Closed to `answered`.
LEMMA IssueFacts ==
  ASSUME TypeOK, NEW c \in ServerCall, Issue(c)
  PROVE  /\ calling' \in SUBSET ServerCall /\ answered' \in SUBSET Answered
         /\ calling \subseteq calling' /\ answered \subseteq answered'
         /\ \A d \in calling' : d \in calling \/ (d = c /\ answered' = answered /\ conn = "up")
         /\ \A a \in answered' :
              \/ a \in answered
              \/ /\ a.op = c.op /\ a.call = c.call /\ a.result = Closed
                 /\ a = [op |-> c.op, call |-> c.call, result |-> Closed]
                 /\ calling' = calling
                 /\ registered => conn = "down"
<1>1. CASE registered /\ conn = "up"
  BY <1>1 DEF Issue, TypeOK
<1>2. CASE ~(registered /\ conn = "up")
  <2>1. [op |-> c.op, call |-> c.call, result |-> Closed] \in Answered
    BY DEF ServerCall, Answered, Results
  <2> QED
    BY <1>2, <2>1 DEF Issue, TypeOK
<1> QED
  BY <1>1, <1>2

\* A step that takes no message, gives none to the caller and keeps what is
\* held, or leaves the connection down, preserves MessageInv.
LEMMA MessageFrame ==
  ASSUME IInv, UNCHANGED <<taken, arrived, delivered, stranded, handle>>,
         \A m \in Msgs : IsHeld(m)' => IsHeld(m),
         conn' = "up" => conn = "up" /\ \A m \in Msgs : IsHeld(m) => IsHeld(m)'
  PROVE  MessageInv'
<1>1. 1 .. taken \subseteq Msgs
  BY BoundsAssumption DEF IInv, TypeOK, Msgs
<1> QED
  BY <1>1, DeliveredFacts DEF IInv, MessageInv

\* Each action of Next preserves the inductive invariant.  The caller:
LEMMA CallStep ==
  ASSUME NEW op \in Ops, IInv, Call(op)
  PROVE  IInv'
<1> USE BoundsAssumption DEF IInv, Call, client, table, rpc, far, history
<1>1. TypeOK'
  BY DEF TypeOK, ServerCall, Answered, Calls, Results, Closed, Failed
<1>2. ReleaseInv'
  BY DEF ReleaseInv
<1>3. OrderInv'
  <2>1. calls' = calls + 1 /\ calls \in Nat /\ fut'.phase = "sending"
    BY DEF TypeOK
  <2>2. \A i \in 1 .. Len(cmds) : cmds[i].call < calls' /\ cmds[i].call <= calls'
    <3>1. \A i \in 1 .. Len(cmds) : cmds[i].call \in Int /\ cmds[i].call <= calls
      BY ElementOfSeq DEF TypeOK, Command, ServerCall, Calls, OrderInv
    <3> QED
      BY <2>1, <3>1
  <2>3. recvState.waiter < calls' /\ recvState.waiter <= calls'
    BY <2>1 DEF TypeOK, OrderInv
  <2>4. /\ \A c \in calling : c.call < calls' /\ c.call <= calls'
        /\ \A a \in answered : a.call < calls' /\ a.call <= calls'
    BY <2>1 DEF TypeOK, ServerCall, Answered, Calls, OrderInv
  <2> QED
    BY <2>1, <2>2, <2>3, <2>4 DEF OrderInv, Unserved
<1>4. KindInv'
  BY DEF KindInv
<1>5. GateInv'
  BY DEF GateInv, RecvOutstanding
<1>6. MessageInv'
  BY DeliveredFacts DEF MessageInv, IsHeld
<1>7. ClosedInv'
  BY DEF ClosedInv, Dry, IsHeld
<1> QED
  BY <1>1, <1>2, <1>3, <1>4, <1>5, <1>6, <1>7

\* The caller's command goes into the queue.
LEMMA EnqueueStep ==
  ASSUME IInv, Enqueue
  PROVE  IInv'
<1> USE BoundsAssumption DEF IInv, Enqueue, HasRoom, client, table, rpc, far, history
<1>1. TypeOK'
  <2>1. [op |-> fut.op, call |-> calls] \in Command
    BY DEF TypeOK, OrderInv, Command, ServerCall, Calls, Ops
  <2>2. cmds' \in Seq(Command) /\ Len(cmds') <= QueueDepth
    BY <2>1, AppendProperties DEF TypeOK
  <2>3. fut' \in [op : Ops, phase : {"none", "sending", "waiting", "ready"}, result : Results]
    BY DEF TypeOK
  <2> QED
    BY <2>2, <2>3 DEF TypeOK
<1>2. ReleaseInv'
  BY AppendProperties, EmptySeq, SMTT(30) DEF ReleaseInv, TypeOK, Command, ServerCall, Answered, Calls,
     Ops, Msgs, Closed, Results
<1>3. OrderInv'
  BY AppendProperties, EmptySeq, SMTT(30) DEF OrderInv, Unserved, TypeOK
<1>4. KindInv'
  BY AppendProperties, EmptySeq DEF KindInv, TypeOK, ServerCall, Answered, Calls, OrderInv,
     Unserved, ReleaseInv
<1>5. GateInv'
  BY AppendProperties, EmptySeq DEF GateInv, RecvOutstanding
<1>6. MessageInv'
  BY AppendProperties, EmptySeq, DeliveredFacts DEF MessageInv, IsHeld
<1>7. ClosedInv'
  BY AppendProperties, EmptySeq DEF ClosedInv, Dry, IsHeld
<1> QED
  BY <1>1, <1>2, <1>3, <1>4, <1>5, <1>6, <1>7

\* The caller takes its answer, which may end what it may see.
LEMMA PollStep ==
  ASSUME IInv, Poll
  PROVE  IInv'
<1> USE BoundsAssumption DEF IInv, Poll, NoFuture, client, table, rpc, far, history
<1>1. TypeOK'
  <2>1. fut' \in [op : Ops, phase : {"none", "sending", "waiting", "ready"}, result : Results]
    BY DEF Ops, Results, Closed
  <2>2. delivered' \in Seq(Msgs) /\ sawClosed' \in BOOLEAN
    BY AppendProperties DEF TypeOK
  <2> QED
    BY <2>1, <2>2 DEF TypeOK
<1>2. ReleaseInv'
  BY DEF ReleaseInv
<1>3. OrderInv'
  BY DEF OrderInv, Unserved
<1>4. KindInv'
  BY DEF KindInv
<1>5. GateInv'
  BY DEF GateInv, RecvOutstanding
<1>a. fut.op = "recv" => \A m \in Msgs : ~IsHeld(m)'
  <2> SUFFICES ASSUME fut.op = "recv"
               PROVE  \A m \in Msgs : ~IsHeld(m)'
    OBVIOUS
  <2>1. recvState.buffer = <<>> /\ registered /\ ~recvState.inFlight
    BY DEF GateInv, ReleaseInv
  <2>2. \A b \in answered : b.op = "send"
    BY <2>1 DEF GateInv, RecvOutstanding, TypeOK, Answered, Ops
  <2>3. \A b \in answered : b.result \notin Msgs
    BY <2>2 DEF KindInv
  <2> QED
    BY <2>1, <2>3 DEF IsHeld
<1>b. \A m \in Msgs : IsHeld(m)' => IsHeld(m)
  BY DEF IsHeld
<1>c. fut.op \in Ops /\ (fut.op = "send" => fut.result \notin Msgs)
  BY DEF KindInv, TypeOK
<1>6. MessageInv'
  <2>1. CASE fut.result \in Msgs
    <3>1. fut.op = "recv" /\ IsHeld(fut.result)
      BY <1>c, <2>1 DEF Ops, IsHeld
    <3>2. fut.result = taken /\ delivered' = Append(delivered, taken) /\ taken \in Nat
      BY <2>1, <3>1 DEF MessageInv, TypeOK
    <3>5. Delivered' = Delivered \cup {taken}
      <4>1. delivered \in Seq(Msgs) /\ taken \in Msgs
        BY <2>1, <3>2 DEF TypeOK
      <4> QED
        BY <3>2, <4>1, AppendedRange DEF Delivered
    <3>3. \A m \in Msgs : IsHeld(m) => m = taken
      BY DEF MessageInv
    <3>4. 1 .. taken \subseteq Msgs
      BY DEF TypeOK, Msgs
    <3> QED
      BY <1>a, <3>1, <3>2, <3>3, <3>4, <3>5 DEF MessageInv
  <2>2. CASE fut.result \notin Msgs
    <3>1. \A m \in Msgs : IsHeld(m) => IsHeld(m)'
      BY <2>2 DEF IsHeld
    <3> QED
      BY <1>b, <2>2, <3>1, MessageFrame
  <2> QED
    BY <2>1, <2>2
<1>7. ClosedInv'
  <2>1. UNCHANGED <<conn, calling, answered, peer, taken, arrived>> /\ fut'.phase = "none"
    OBVIOUS
  <2>2. sawClosed' => Dry /\ \A m \in Msgs : ~IsHeld(m)'
    BY <1>a, <1>b DEF ClosedInv
  <2> QED
    BY <2>1, <2>2 DEF ClosedInv, Dry
<1> QED
  BY <1>1, <1>2, <1>3, <1>4, <1>5, <1>6, <1>7

\* The caller drops its future: what its oneshot held is stranded.
LEMMA AbandonStep ==
  ASSUME IInv, Abandon
  PROVE  IInv'
<1> USE BoundsAssumption DEF IInv, Abandon, NoFuture, client, table, rpc, far, history
<1>1. TypeOK'
  <2>1. fut' \in [op : Ops, phase : {"none", "sending", "waiting", "ready"}, result : Results]
    BY DEF Ops, Results, Closed
  <2>2. stranded' \in SUBSET Msgs
    BY DEF TypeOK
  <2> QED
    BY <2>1, <2>2 DEF TypeOK
<1>2. ReleaseInv'
  BY DEF ReleaseInv
<1>3. OrderInv'
  BY DEF OrderInv, Unserved
<1>4. KindInv'
  BY DEF KindInv
<1>5. GateInv'
  BY DEF GateInv, RecvOutstanding
<1>6. MessageInv'
  BY DeliveredFacts
     DEF MessageInv, IsHeld, TypeOK, GateInv, RecvOutstanding, KindInv, ReleaseInv, OrderInv,
     Closed, Msgs
<1>7. ClosedInv'
  BY DEF ClosedInv, Dry, IsHeld
<1> QED
  BY <1>1, <1>2, <1>3, <1>4, <1>5, <1>6, <1>7

\* The handle goes, and its Release with it into a queue that has room.
LEMMA DropHandleStep ==
  ASSUME IInv, DropHandle
  PROVE  IInv'
<1> USE BoundsAssumption DEF IInv, DropHandle, HasRoom, client, table, rpc, far, history
<1>1. TypeOK'
  <2>1. [op |-> "release", call |-> 0] \in Command
    BY DEF Command
  <2>2. cmds' \in Seq(Command) /\ Len(cmds') <= QueueDepth
    BY <2>1, AppendProperties DEF TypeOK
  <2> QED
    BY <2>2 DEF TypeOK
<1>2. ReleaseInv'
  BY AppendProperties, EmptySeq DEF ReleaseInv
<1>3. OrderInv'
  BY AppendProperties, EmptySeq DEF OrderInv, Unserved, TypeOK
<1>4. KindInv'
  BY AppendProperties, EmptySeq DEF KindInv
<1>5. GateInv'
  BY AppendProperties, EmptySeq DEF GateInv, RecvOutstanding
<1>6. MessageInv'
  BY AppendProperties, EmptySeq, DeliveredFacts DEF MessageInv, IsHeld
<1>7. ClosedInv'
  BY AppendProperties, EmptySeq DEF ClosedInv, Dry, IsHeld
<1> QED
  BY <1>1, <1>2, <1>3, <1>4, <1>5, <1>6, <1>7

\* The other handles of the connection go.
LEMMA DropOthersStep ==
  ASSUME IInv, DropOthers
  PROVE  IInv'
<1> USE BoundsAssumption DEF IInv, DropOthers, client, table, rpc, far, history
<1>1. TypeOK'
  <2>1. others' \in BOOLEAN
    OBVIOUS
  <2> QED
    BY <2>1 DEF TypeOK
<1>2. ReleaseInv'
  BY DEF TypeOK, ReleaseInv
<1>3. OrderInv'
  BY DEF TypeOK, OrderInv, Unserved
<1>4. KindInv'
  BY DEF TypeOK, KindInv, OrderInv, Unserved, ReleaseInv
<1>5. GateInv'
  BY DEF TypeOK, GateInv, RecvOutstanding, ReleaseInv, KindInv, OrderInv, Unserved
<1>6. MessageInv'
  BY DeliveredFacts
     DEF TypeOK, MessageInv, IsHeld, GateInv, RecvOutstanding, KindInv, ReleaseInv, OrderInv
<1>7. ClosedInv'
  BY DEF TypeOK, ClosedInv, Dry, IsHeld, MessageInv, GateInv, RecvOutstanding, KindInv,
     ReleaseInv, OrderInv
<1> QED
  BY <1>1, <1>2, <1>3, <1>4, <1>5, <1>6, <1>7

\* The client actor's command loop:
LEMMA RecvFromBufferStep ==
  ASSUME IInv, RecvFromBuffer
  PROVE  IInv'
<1> USE BoundsAssumption DEF IInv, RecvFromBuffer, Handed, Answer, Live, client, table, rpc, far,
   history
<1>0. Serve("recv")
  OBVIOUS
<1>b. /\ recvState.buffer \in Seq(Msgs) /\ recvState.buffer # <<>>
      /\ Len(recvState.buffer) = 1
      /\ Head(recvState.buffer) = recvState.buffer[1]
      /\ Tail(recvState.buffer) = <<>>
      /\ Head(recvState.buffer) \in Msgs
      /\ ~recvState.inFlight
  <2>1. recvState.buffer \in Seq(Msgs) /\ recvState.buffer # <<>>
    BY DEF TypeOK
  <2>2. Len(recvState.buffer) <= 1 /\ ~recvState.inFlight
    BY <2>1 DEF GateInv
  <2> QED
    BY <2>1, <2>2, Singleton
<1>s. /\ fut.phase # "ready"
      /\ \/ /\ fut' = fut /\ recvState' = recvState
         \/ /\ fut.phase = "waiting" /\ fut.op = "recv"
            /\ fut' = [fut EXCEPT !.phase = "ready", !.result = Head(recvState.buffer)]
            /\ recvState' = [recvState EXCEPT !.buffer = <<>>]
  BY <1>0, <1>b, ServedOrder
<1>h. \A m \in Msgs : IsHeld(m)' <=> IsHeld(m)
  BY <1>b, <1>s DEF TypeOK, IsHeld
<1>1. TypeOK'
  <2>1. Len(cmds') <= QueueDepth /\ cmds' \in Seq(Command)
    BY <1>0, ServeFacts DEF TypeOK
  <2>2. Head(recvState.buffer) \in Msgs /\ Tail(recvState.buffer) \in Seq(Msgs)
    BY HeadTailProperties DEF TypeOK
  <2>3. fut' \in [op : Ops, phase : {"none", "sending", "waiting", "ready"}, result : Results]
    BY <2>2 DEF TypeOK, Results
  <2>4. recvState' \in [present : BOOLEAN, inFlight : BOOLEAN,
                       waiter : 0 .. MaxCalls, buffer : Seq(Msgs)]
    BY <2>2 DEF TypeOK
  <2> QED
    BY <2>1, <2>3, <2>4 DEF TypeOK
<1>2. ReleaseInv'
  BY <1>0, ServeFacts, ServedOrder, ServedRelease, HeadTailProperties, EmptySeq DEF ReleaseInv
<1>3. OrderInv'
  BY <1>0, ServeFacts, ServedOrder, HeadTailProperties, EmptySeq DEF OrderInv, Unserved
<1>4. KindInv'
  BY <1>0, ServeFacts, ServedOrder, HeadTailProperties, EmptySeq DEF KindInv
<1>5. GateInv'
  BY <1>b, <1>s, EmptySeq, SMTT(30) DEF GateInv, RecvOutstanding, TypeOK
<1>6. MessageInv'
  <2>1. UNCHANGED <<taken, arrived, delivered, stranded, handle, conn>>
    OBVIOUS
  <2>2. 1 .. taken \subseteq Msgs
    BY DEF TypeOK, Msgs
  <2> QED
    BY <1>h, <2>1, <2>2, DeliveredFacts DEF MessageInv
<1>7. ClosedInv'
  <2>1. fut'.phase = "ready" => fut'.result # Closed
    BY <1>b, <1>s DEF Msgs, Closed, TypeOK
  <2> QED
    BY <1>h, <2>1 DEF ClosedInv, Dry
<1> QED
  BY <1>1, <1>2, <1>3, <1>4, <1>5, <1>6, <1>7

\* A Recv command joins the call in flight.
LEMMA RecvJoinStep ==
  ASSUME IInv, RecvJoin
  PROVE  IInv'
<1> USE BoundsAssumption DEF IInv, RecvJoin, JoinsInFlight, client, table, rpc, far, history
<1>0. Serve("recv")
  OBVIOUS
<1>1. TypeOK'
  <2>1. Len(cmds') <= QueueDepth /\ cmds' \in Seq(Command)
    BY <1>0, ServeFacts DEF TypeOK
  <2>2. Head(cmds).call \in 0 .. MaxCalls
    BY <1>0, ServeFacts DEF Command, ServerCall, Calls
  <2>3. recvState' \in [present : BOOLEAN, inFlight : BOOLEAN,
                       waiter : 0 .. MaxCalls, buffer : Seq(Msgs)]
    BY <2>2 DEF TypeOK
  <2> QED
    BY <2>1, <2>3, SMTT(30) DEF TypeOK
<1>2. ReleaseInv'
  BY <1>0, ServeFacts, ServedOrder, ServedRelease DEF ReleaseInv
<1>3. OrderInv'
  BY <1>0, ServeFacts, ServedOrder DEF OrderInv, Unserved
<1>4. KindInv'
  BY <1>0, ServeFacts, ServedOrder DEF KindInv
<1>5. GateInv'
  BY <1>0, ServeFacts, ServedOrder, ServedRelease DEF GateInv, RecvOutstanding
<1>6. MessageInv'
  BY <1>0, ServeFacts, ServedOrder, ServedRelease, DeliveredFacts DEF MessageInv, IsHeld
<1>7. ClosedInv'
  BY <1>0, ServeFacts, ServedOrder, ServedRelease DEF ClosedInv, Dry, IsHeld
<1> QED
  BY <1>1, <1>2, <1>3, <1>4, <1>5, <1>6, <1>7

\* A Recv command starts one.
LEMMA RecvStartStep ==
  ASSUME IInv, RecvStart
  PROVE  IInv'
<1> USE BoundsAssumption DEF IInv, RecvStart, JoinsInFlight, client, table, rpc, far, history
<1>0. Serve("recv")
  OBVIOUS
<1>c. Head(cmds) \in ServerCall /\ Head(cmds).op = "recv" /\ Issue(Head(cmds))
  BY <1>0, ServeFacts DEF Command
<1>d. /\ \A d \in calling' :
           d \in calling \/ (d = Head(cmds) /\ answered' = answered /\ conn = "up")
      /\ \A a \in answered' :
           \/ a \in answered
           \/ /\ a.op = Head(cmds).op /\ a.call = Head(cmds).call /\ a.result = Closed
              /\ a = [op |-> Head(cmds).op, call |-> Head(cmds).call, result |-> Closed]
              /\ calling' = calling
              /\ registered => conn = "down"
      /\ answered \subseteq answered'
  BY <1>c, IssueFacts
<1>1. TypeOK'
  <2>1. Len(cmds') <= QueueDepth /\ cmds' \in Seq(Command)
    BY <1>0, ServeFacts DEF TypeOK
  <2>2. recvState' \in [present : BOOLEAN, inFlight : BOOLEAN,
                       waiter : 0 .. MaxCalls, buffer : Seq(Msgs)]
    BY <1>c, EmptySeq DEF TypeOK, ServerCall, Calls
  <2> QED
    BY <1>c, <2>1, <2>2, IssueFacts DEF TypeOK
<1>2. ReleaseInv'
  BY <1>0, <1>c, <1>d, ServeFacts, ServedOrder, ServedRelease DEF ReleaseInv
<1>3. OrderInv'
  BY <1>0, <1>c, <1>d, ServeFacts, ServedOrder DEF OrderInv, Unserved
<1>4. KindInv'
  BY <1>0, <1>c, <1>d, ServeFacts, ServedOrder DEF KindInv
<1>5. GateInv'
  BY <1>0, <1>c, <1>d, ServeFacts, ServedOrder, ServedRelease DEF GateInv, RecvOutstanding
<1>h. \A m \in Msgs : IsHeld(m)' <=> IsHeld(m)
  <2>1. fut' = fut /\ recvState.buffer = <<>> /\ recvState'.buffer = <<>>
    OBVIOUS
  <2>2. \A a \in answered' : a \in answered \/ a.result = Closed
    BY <1>d
  <2> QED
    BY <1>d, <2>1, <2>2 DEF IsHeld, Msgs, Closed
<1>6. MessageInv'
  BY <1>h, MessageFrame
<1>7. ClosedInv'
  <2>1. UNCHANGED <<fut, conn, peer, taken, arrived, sawClosed>> /\ registered
    BY <1>0 DEF ReleaseInv, Serve
  <2>2. conn = "down" => calling' = {}
    BY <1>d, <2>1 DEF ClosedInv
  <2>3. \A a \in answered' : a \in answered \/ conn = "down"
    BY <1>d, <2>1
  <2> QED
    BY <1>h, <2>1, <2>2, <2>3 DEF ClosedInv, Dry
<1> QED
  BY <1>1, <1>2, <1>3, <1>4, <1>5, <1>6, <1>7

\* A Send command becomes a call.
LEMMA ServeSendStep ==
  ASSUME IInv, ServeSend
  PROVE  IInv'
<1> USE BoundsAssumption DEF IInv, ServeSend, client, table, rpc, far, history
<1>0. Serve("send")
  OBVIOUS
<1>c. Head(cmds) \in ServerCall /\ Head(cmds).op = "send" /\ Issue(Head(cmds))
  BY <1>0, ServeFacts DEF Command
<1>d. /\ \A d \in calling' :
           d \in calling \/ (d = Head(cmds) /\ answered' = answered /\ conn = "up")
      /\ \A a \in answered' :
           \/ a \in answered
           \/ /\ a.op = Head(cmds).op /\ a.call = Head(cmds).call /\ a.result = Closed
              /\ a = [op |-> Head(cmds).op, call |-> Head(cmds).call, result |-> Closed]
              /\ calling' = calling
              /\ registered => conn = "down"
      /\ answered \subseteq answered'
  BY <1>c, IssueFacts
<1>1. TypeOK'
  <2>1. Len(cmds') <= QueueDepth /\ cmds' \in Seq(Command)
    BY <1>0, ServeFacts DEF TypeOK
  <2> QED
    BY <1>c, <2>1, IssueFacts DEF TypeOK
<1>2. ReleaseInv'
  BY <1>0, <1>c, <1>d, ServeFacts, ServedOrder, ServedRelease DEF ReleaseInv
<1>3. OrderInv'
  BY <1>0, <1>c, <1>d, ServeFacts, ServedOrder DEF OrderInv, Unserved
<1>4. KindInv'
  <2>1. UNCHANGED <<calls, fut, recvState>>
    OBVIOUS
  <2>2. \A c \in calling' : fut.phase = "waiting" /\ c.call = calls => fut.op = c.op
    BY <1>0, <1>c, <1>d, ServedOrder DEF KindInv
  <2>3. \A a \in answered' : fut.phase = "waiting" /\ a.call = calls => fut.op = a.op
    BY <1>0, <1>c, <1>d, ServedOrder DEF KindInv
  <2>4. \A a \in answered' : a.op = "send" => a.result \notin Msgs
    BY <1>d DEF KindInv, Closed, Msgs
  <2> QED
    BY <2>1, <2>2, <2>3, <2>4 DEF KindInv
<1>5. GateInv'
  <2>1. UNCHANGED <<fut, registered, recvState>>
    OBVIOUS
  <2>2. \A c \in calling' : c.op = "recv" => c \in calling
    BY <1>c, <1>d
  <2>3. \A a \in answered' : a.op = "recv" => a \in answered
    BY <1>c, <1>d
  <2> QED
    BY <2>1, <2>2, <2>3 DEF GateInv, RecvOutstanding
<1>h. \A m \in Msgs : IsHeld(m)' <=> IsHeld(m)
  <2>1. UNCHANGED <<fut, recvState>>
    OBVIOUS
  <2>2. \A a \in answered' : a \in answered \/ a.result = Closed
    BY <1>d
  <2> QED
    BY <1>d, <2>1, <2>2 DEF IsHeld, Msgs, Closed
<1>6. MessageInv'
  BY <1>h, MessageFrame
<1>7. ClosedInv'
  <2>1. UNCHANGED <<fut, conn, peer, taken, arrived, sawClosed>> /\ registered
    BY <1>0 DEF ReleaseInv, Serve
  <2>2. conn = "down" => calling' = {}
    BY <1>d, <2>1 DEF ClosedInv
  <2>3. \A a \in answered' : a \in answered \/ conn = "down"
    BY <1>d, <2>1
  <2> QED
    BY <1>h, <2>1, <2>2, <2>3 DEF ClosedInv, Dry
<1> QED
  BY <1>1, <1>2, <1>3, <1>4, <1>5, <1>6, <1>7

\* A Release takes the receive state away.
LEMMA ServeReleaseStep ==
  ASSUME IInv, ServeRelease
  PROVE  IInv'
<1> USE BoundsAssumption DEF IInv, ServeRelease, NoState, client, table, rpc, far, history
<1>0. Serve("release")
  OBVIOUS
<1>1. TypeOK'
  <2>1. Len(cmds') <= QueueDepth /\ cmds' \in Seq(Command)
    BY <1>0, ServeFacts DEF TypeOK
  <2>2. registered' \in BOOLEAN
    OBVIOUS
  <2>3. recvState' \in [present : BOOLEAN, inFlight : BOOLEAN,
                       waiter : 0 .. MaxCalls, buffer : Seq(Msgs)]
    BY EmptySeq
  <2> QED
    BY <2>1, <2>2, <2>3 DEF TypeOK
<1>2. ReleaseInv'
  BY <1>0, ServeFacts, ServedOrder, ServedRelease DEF ReleaseInv
<1>3. OrderInv'
  BY <1>0, ServeFacts, ServedOrder DEF OrderInv, Unserved, TypeOK
<1>4. KindInv'
  BY <1>0, ServeFacts, ServedOrder DEF KindInv, OrderInv, Unserved, ReleaseInv
<1>5. GateInv'
  BY <1>0, ServeFacts, ServedOrder, ServedRelease DEF GateInv, RecvOutstanding
<1>6. MessageInv'
  BY <1>0, ServeFacts, ServedOrder, ServedRelease, DeliveredFacts DEF MessageInv, IsHeld
<1>7. ClosedInv'
  BY <1>0, ServeFacts, ServedOrder, ServedRelease DEF ClosedInv, Dry, IsHeld
<1> QED
  BY <1>1, <1>2, <1>3, <1>4, <1>5, <1>6, <1>7

\* Resuming a recv keeps the type of the receive state.
LEMMA ResumedType ==
  ASSUME TypeOK, NEW buf \in Seq(Msgs)
  PROVE  [recvState EXCEPT !.inFlight = FALSE, !.waiter = 0, !.buffer = buf]
           \in [present : BOOLEAN, inFlight : BOOLEAN,
                waiter : 0 .. MaxCalls, buffer : Seq(Msgs)]
<1>1. 0 \in 0 .. MaxCalls
  BY BoundsAssumption
<1> QED
  BY <1>1 DEF TypeOK

\* The tasks on the actor's LocalSet:
LEMMA RecvTaskDoneStep ==
  ASSUME IInv, RecvTaskDone
  PROVE  IInv'
<1> USE BoundsAssumption DEF IInv, RecvTaskDone, Answer, Live, Resumed, client, table, rpc,
   far, history
<1>a. PICK a \in answered : RecvTaskDone!(a)
  OBVIOUS
<1>b. /\ a \in Answered /\ a.op = "recv" /\ a.result \in Results
      /\ answered' = answered \ {a} /\ answered' \in SUBSET Answered
      /\ recvState.present /\ registered
      /\ recvState.inFlight /\ recvState.buffer = <<>>
      /\ fut.phase = "ready" => fut.op = "send"
  BY <1>a DEF TypeOK, Answered, ReleaseInv, GateInv, RecvOutstanding, Ops
<1>s. \/ /\ fut.phase = "waiting" /\ fut.op = "recv" /\ cmds = <<>>
         /\ fut' = [fut EXCEPT !.phase = "ready", !.result = a.result]
         /\ recvState' = [recvState EXCEPT !.inFlight = FALSE, !.waiter = 0, !.buffer = <<>>]
      \/ /\ fut' = fut /\ a.result \notin Msgs
         /\ recvState' = [recvState EXCEPT !.inFlight = FALSE, !.waiter = 0, !.buffer = <<>>]
      \/ /\ fut' = fut /\ a.result \in Msgs
         /\ recvState' = [recvState EXCEPT !.inFlight = FALSE, !.waiter = 0,
                                          !.buffer = Append(<<>>, a.result)]
  <2>1. fut.phase = "waiting" /\ recvState.waiter = calls => fut.op = "recv" /\ cmds = <<>>
    BY DEF KindInv, OrderInv, Unserved, TypeOK
  <2>2. CASE Live(recvState.waiter)
    BY <1>a, <1>b, <2>1, <2>2 DEF TypeOK
  <2>3. CASE ~Live(recvState.waiter)
    BY <1>a, <1>b, <2>3 DEF TypeOK
  <2> QED
    BY <2>2, <2>3
<1>f. /\ Append(<<>>, a.result)[1] = a.result /\ Append(<<>>, a.result) # <<>>
      /\ Len(Append(<<>>, a.result)) = 1
      /\ a.result \in Msgs => Append(<<>>, a.result) \in Seq(Msgs)
  <2>1. <<>> \in Seq(Results) /\ <<>> \in Seq(Msgs) /\ Len(<<>>) = 0
    BY EmptySeq
  <2> QED
    BY <1>b, <2>1, AppendProperties
<1>h. \A m \in Msgs : IsHeld(m)' <=> IsHeld(m)
  <2>1. \A b \in answered' : b.result \notin Msgs
    BY <1>a, <1>b DEF GateInv, KindInv, TypeOK, Answered, Ops
  <2>2. fut.phase = "ready" => fut.result \notin Msgs
    BY <1>b DEF KindInv
  <2>3. \A m \in Msgs : IsHeld(m) <=> a.result = m
    BY <1>a, <1>b, <2>1, <2>2 DEF IsHeld
  <2>4. \A m \in Msgs : IsHeld(m)' <=> a.result = m
    BY <1>b, <1>s, <1>f, <2>1, <2>2 DEF IsHeld, TypeOK
  <2> QED
    BY <2>3, <2>4
<1>1. TypeOK'
  <2>1. fut' \in [op : Ops, phase : {"none", "sending", "waiting", "ready"}, result : Results]
    BY <1>b, <1>s DEF TypeOK
  <2>2. recvState' \in [present : BOOLEAN, inFlight : BOOLEAN,
                       waiter : 0 .. MaxCalls, buffer : Seq(Msgs)]
    <3>1. <<>> \in Seq(Msgs)
      BY EmptySeq
    <3>2. PICK buf \in Seq(Msgs) :
            recvState' = [recvState EXCEPT !.inFlight = FALSE, !.waiter = 0, !.buffer = buf]
      BY <1>s, <1>f, <3>1
    <3> QED
      BY <3>2, ResumedType
  <2> QED
    BY <1>a, <1>b, <2>1, <2>2 DEF TypeOK
<1>2. ReleaseInv'
  BY AppendProperties, EmptySeq DEF ReleaseInv
<1>3. OrderInv'
  BY AppendProperties, EmptySeq DEF OrderInv, Unserved, TypeOK
<1>4. KindInv'
  BY AppendProperties, EmptySeq DEF KindInv, OrderInv, Unserved, ReleaseInv
<1>5. GateInv'
  BY AppendProperties, EmptySeq DEF GateInv, RecvOutstanding, ReleaseInv, KindInv, OrderInv,
     Unserved
<1>6. MessageInv'
  <2>1. UNCHANGED <<taken, arrived, delivered, stranded, handle, conn>>
    BY <1>a
  <2>2. 1 .. taken \subseteq Msgs
    BY DEF TypeOK, Msgs
  <2> QED
    BY <1>h, <2>1, <2>2, DeliveredFacts DEF MessageInv
<1>7. ClosedInv'
  BY AppendProperties, EmptySeq DEF ClosedInv, Dry, IsHeld
<1> QED
  BY <1>1, <1>2, <1>3, <1>4, <1>5, <1>6, <1>7

\* A task wakes with its channel released.
LEMMA RecvTaskOrphanedStep ==
  ASSUME IInv, RecvTaskOrphaned
  PROVE  IInv'
<1> USE BoundsAssumption DEF IInv, RecvTaskOrphaned, OrphanState, NoState, client, table, rpc,
   far, history
<1>1. TypeOK'
  BY DEF TypeOK
<1>2. ReleaseInv'
  BY DEF ReleaseInv
<1>3. OrderInv'
  BY DEF OrderInv, Unserved, TypeOK
<1>4. KindInv'
  BY DEF KindInv, OrderInv, Unserved, ReleaseInv
<1>5. GateInv'
  BY DEF GateInv, RecvOutstanding
<1>6. MessageInv'
  BY DeliveredFacts DEF MessageInv, IsHeld, GateInv, RecvOutstanding, KindInv, ReleaseInv, OrderInv
<1>7. ClosedInv'
  BY DEF ClosedInv, Dry, IsHeld
<1> QED
  BY <1>1, <1>2, <1>3, <1>4, <1>5, <1>6, <1>7

\* A task answers a send.
LEMMA SendTaskDoneStep ==
  ASSUME IInv, SendTaskDone
  PROVE  IInv'
<1> USE BoundsAssumption DEF IInv, SendTaskDone, Answer, Live, client, table, rpc, far, history
<1>1. TypeOK'
  <2>1. PICK a \in answered : SendTaskDone!(a)
    OBVIOUS
  <2>2. a.result \in Results /\ answered' \in SUBSET Answered
    BY <2>1 DEF TypeOK, Answered
  <2>3. fut' \in [op : Ops, phase : {"none", "sending", "waiting", "ready"}, result : Results]
    BY <2>1, <2>2 DEF TypeOK
  <2> QED
    BY <2>1, <2>2, <2>3 DEF TypeOK
<1>2. ReleaseInv'
  BY DEF ReleaseInv
<1>3. OrderInv'
  BY DEF OrderInv, Unserved, TypeOK
<1>4. KindInv'
  BY DEF KindInv
<1>5. GateInv'
  BY DEF GateInv, RecvOutstanding, ReleaseInv, KindInv, OrderInv, Unserved
<1>a. PICK a \in answered : SendTaskDone!(a)
  OBVIOUS
<1>b. /\ UNCHANGED <<recvState, conn, calling, peer, taken, arrived, sawClosed>>
      /\ answered' = answered \ {a} /\ a.op = "send" /\ a.result \notin Msgs
  BY <1>a DEF KindInv
<1>c. \/ fut' = fut
      \/ /\ fut.phase = "waiting" /\ fut.op = "send"
         /\ fut'.phase = "ready" /\ fut'.op = "send" /\ fut'.result = a.result
  BY <1>a DEF KindInv, TypeOK
<1>h. \A m \in Msgs : IsHeld(m)' <=> IsHeld(m)
  BY <1>b, <1>c DEF IsHeld
<1>6. MessageInv'
  BY <1>b, <1>h, MessageFrame
<1>7. ClosedInv'
  BY <1>b, <1>c, <1>h DEF ClosedInv, Dry
<1> QED
  BY <1>1, <1>2, <1>3, <1>4, <1>5, <1>6, <1>7

\* The actor returns.
LEMMA ActorStopsStep ==
  ASSUME IInv, ActorStops
  PROVE  IInv'
<1> USE BoundsAssumption DEF IInv, ActorStops, LoopEnds, NoState, client, table, rpc, far,
   history
<1>1. TypeOK'
  <2>1. registered' \in BOOLEAN
    OBVIOUS
  <2>2. recvState' \in [present : BOOLEAN, inFlight : BOOLEAN,
                       waiter : 0 .. MaxCalls, buffer : Seq(Msgs)]
    BY EmptySeq
  <2> QED
    BY <2>1, <2>2 DEF TypeOK
<1>2. ReleaseInv'
  BY DEF ReleaseInv
<1>3. OrderInv'
  BY DEF OrderInv, Unserved, TypeOK
<1>4. KindInv'
  BY DEF KindInv, OrderInv, Unserved, ReleaseInv
<1>5. GateInv'
  BY DEF GateInv, RecvOutstanding
<1>6. MessageInv'
  BY DeliveredFacts DEF MessageInv, IsHeld
<1>7. ClosedInv'
  BY DEF ClosedInv, Dry, IsHeld
<1> QED
  BY <1>1, <1>2, <1>3, <1>4, <1>5, <1>6, <1>7

\* The server:
LEMMA AcquireStep ==
  ASSUME IInv, Acquire
  PROVE  IInv'
<1> USE BoundsAssumption DEF IInv, Acquire, client, table, rpc, far, history
<1>1. TypeOK'
  BY DEF TypeOK, ServerCall, Answered, Calls
<1>2. ReleaseInv'
  BY DEF ReleaseInv
<1>3. OrderInv'
  BY DEF OrderInv, Unserved
<1>4. KindInv'
  BY DEF KindInv
<1>5. GateInv'
  BY DEF GateInv, RecvOutstanding
<1>6. MessageInv'
  BY DeliveredFacts DEF MessageInv, IsHeld
<1>7. ClosedInv'
  BY DEF ClosedInv, Dry, IsHeld
<1> QED
  BY <1>1, <1>2, <1>3, <1>4, <1>5, <1>6, <1>7

\* The backend answers a recv.
LEMMA ServerRecvStep ==
  ASSUME IInv, ServerRecv
  PROVE  IInv'
<1> USE BoundsAssumption DEF IInv, ServerRecv, Return, client, table, rpc, far, history
<1>a. PICK c \in calling : ServerRecv!(c)
  OBVIOUS
<1>b. /\ c.op = "recv" /\ recvState.buffer = <<>>
      /\ \A a \in answered : a.result \notin Msgs
      /\ fut.phase = "ready" => fut.result \notin Msgs
  BY <1>a DEF GateInv, RecvOutstanding, KindInv, ReleaseInv, TypeOK, ServerCall, Answered, Ops
<1>1. TypeOK'
  BY SMTT(30) DEF TypeOK, Command, ServerCall, Answered, Calls, Ops, Results, Closed, Failed, Accepted,
     Msgs
<1>2. ReleaseInv'
  BY DEF ReleaseInv
<1>3. OrderInv'
  BY DEF OrderInv, Unserved
<1>4. KindInv'
  BY DEF KindInv
<1>5. GateInv'
  BY DEF GateInv, RecvOutstanding
<1>6. MessageInv'
  <2>1. UNCHANGED <<arrived, delivered, stranded, handle, conn, fut, recvState>>
    BY <1>a
  <2>2. taken \in Nat /\ 1 .. taken \subseteq Msgs /\ \A m \in Msgs : ~IsHeld(m)
    <3>1. taken \in Nat /\ 1 .. taken \subseteq Msgs
      BY DEF TypeOK, Msgs
    <3>2. recvState.buffer = <<>>
      BY <1>b
    <3> QED
      BY <1>b, <3>1, <3>2 DEF IsHeld, Msgs
  <2>3. CASE taken < arrived
    <3> DEFINE r == [op |-> c.op, call |-> c.call, result |-> taken + 1]
    <3>1. taken' = taken + 1 /\ answered' = answered \cup {r} /\ r.result = taken + 1
      BY <1>a, <2>3 DEF TypeOK
    <3>2. \A m \in Msgs : IsHeld(m)' <=> m = taken + 1
      <4> HIDE DEF r
      <4> QED
        BY <1>b, <2>1, <3>1 DEF IsHeld
    <3>3. taken + 1 \in Msgs /\ taken + 1 <= arrived /\ arrived \in Nat
      BY <2>3 DEF TypeOK, Msgs
    <3>4. \A m \in Delivered : m \in Msgs /\ m <= taken
      BY DeliveredFacts DEF MessageInv
    <3>5. \A m \in 1 .. taken + 1 : m \in 1 .. taken \/ m = taken + 1
      BY <2>2
    <3> QED
      BY <2>1, <2>2, <3>1, <3>2, <3>3, <3>4, <3>5, DeliveredFacts DEF MessageInv, Msgs
  <2>4. CASE ~(taken < arrived)
    <3>1. /\ taken' = taken
          /\ answered' = answered \cup {[op |-> c.op, call |-> c.call, result |-> Closed]}
      BY <1>a, <2>4
    <3>2. \A m \in Msgs : ~IsHeld(m)'
      BY <1>b, <2>1, <3>1 DEF IsHeld, Msgs, Closed
    <3> QED
      BY <2>1, <2>2, <3>1, <3>2, DeliveredFacts DEF MessageInv
  <2> QED
    BY <2>3, <2>4
<1>7. ClosedInv'
  <2>1. /\ UNCHANGED <<conn, fut, recvState, peer, arrived, sawClosed>> /\ calling' \subseteq calling
        /\ taken' = taken \/ (taken' = taken + 1 /\ taken < arrived)
    BY <1>a
  <2>2. c \in calling /\ conn # "down" /\ (Dry => ~(taken < arrived))
    BY <1>a DEF ClosedInv, Dry, TypeOK
  <2>3. Dry => taken' = taken /\ Dry'
    BY <2>1, <2>2 DEF Dry
  <2>4. Dry => \A a \in answered' : a \in answered \/ a.result = Closed
    BY <1>a, <2>2
  <2>5. \A a \in answered' : a \in answered \/ a.result = Closed \/ a.result = taken + 1
    BY <1>a
  <2>6. \A a \in answered' : a.op = "recv" /\ a.result = Closed => a \in answered \/ Dry
    BY <1>a DEF Dry, TypeOK, Closed
  <2>7. sawClosed => \A m \in Msgs : ~IsHeld(m)'
    BY <1>b, <2>1, <2>4 DEF ClosedInv, IsHeld, Msgs, Closed
  <2> QED
    BY <2>1, <2>2, <2>3, <2>6, <2>7 DEF ClosedInv
<1> QED
  BY <1>1, <1>2, <1>3, <1>4, <1>5, <1>6, <1>7

\* The backend answers a send.
LEMMA ServerSendStep ==
  ASSUME IInv, ServerSend
  PROVE  IInv'
<1> USE BoundsAssumption DEF IInv, ServerSend, Return, client, table, rpc, far, history
<1>1. TypeOK'
  BY DEF TypeOK, ServerCall, Answered, Calls, Results, Closed, Failed
<1>2. ReleaseInv'
  BY DEF ReleaseInv
<1>3. OrderInv'
  BY DEF OrderInv, Unserved
<1>a. PICK c \in calling, r \in {Accepted, Closed} : c.op = "send" /\ Return(c, r)
  OBVIOUS
<1>b. /\ UNCHANGED <<fut, recvState, conn, peer, taken, arrived, sawClosed>>
      /\ calling' = calling \ {c}
      /\ answered' = answered \cup {[op |-> c.op, call |-> c.call, result |-> r]}
      /\ r \notin Msgs
  BY <1>a DEF Msgs, Closed, Accepted, Failed
<1>h. \A m \in Msgs : IsHeld(m)' <=> IsHeld(m)
  BY <1>b DEF IsHeld
<1>4. KindInv'
  BY <1>b DEF KindInv
<1>5. GateInv'
  BY DEF GateInv, RecvOutstanding
<1>6. MessageInv'
  BY <1>b, <1>h, MessageFrame
<1>7. ClosedInv'
  BY <1>a, <1>b, <1>h DEF ClosedInv, Dry, Closed, Failed
<1> QED
  BY <1>1, <1>2, <1>3, <1>4, <1>5, <1>6, <1>7

\* It fails one.
LEMMA BackendFailsStep ==
  ASSUME IInv, BackendFails
  PROVE  IInv'
<1> USE BoundsAssumption DEF IInv, BackendFails, Return, client, table, rpc, far, history
<1>1. TypeOK'
  BY DEF TypeOK, ServerCall, Answered, Calls, Results, Closed, Failed
<1>2. ReleaseInv'
  BY DEF ReleaseInv
<1>3. OrderInv'
  BY DEF OrderInv, Unserved
<1>a. PICK c \in calling, r \in {Failed} : Return(c, r)
  OBVIOUS
<1>b. /\ UNCHANGED <<fut, recvState, conn, peer, taken, arrived, sawClosed>>
      /\ calling' = calling \ {c}
      /\ answered' = answered \cup {[op |-> c.op, call |-> c.call, result |-> r]}
      /\ r \notin Msgs
  BY <1>a DEF Msgs, Closed, Accepted, Failed
<1>h. \A m \in Msgs : IsHeld(m)' <=> IsHeld(m)
  BY <1>b DEF IsHeld
<1>4. KindInv'
  BY <1>b DEF KindInv
<1>5. GateInv'
  BY DEF GateInv, RecvOutstanding
<1>6. MessageInv'
  BY <1>b, <1>h, MessageFrame
<1>7. ClosedInv'
  BY <1>a, <1>b, <1>h DEF ClosedInv, Dry, Closed, Failed
<1> QED
  BY <1>1, <1>2, <1>3, <1>4, <1>5, <1>6, <1>7

\* The server lets go of a channel nobody holds.
LEMMA ServerDropsBackendStep ==
  ASSUME IInv, ServerDropsBackend
  PROVE  IInv'
<1> USE BoundsAssumption DEF IInv, ServerDropsBackend, client, table, rpc, far, history
<1>1. TypeOK'
  BY DEF TypeOK
<1>2. ReleaseInv'
  BY DEF ReleaseInv
<1>3. OrderInv'
  BY DEF OrderInv, Unserved
<1>4. KindInv'
  BY DEF KindInv
<1>5. GateInv'
  BY DEF GateInv, RecvOutstanding
<1>6. MessageInv'
  BY DeliveredFacts DEF MessageInv, IsHeld
<1>7. ClosedInv'
  BY DEF ClosedInv, Dry, IsHeld
<1> QED
  BY <1>1, <1>2, <1>3, <1>4, <1>5, <1>6, <1>7

\* The connection and the peer:
LEMMA DisconnectStep ==
  ASSUME IInv, Disconnect
  PROVE  IInv'
<1> USE BoundsAssumption DEF IInv, Disconnect, client, table, rpc, far, history
<1>1. TypeOK'
  BY DEF TypeOK, ServerCall, Answered, Calls, Results, Closed, Failed
<1>2. ReleaseInv'
  BY DEF ReleaseInv
<1>3. OrderInv'
  BY DEF OrderInv, Unserved
<1>4. KindInv'
  BY DEF KindInv, TypeOK, OrderInv, Unserved, ReleaseInv, Closed, Msgs
<1>5. GateInv'
  BY DEF GateInv, RecvOutstanding
<1>h. \A m \in Msgs : IsHeld(m)' => IsHeld(m)
  <2>1. UNCHANGED <<fut, recvState>>
    OBVIOUS
  <2>2. \A a \in answered' : a \in answered \/ a.result = Closed
    OBVIOUS
  <2> QED
    BY <2>1, <2>2 DEF IsHeld, Msgs, Closed
<1>6. MessageInv'
  BY <1>h, MessageFrame
<1>7. ClosedInv'
  BY <1>h DEF ClosedInv, Dry
<1> QED
  BY <1>1, <1>2, <1>3, <1>4, <1>5, <1>6, <1>7

\* The peer sends.
LEMMA PeerSendStep ==
  ASSUME IInv, PeerSend
  PROVE  IInv'
<1> USE BoundsAssumption DEF IInv, PeerSend, client, table, rpc, far, history
<1>1. TypeOK'
  BY DEF TypeOK
<1>2. ReleaseInv'
  BY DEF ReleaseInv
<1>3. OrderInv'
  BY DEF OrderInv, Unserved
<1>4. KindInv'
  BY DEF KindInv
<1>5. GateInv'
  BY DEF GateInv, RecvOutstanding
<1>6. MessageInv'
  BY DeliveredFacts DEF MessageInv, IsHeld, TypeOK
<1>7. ClosedInv'
  BY DEF ClosedInv, Dry, IsHeld
<1> QED
  BY <1>1, <1>2, <1>3, <1>4, <1>5, <1>6, <1>7

\* The peer receives.
LEMMA PeerRecvStep ==
  ASSUME IInv, PeerRecv
  PROVE  IInv'
<1> USE BoundsAssumption DEF IInv, PeerRecv, client, table, rpc, far, history
<1>1. TypeOK'
  BY DEF TypeOK
<1>2. ReleaseInv'
  BY DEF ReleaseInv
<1>3. OrderInv'
  BY DEF OrderInv, Unserved
<1>4. KindInv'
  BY DEF KindInv
<1>5. GateInv'
  BY DEF GateInv, RecvOutstanding
<1>6. MessageInv'
  BY DeliveredFacts DEF MessageInv, IsHeld
<1>7. ClosedInv'
  BY DEF ClosedInv, Dry, IsHeld
<1> QED
  BY <1>1, <1>2, <1>3, <1>4, <1>5, <1>6, <1>7

\* The peer closes.
LEMMA PeerCloseStep ==
  ASSUME IInv, PeerClose
  PROVE  IInv'
<1> USE BoundsAssumption DEF IInv, PeerClose, client, table, rpc, far, history
<1>1. TypeOK'
  BY DEF TypeOK
<1>2. ReleaseInv'
  BY DEF ReleaseInv
<1>3. OrderInv'
  BY DEF OrderInv, Unserved
<1>4. KindInv'
  BY DEF KindInv
<1>5. GateInv'
  BY DEF GateInv, RecvOutstanding
<1>6. MessageInv'
  BY DeliveredFacts DEF MessageInv, IsHeld
<1>7. ClosedInv'
  BY DEF ClosedInv, Dry, IsHeld
<1> QED
  BY <1>1, <1>2, <1>3, <1>4, <1>5, <1>6, <1>7

\* The initial states satisfy the inductive invariant.
LEMMA InitInvariant == Init => IInv
<1> SUFFICES ASSUME Init PROVE IInv
  OBVIOUS
<1> USE BoundsAssumption DEF Init, NoFuture, NoState
<1>1. TypeOK
  <2>1. <<>> \in Seq(Command) /\ <<>> \in Seq(Msgs) /\ Len(<<>>) = 0
    BY EmptySeq
  <2>2. recvState \in [present : BOOLEAN, inFlight : BOOLEAN,
                      waiter : 0 .. MaxCalls, buffer : Seq(Msgs)]
    BY <2>1
  <2>3. fut \in [op : Ops, phase : {"none", "sending", "waiting", "ready"}, result : Results]
    BY DEF Ops, Results
  <2>4. registered \in BOOLEAN /\ sawClosed \in BOOLEAN
    OBVIOUS
  <2> QED
    BY <2>1, <2>2, <2>3, <2>4 DEF TypeOK
<1>2. ReleaseInv /\ OrderInv /\ KindInv /\ GateInv
  BY DEF ReleaseInv, OrderInv, Unserved, KindInv, GateInv, RecvOutstanding
<1>3. MessageInv /\ ClosedInv
  <2>1. Delivered = {}
    BY DEF Delivered
  <2> QED
    BY <2>1 DEF MessageInv, ClosedInv, IsHeld, Dry, Msgs
<1> QED
  BY <1>1, <1>2, <1>3 DEF IInv

\* A stuttering step preserves the inductive invariant.
LEMMA StutterInvariant == IInv /\ UNCHANGED vars => IInv'
<1> SUFFICES ASSUME IInv, UNCHANGED vars PROVE IInv'
  OBVIOUS
<1> USE DEF vars, client, table, rpc, far, history
<1>1. TypeOK'
  BY DEF IInv, TypeOK
<1>2. ReleaseInv' /\ OrderInv' /\ KindInv' /\ GateInv'
  BY DEF IInv, ReleaseInv, OrderInv, Unserved, KindInv, GateInv, RecvOutstanding
<1>3. MessageInv' /\ ClosedInv'
  BY DeliveredFacts DEF IInv, MessageInv, ClosedInv, IsHeld, Dry
<1> QED
  BY <1>1, <1>2, <1>3 DEF IInv

\* Every step preserves the inductive invariant.
LEMMA StepInvariant == IInv /\ [Next]_vars => IInv'
<1> SUFFICES ASSUME IInv, Next PROVE IInv'
  BY StutterInvariant
<1>1. ASSUME NEW op \in Ops, Call(op) PROVE IInv'
  BY <1>1, CallStep
<1>2. CASE Enqueue \/ Poll \/ Abandon \/ DropHandle \/ DropOthers
  BY <1>2, EnqueueStep, PollStep, AbandonStep, DropHandleStep, DropOthersStep
<1>3. CASE ServeCommand
  BY <1>3, RecvFromBufferStep, RecvJoinStep, RecvStartStep, ServeSendStep, ServeReleaseStep
     DEF ServeCommand
<1>4. CASE ResumeTask \/ ActorStops
  BY <1>4, RecvTaskDoneStep, RecvTaskOrphanedStep, SendTaskDoneStep, ActorStopsStep
     DEF ResumeTask
<1>5. CASE ServerStep \/ BackendFails \/ ServerDropsBackend
  BY <1>5, AcquireStep, ServerRecvStep, ServerSendStep, BackendFailsStep, ServerDropsBackendStep
     DEF ServerStep
<1>6. CASE Disconnect \/ PeerSend \/ PeerRecv \/ PeerClose
  BY <1>6, DisconnectStep, PeerSendStep, PeerRecvStep, PeerCloseStep
<1> QED
  BY <1>1, <1>2, <1>3, <1>4, <1>5, <1>6 DEF Next

\* The inductive invariant holds in every reachable state, whatever the caller
\* drops, the peer sends, and the connection does.
THEOREM InvariantHolds == Spec => []IInv
<1> QED
  BY InitInvariant, StepInvariant, PTL DEF Spec

\* Every variable keeps its type: no command goes over the queue's depth and no
\* message over the backend's buffer.
THEOREM TypeCorrect == Spec => []TypeOK
<1>1. IInv => TypeOK
  BY DEF IInv
<1> QED
  BY <1>1, InvariantHolds, PTL

\* The gate of inFlight gives exclusiveness.
LEMMA InvExclusive == IInv => RecvExclusive
  BY DEF IInv, GateInv, RecvExclusive, RecvCalls

\* At most one capnp recv is outstanding for a channel, however its caller drops
\* and repeats recv (RecvState::in_flight in client_actor).
THEOREM ExclusiveHolds == Spec => []RecvExclusive
<1> QED
  BY InvExclusive, InvariantHolds, PTL

\* Held, a set, and IsHeld, a predicate, say the same of a message.
LEMMA HeldCharacterized ==
  ASSUME IInv
  PROVE  \A m : m \in Held <=> m \in Msgs /\ IsHeld(m)
<1>1. \A m : m \in Buffered <=> m \in Msgs /\ recvState.buffer # <<>> /\ recvState.buffer[1] = m
  <2>1. CASE recvState.buffer = <<>>
    BY <2>1 DEF Buffered
  <2>2. CASE recvState.buffer # <<>>
    <3>1. recvState.buffer \in Seq(Msgs) /\ Len(recvState.buffer) <= 1
      BY DEF IInv, TypeOK, GateInv
    <3>2. DOMAIN recvState.buffer = 1 .. 1 /\ recvState.buffer[1] \in Msgs
      BY <2>2, <3>1, Singleton, LenProperties
    <3> QED
      BY <2>2, <3>2 DEF Buffered
  <2> QED
    BY <2>1, <2>2
<1>2. \A m : m \in Travelling <=> m \in Msgs /\ \E a \in answered : a.result = m
  BY DEF Travelling
<1>3. \A m : m \in InOneshot <=> m \in Msgs /\ fut.phase = "ready" /\ fut.result = m
  BY DEF InOneshot
<1> QED
  BY <1>1, <1>2, <1>3 DEF Held, IsHeld

\* MessageInv gives the read-ahead of one.
LEMMA InvOneHeld == IInv => OneMessageHeld
  BY HeldCharacterized DEF IInv, MessageInv, OneMessageHeld

\* The bridge holds at most the newest message taken from the backend (buffer,
\* answer or oneshot, never two of them with different messages).
THEOREM OneMessageHolds == Spec => []OneMessageHeld
<1> QED
  BY InvOneHeld, InvariantHolds, PTL

\* MessageInv gives the absence of silent loss.
LEMMA InvNoLoss == IInv => NoSilentLoss
<1> SUFFICES ASSUME IInv, handle = "open", conn = "up", NEW m \in 1 .. taken
             PROVE  m \in Delivered \cup Held \cup stranded
  BY DEF NoSilentLoss
<1>1. m \in Msgs
  BY BoundsAssumption DEF IInv, TypeOK, Msgs
<1> QED
  BY <1>1, HeldCharacterized DEF IInv, MessageInv

\* While handle and connection live, a message taken from the backend has been
\* returned by recv, is held for the next recv, or went with a future dropped
\* after its oneshot was filled: dropping a recv that still waits loses nothing.
THEOREM NoSilentLossHolds == Spec => []NoSilentLoss
<1> QED
  BY InvNoLoss, InvariantHolds, PTL

\* ReleaseInv keeps a released channel without a receive state.
LEMMA InvNoResurrection == IInv => NoResurrection
  BY DEF IInv, ReleaseInv, NoResurrection

\* No task brings a released channel's receive state back (the get_mut in the
\* Recv task of client_actor).
THEOREM NoResurrectionHolds == Spec => []NoResurrection
<1> QED
  BY InvNoResurrection, InvariantHolds, PTL

\* Only a poll of a filled oneshot delivers a message.
LEMMA DeliveryStep ==
  ASSUME IInv, [Next]_vars, delivered' # delivered
  PROVE  Poll /\ fut.result \in Msgs /\ delivered' = Append(delivered, fut.result)
<1>1. Next /\ ~UNCHANGED vars
  BY DEF vars, history
<1>2. Poll
  BY <1>1 DEF Next, ServeCommand, ResumeTask, ServerStep, Call, Enqueue, Abandon, DropHandle,
     DropOthers, RecvFromBuffer, RecvJoin, RecvStart, ServeSend, ServeRelease, RecvTaskDone,
     RecvTaskOrphaned, SendTaskDone, ActorStops, Acquire, ServerRecv, ServerSend,
     BackendFails, ServerDropsBackend, Disconnect, PeerSend, PeerRecv, PeerClose, history
<1> QED
  BY <1>2 DEF Poll

\* What a poll delivers is newer than everything delivered before.
LEMMA OrderedStep == IInv /\ DeliveredInOrder /\ [Next]_vars => DeliveredInOrder'
<1> SUFFICES ASSUME IInv, DeliveredInOrder, [Next]_vars PROVE DeliveredInOrder'
  OBVIOUS
<1>1. CASE delivered' = delivered
  BY <1>1 DEF DeliveredInOrder
<1>2. CASE delivered' # delivered
  <2>1. PICK m \in Msgs : IsHeld(m) /\ delivered' = Append(delivered, m)
    BY <1>2, DeliveryStep DEF Poll, IsHeld
  <2>2. \A n \in Delivered : n < m
    <3> SUFFICES ASSUME NEW n \in Delivered PROVE n < m
      OBVIOUS
    <3>1. m = taken /\ n <= taken /\ n # m
      BY <2>1 DEF IInv, MessageInv
    <3>2. n \in Int /\ m \in Int
      BY DeliveredFacts DEF IInv, Msgs
    <3> QED
      BY <3>1, <3>2
  <2>3. /\ Len(delivered) \in Nat /\ DOMAIN delivered = 1 .. Len(delivered)
        /\ DOMAIN delivered' = 1 .. Len(delivered) + 1
        /\ \A i \in 1 .. Len(delivered) : delivered'[i] = delivered[i]
        /\ delivered'[Len(delivered) + 1] = m
    BY <2>1 DEF IInv, TypeOK
  <2> SUFFICES ASSUME NEW i \in DOMAIN delivered', NEW j \in DOMAIN delivered', i < j
               PROVE  delivered'[i] < delivered'[j]
    BY DEF DeliveredInOrder
  <2>4. i \in 1 .. Len(delivered)
    BY <2>3
  <2>5. CASE j \in 1 .. Len(delivered)
    BY <2>3, <2>4, <2>5 DEF DeliveredInOrder
  <2>6. CASE j = Len(delivered) + 1
    BY <2>2, <2>3, <2>4, <2>6 DEF Delivered
  <2> QED
    BY <2>3, <2>5, <2>6
<1> QED
  BY <1>1, <1>2

\* recv returns messages in the order the peer sent them, none twice, whatever the
\* caller dropped, for any number of futures and messages.
THEOREM DeliveredInOrderHolds == Spec => []DeliveredInOrder
<1>1. Init => DeliveredInOrder
  BY DEF Init, DeliveredInOrder
<1> QED
  BY <1>1, OrderedStep, InvariantHolds, PTL DEF Spec

\* Once a recv returned Closed, no later recv returns a message.
THEOREM ClosedIsFinalHolds == Spec => ClosedIsFinal
<1>1. IInv /\ [Next]_vars => [sawClosed => delivered' = delivered]_vars
  <2> SUFFICES ASSUME IInv, [Next]_vars, sawClosed, delivered' # delivered
               PROVE  FALSE
    OBVIOUS
  <2>1. fut.result \in Msgs /\ IsHeld(fut.result)
    BY DeliveryStep DEF Poll, IsHeld
  <2> QED
    BY <2>1 DEF IInv, ClosedInv
<1> QED
  BY <1>1, InvariantHolds, PTL DEF Spec, ClosedIsFinal
=============================================================================
