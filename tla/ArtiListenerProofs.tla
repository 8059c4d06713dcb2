------------------------- MODULE ArtiListenerProofs -------------------------
(***************************************************************************)
(* The deferred bootstrap and the arti listener, for any callers,          *)
(* descriptors, requests and circuits.                                     *)
(*                                                                         *)
(* The safety of LazyArti rests on the permit: only its holder is past the *)
(* queue, nobody holds it once the cell is full, and a running attempt is  *)
(* for the descriptor still pending unless one was installed since it      *)
(* began.                                                                  *)
(*                                                                         *)
(* For the listener, together with the types, `Placed` is inductive: it    *)
(* ties the places a request can be in to its fate.  The bootstrap under   *)
(* it takes the steps of LazyArti and no others, so the theorems of        *)
(* LazyArti hold here too.                                                 *)
(***************************************************************************)
EXTENDS ArtiListener, SequenceTheorems, TLAPS

(***************************************************************************)
(* The deferred bootstrap.                                                 *)
(***************************************************************************)
\* Whoever is past the queue holds the permit, and a full cell needs no holder.
PermitInv ==
  /\ \A c \in Callers : pc[c] \in {"granted", "booting"} => holder = c
  /\ booted # NoNet => holder = NoOne

\* A running attempt is for the pending descriptor, unless one came during it.
AttemptInv ==
  \A c \in Callers : pc[c] = "booting" /\ ~raced => attempt = pending

\* The inductive invariant.
IInv == TypeOK /\ PermitInv /\ AttemptInv /\ ConfigureApplies

\* Passing the permit keeps the types, and leaves nobody past the queue but
\* the caller that now holds it.
LEMMA PassFacts ==
  ASSUME TypeOK, PermitInv, NEW c \in Callers, NEW outcome \in Done,
         holder \in {c, NoOne}, PassPermit(c, outcome)
  PROVE  /\ pc' \in [Callers -> Busy \cup Done]
         /\ queue' \in Seq(Callers) /\ holder' \in Callers \cup {NoOne}
         /\ \A d \in Callers : pc'[d] \in {"granted", "booting"} => holder' = d
         /\ \A d \in Callers : pc'[d] # "booting"
<1>1. CASE queue = <<>>
  BY <1>1, InputsAssumption DEF PassPermit, TypeOK, PermitInv, Busy, Done
<1>2. CASE queue # <<>>
  <2>1. Head(queue) \in Callers /\ Tail(queue) \in Seq(Callers)
    BY <1>2, HeadTailProperties DEF TypeOK
  <2> QED
    BY <1>2, <2>1, InputsAssumption DEF PassPermit, TypeOK, PermitInv, Busy, Done
<1> QED
  BY <1>1, <1>2

\* Starting the initializer, with the permit free or passed to the caller.
LEMMA InitializeStep ==
  ASSUME IInv, NEW c \in Callers, booted = NoNet, holder \in {c, NoOne}, Initialize(c)
  PROVE  IInv'
<1>1. CASE pending \in Unbuildable
  <2>1. PassPermit(c, "rejected") /\ "rejected" \in Done
    BY <1>1 DEF Initialize, Rejected, Done
  <2>2. UNCHANGED <<attempt, raced, pending, booted>>
    BY <1>1 DEF Initialize, Rejected
  <2>3. TypeOK' /\ PermitInv' /\ AttemptInv'
    BY <2>1, <2>2, PassFacts DEF IInv, TypeOK, PermitInv, AttemptInv
  <2> QED
    BY <2>2, <2>3 DEF IInv, ConfigureApplies
<1>2. CASE pending \notin Unbuildable
  <2>1. /\ pc' = [pc EXCEPT ![c] = "booting"] /\ holder' = c
        /\ attempt' = pending /\ raced' = FALSE
        /\ UNCHANGED <<queue, pending, booted>>
    BY <1>2 DEF Initialize, Rejected
  <2>2. TypeOK'
    BY <1>2, <2>1 DEF IInv, TypeOK, Busy
  <2>3. PermitInv' /\ AttemptInv'
    BY <2>1, InputsAssumption DEF IInv, TypeOK, PermitInv, AttemptInv
  <2> QED
    BY <2>1, <2>2, <2>3 DEF IInv, ConfigureApplies
<1> QED
  BY <1>1, <1>2

\* Handing the client in the cell to a caller.
LEMMA ServedStep ==
  ASSUME IInv, NEW c \in Callers, booted # NoNet, Served(c)
  PROVE  IInv'
<1>1. TypeOK' /\ PermitInv' /\ AttemptInv'
  BY DEF Served, IInv, TypeOK, PermitInv, AttemptInv, Done
<1>2. ConfigureApplies'
  BY DEF Served, IInv, TypeOK, ConfigureApplies
<1> QED
  BY <1>1, <1>2 DEF IInv

\* A caller that finds the permit taken waits behind the others.
LEMMA CallStep ==
  ASSUME IInv, NEW c \in Callers, Call(c)
  PROVE  IInv'
<1>1. CASE booted # NoNet /\ Served(c)
  BY <1>1, ServedStep
<1>2. CASE booted = NoNet /\ PermitFree /\ Initialize(c)
  BY <1>2, InitializeStep DEF PermitFree
<1>3. CASE booted = NoNet /\ ~PermitFree
  <2>1. /\ pc' = [pc EXCEPT ![c] = "queued"] /\ queue' = Append(queue, c)
        /\ UNCHANGED <<holder, pending, attempt, booted, raced>>
    BY <1>3 DEF Call, CellEmpty
  <2>2. queue' \in Seq(Callers)
    BY <2>1, AppendProperties DEF IInv, TypeOK
  <2> QED
    BY <2>1, <2>2
       DEF IInv, TypeOK, PermitInv, AttemptInv, ConfigureApplies, Busy
<1> QED
  BY <1>1, <1>2, <1>3 DEF Call, CellEmpty

\* The successful attempt fills the cell and serves everyone in the queue.
LEMMA BootOkStep ==
  ASSUME IInv, NEW c \in Callers, BootOk(c)
  PROVE  IInv'
<1>1. booted = NoNet /\ \A d \in Callers : d # c => pc[d] \notin {"granted", "booting"}
  BY InputsAssumption DEF BootOk, IInv, PermitInv
<1>2. TypeOK'
  BY EmptySeq DEF BootOk, IInv, TypeOK, Done
<1>3. PermitInv' /\ AttemptInv'
  BY <1>1 DEF BootOk, IInv, TypeOK, PermitInv, AttemptInv
<1>4. ConfigureApplies'
  BY DEF BootOk, IInv, AttemptInv, ConfigureApplies
<1> QED
  BY <1>2, <1>3, <1>4 DEF IInv

\* A failed attempt passes the permit to the next in the queue.
LEMMA BootFailStep ==
  ASSUME IInv, NEW c \in Callers, BootFail(c)
  PROVE  IInv'
<1>1. PassPermit(c, "failed") /\ "failed" \in Done /\ holder = c
  BY DEF BootFail, Done, IInv, PermitInv
<1>2. UNCHANGED <<pending, attempt, booted, raced>> /\ booted = NoNet
  BY <1>1, InputsAssumption DEF BootFail, IInv, PermitInv
<1>3. TypeOK' /\ PermitInv' /\ AttemptInv'
  BY <1>1, <1>2, PassFacts DEF IInv, TypeOK, PermitInv, AttemptInv
<1> QED
  BY <1>2, <1>3 DEF IInv, ConfigureApplies

\* Leaving the queue keeps it a sequence of callers.
LEMMA WithoutType ==
  ASSUME NEW c \in Callers, queue \in Seq(Callers)
  PROVE  Without(c) \in Seq(Callers)
<1> DEFINE at == {i \in 1 .. Len(queue) : queue[i] = c}
           i == CHOOSE j \in at : TRUE
<1>1. CASE at = {}
  BY <1>1 DEF Without
<1>2. CASE at # {}
  <2>1. i \in 1 .. Len(queue)
    BY <1>2
  <2>2. Without(c) = SubSeq(queue, 1, i - 1) \o SubSeq(queue, i + 1, Len(queue))
    BY <1>2 DEF Without
  <2> HIDE DEF i
  <2>3. /\ Len(queue) \in Int /\ i - 1 \in Int /\ i + 1 \in Int
        /\ \A j \in 1 .. i - 1 : queue[j] \in Callers
        /\ \A j \in i + 1 .. Len(queue) : queue[j] \in Callers
    BY <2>1, ElementOfSeq, LenProperties
  <2>4. SubSeq(queue, 1, i - 1) \in Seq(Callers)
    BY <2>3, SubSeqProperties
  <2>5. SubSeq(queue, i + 1, Len(queue)) \in Seq(Callers)
    BY <2>3, SubSeqProperties
  <2> QED
    BY <2>2, <2>4, <2>5, ConcatProperties
<1> QED
  BY <1>1, <1>2

\* A caller that is dropped leaves the queue, or passes the permit it held.
LEMMA CancelStep ==
  ASSUME IInv, NEW c \in Callers, Cancel(c)
  PROVE  IInv'
<1>1. UNCHANGED <<pending, attempt, booted, raced>>
  BY DEF Cancel
<1>2. CASE pc[c] \in {"granted", "booting"} /\ PassPermit(c, "idle")
  <2>1. holder = c /\ booted = NoNet /\ "idle" \in Done
    BY <1>2, InputsAssumption DEF IInv, PermitInv, Done
  <2>2. TypeOK' /\ PermitInv' /\ AttemptInv'
    BY <1>1, <1>2, <2>1, PassFacts DEF IInv, TypeOK, PermitInv, AttemptInv
  <2> QED
    BY <1>1, <2>2 DEF IInv, ConfigureApplies
<1>3. CASE pc' = [pc EXCEPT ![c] = "idle"] /\ queue' = Without(c) /\ UNCHANGED holder
  <2>1. queue' \in Seq(Callers)
    BY <1>3, WithoutType DEF IInv, TypeOK
  <2> QED
    BY <1>1, <1>3, <2>1
       DEF IInv, TypeOK, PermitInv, AttemptInv, ConfigureApplies, Done
<1> QED
  BY <1>2, <1>3 DEF Cancel

\* A new descriptor replaces the pending one, as long as the cell is empty.
LEMMA ConfigureStep ==
  ASSUME IInv, NEW d \in Buildable \cup Unbuildable, Configure(d)
  PROVE  IInv'
<1>1. raced' \in BOOLEAN
  BY DEF Configure
<1>2. TypeOK'
  BY <1>1 DEF Configure, IInv, TypeOK, Nets
<1>3. PermitInv' /\ ConfigureApplies'
  BY DEF Configure, Configurable, IInv, PermitInv, ConfigureApplies
<1>4. AttemptInv'
  BY DEF Configure, AttemptInv
<1> QED
  BY <1>2, <1>3, <1>4 DEF IInv

\* Every step preserves the inductive invariant.
LEMMA StepInvariant == IInv /\ [Next]_vars => IInv'
<1> SUFFICES ASSUME IInv, [Next]_vars PROVE IInv'
  OBVIOUS
<1>1. ASSUME NEW c \in Callers, Call(c) PROVE IInv'
  BY <1>1, CallStep
<1>2. ASSUME NEW c \in Callers, Enter(c) PROVE IInv'
  BY <1>2, InitializeStep, InputsAssumption DEF Enter, IInv, PermitInv
<1>3. ASSUME NEW c \in Callers, BootOk(c) PROVE IInv'
  BY <1>3, BootOkStep
<1>4. ASSUME NEW c \in Callers, Join(c) PROVE IInv'
  BY <1>4, ServedStep DEF Join
<1>5. ASSUME NEW c \in Callers, BootFail(c) PROVE IInv'
  BY <1>5, BootFailStep
<1>6. ASSUME NEW c \in Callers, Cancel(c) PROVE IInv'
  BY <1>6, CancelStep
<1>7. ASSUME NEW d \in Buildable \cup Unbuildable, Configure(d) PROVE IInv'
  BY <1>7, ConfigureStep
<1>8. CASE UNCHANGED vars
  BY <1>8 DEF vars, IInv, TypeOK, PermitInv, AttemptInv, ConfigureApplies
<1> QED
  BY <1>1, <1>2, <1>3, <1>4, <1>5, <1>6, <1>7, <1>8 DEF Next

\* The inductive invariant holds at first.
LEMMA InitInvariant == Init => IInv
<1> SUFFICES ASSUME Init PROVE IInv
  OBVIOUS
<1>1. TypeOK
  BY EmptySeq DEF Init, TypeOK, Nets, Done
<1> QED
  BY <1>1 DEF Init, IInv, PermitInv, AttemptInv, ConfigureApplies

\* The inductive invariant holds throughout, for any callers and descriptors.
THEOREM InvariantHolds == Spec => []IInv
<1> QED
  BY InitInvariant, StepInvariant, PTL DEF Spec

\* The types hold for any callers and descriptors: the permit and the queue name
\* callers only, and arti never starts on a descriptor that does not build
\* (LazyInner::get).
THEOREM TypeCorrect == Spec => []TypeOK
<1>1. IInv => TypeOK
  BY DEF IInv
<1> QED
  BY <1>1, InvariantHolds, PTL

\* One bootstrap at a time, and none after the one that succeeded
\* (LazyInner::get over tokio's OnceCell).
THEOREM OneBootstrapHolds == Spec => []OneBootstrap
<1>1. IInv => OneBootstrap
  BY InputsAssumption DEF IInv, PermitInv, OneBootstrap
<1> QED
  BY <1>1, InvariantHolds, PTL

\* The last descriptor configure_private_net accepted is the network arti runs
\* on, unless it came while the successful bootstrap was running.
THEOREM ConfigureAppliesHolds == Spec => []ConfigureApplies
<1>1. IInv => ConfigureApplies
  BY DEF IInv
<1> QED
  BY <1>1, InvariantHolds, PTL

(***************************************************************************)
(* The listener over it.                                                   *)
(***************************************************************************)
\* The inductive invariant of the listener.
OnionInv == OnionTypeOK /\ Placed

\* A request joins the end of the queue.
LEMMA DialStep ==
  ASSUME OnionInv, NEW r \in Requests, Dial(r)
  PROVE  OnionInv'
<1>1. /\ fate[r] = "unsent" /\ incoming' = Append(incoming, r)
      /\ fate' = [fate EXCEPT ![r] = "queued"] /\ UNCHANGED <<listener, accept, dead>>
  BY DEF Dial
<1>2. /\ incoming' \in Seq(Requests) /\ Len(incoming') = Len(incoming) + 1
      /\ Len(incoming) \in Nat /\ incoming'[Len(incoming) + 1] = r
      /\ \A i \in 1 .. Len(incoming) : incoming'[i] = incoming[i]
  BY <1>1 DEF OnionInv, OnionTypeOK
<1>3. OnionTypeOK'
  BY <1>1, <1>2 DEF OnionInv, OnionTypeOK, Fates
<1>4. \A i \in 1 .. Len(incoming) : incoming[i] # r
  BY <1>1 DEF OnionInv, Placed
<1>5. \A i, j \in 1 .. Len(incoming') : incoming'[i] = incoming'[j] => i = j
  BY <1>2, <1>4 DEF OnionInv, Placed
<1>6. \A q \in Requests :
        fate'[q] = "queued" <=> \E i \in 1 .. Len(incoming') : incoming'[i] = q
  <2> SUFFICES ASSUME NEW q \in Requests
               PROVE  fate'[q] = "queued" <=> \E i \in 1 .. Len(incoming') : incoming'[i] = q
    OBVIOUS
  <2>1. CASE q = r
    <3>1. Len(incoming) + 1 \in 1 .. Len(incoming')
      BY <1>2
    <3> QED
      BY <2>1, <3>1, <1>1, <1>2 DEF OnionInv, OnionTypeOK
  <2>2. CASE q # r
    <3>1. fate'[q] = fate[q]
      BY <2>2, <1>1 DEF OnionInv, OnionTypeOK
    <3>2. (\E i \in 1 .. Len(incoming') : incoming'[i] = q)
            <=> \E i \in 1 .. Len(incoming) : incoming[i] = q
      BY <2>2, <1>2
    <3> QED
      BY <3>1, <3>2 DEF OnionInv, Placed
  <2> QED
    BY <2>1, <2>2
<1>7. \A q \in Requests : /\ fate'[q] = "taken" <=> accept' = q
                          /\ fate'[q] \in {"taken", "served"} => q \in RightPort
  BY <1>1 DEF OnionInv, OnionTypeOK, Placed
<1> QED
  BY <1>3, <1>5, <1>6, <1>7 DEF OnionInv, Placed

\* The head of the queue goes, to accept or refused.
LEMMA HeadGoes ==
  ASSUME OnionInv, incoming # <<>>, NEW outcome \in {"taken", "refused"},
         incoming' = Tail(incoming), fate' = [fate EXCEPT ![Head(incoming)] = outcome]
  PROVE  /\ Head(incoming) \in Requests /\ fate[Head(incoming)] = "queued"
         /\ incoming' \in Seq(Requests) /\ fate' \in [Requests -> Fates]
         /\ \A i, j \in 1 .. Len(incoming') : incoming'[i] = incoming'[j] => i = j
         /\ \A q \in Requests :
              fate'[q] = "queued" <=> \E i \in 1 .. Len(incoming') : incoming'[i] = q
<1> DEFINE r == Head(incoming)
<1>1. /\ Len(incoming) \in Nat \ {0} /\ r = incoming[1] /\ r \in Requests
      /\ incoming' \in Seq(Requests) /\ Len(incoming') = Len(incoming) - 1
      /\ \A i \in 1 .. Len(incoming') : i + 1 \in 1 .. Len(incoming) /\ incoming'[i] = incoming[i + 1]
  BY DEF OnionInv, OnionTypeOK
<1>2. fate[r] = "queued"
  BY <1>1 DEF OnionInv, Placed
<1>3. fate' \in [Requests -> Fates]
  BY DEF OnionInv, OnionTypeOK, Fates, Settled
<1>4. \A i, j \in 1 .. Len(incoming') : incoming'[i] = incoming'[j] => i = j
  <2> SUFFICES ASSUME NEW i \in 1 .. Len(incoming'), NEW j \in 1 .. Len(incoming'),
                      incoming'[i] = incoming'[j]
               PROVE  i = j
    OBVIOUS
  <2>1. i + 1 = j + 1
    BY <1>1 DEF OnionInv, Placed
  <2> QED
    BY <2>1
<1>5. \A i \in 1 .. Len(incoming') : incoming'[i] # r
  <2> SUFFICES ASSUME NEW i \in 1 .. Len(incoming'), incoming'[i] = r PROVE FALSE
    OBVIOUS
  <2>1. 1 \in 1 .. Len(incoming) /\ incoming[i + 1] = incoming[1] /\ i + 1 \in 1 .. Len(incoming)
    BY <1>1
  <2>2. i + 1 = 1
    BY <2>1 DEF OnionInv, Placed
  <2> QED
    BY <2>2
<1>6. \A q \in Requests :
        fate'[q] = "queued" <=> \E i \in 1 .. Len(incoming') : incoming'[i] = q
  <2> SUFFICES ASSUME NEW q \in Requests
               PROVE  fate'[q] = "queued" <=> \E i \in 1 .. Len(incoming') : incoming'[i] = q
    OBVIOUS
  <2>1. CASE q = r
    BY <2>1, <1>1, <1>5 DEF OnionInv, OnionTypeOK
  <2>2. CASE q # r
    <3>1. fate'[q] = fate[q]
      BY <2>2, <1>1 DEF OnionInv, OnionTypeOK
    <3>2. ASSUME NEW k \in 1 .. Len(incoming), incoming[k] = q
          PROVE  \E i \in 1 .. Len(incoming') : incoming'[i] = q
      <4>1. k # 1
        BY <2>2, <3>2, <1>1
      <4>2. k - 1 \in 1 .. Len(incoming') /\ incoming'[k - 1] = incoming[(k - 1) + 1]
        BY <4>1, <1>1
      <4> QED
        BY <4>2, <3>2
    <3> QED
      BY <3>1, <3>2, <1>1 DEF OnionInv, Placed
  <2> QED
    BY <2>1, <2>2
<1> QED
  BY <1>1, <1>2, <1>3, <1>4, <1>6

\* accept ends with the request it had taken.
LEMMA AcceptEndsStep ==
  ASSUME OnionInv, NEW r \in Requests, NEW outcome \in {"served", "failed", "dropped"},
         AcceptEnds(r, outcome)
  PROVE  OnionInv'
<1>1. /\ accept = r /\ accept' = "idle" /\ fate' = [fate EXCEPT ![r] = outcome]
      /\ UNCHANGED <<listener, incoming, dead>>
  BY DEF AcceptEnds
<1>2. fate[r] = "taken"
  BY <1>1 DEF OnionInv, Placed
<1>3. OnionTypeOK'
  BY <1>1 DEF OnionInv, OnionTypeOK, Fates, Settled
<1>4. Placed'
  BY <1>1, <1>2, RequestsAssumption DEF OnionInv, OnionTypeOK, Placed
<1> QED
  BY <1>3, <1>4 DEF OnionInv

\* The queue goes with the listener.
LEMMA DropListenerStep ==
  ASSUME OnionInv, DropListener
  PROVE  OnionInv'
<1>1. /\ accept = "idle" /\ listener' = "gone" /\ incoming' = <<>>
      /\ fate' = [r \in Requests |-> IF fate[r] = "queued" THEN "dropped" ELSE fate[r]]
      /\ UNCHANGED <<accept, dead>>
  BY DEF DropListener
<1>2. OnionTypeOK'
  BY <1>1, EmptySeq DEF OnionInv, OnionTypeOK, Fates, Settled
<1>3. Placed'
  BY <1>1, RequestsAssumption DEF OnionInv, OnionTypeOK, Placed
<1> QED
  BY <1>2, <1>3 DEF OnionInv

\* Every step of the listener and of its peers keeps the invariant.
LEMMA OnionStep == OnionInv /\ OnionNext => OnionInv'
<1> SUFFICES ASSUME OnionInv, OnionNext PROVE OnionInv'
  OBVIOUS
<1>1. ASSUME NEW c \in Callers, Listen(c) PROVE OnionInv'
  BY <1>1 DEF Listen, OnionInv, OnionTypeOK, Placed, Held
<1>2. ASSUME NEW r \in Requests, Dial(r) PROVE OnionInv'
  BY <1>2, DialStep
<1>3. ASSUME NEW r \in Requests, CircuitLost(r) PROVE OnionInv'
  BY <1>3 DEF CircuitLost, OnionInv, OnionTypeOK, Placed
<1>4. CASE ServiceEnds
  BY <1>4 DEF ServiceEnds, OnionInv, OnionTypeOK, Placed, Held
<1>5. CASE Accept
  BY <1>5, RequestsAssumption DEF Accept, OnionInv, OnionTypeOK, Placed
<1>6. CASE Take
  <2>1. /\ accept = "waiting" /\ incoming # <<>> /\ Head(incoming) \in RightPort
        /\ accept' = Head(incoming) /\ incoming' = Tail(incoming)
        /\ fate' = [fate EXCEPT ![Head(incoming)] = "taken"] /\ UNCHANGED <<listener, dead>>
    BY <1>6 DEF Take
  <2>2. OnionTypeOK'
    BY <2>1, HeadGoes DEF OnionInv, OnionTypeOK
  <2>3. \A q \in Requests : /\ fate'[q] = "taken" <=> accept' = q
                            /\ fate'[q] \in {"taken", "served"} => q \in RightPort
    BY <2>1, HeadGoes, RequestsAssumption DEF OnionInv, OnionTypeOK, Placed
  <2> QED
    BY <2>1, <2>2, <2>3, HeadGoes DEF OnionInv, Placed
<1>7. CASE Refuse
  <2>1. /\ accept = "waiting" /\ incoming # <<>>
        /\ dead' = dead \cup {Circuit[Head(incoming)]} /\ incoming' = Tail(incoming)
        /\ fate' = [fate EXCEPT ![Head(incoming)] = "refused"]
        /\ UNCHANGED <<listener, accept>>
    BY <1>7 DEF Refuse
  <2>2. OnionTypeOK'
    BY <2>1, HeadGoes DEF OnionInv, OnionTypeOK
  <2>3. \A q \in Requests : /\ fate'[q] = "taken" <=> accept' = q
                            /\ fate'[q] \in {"taken", "served"} => q \in RightPort
    BY <2>1, HeadGoes, RequestsAssumption DEF OnionInv, OnionTypeOK, Placed
  <2> QED
    BY <2>1, <2>2, <2>3, HeadGoes DEF OnionInv, Placed
<1>8. CASE NoMoreRequests
  BY <1>8, RequestsAssumption DEF NoMoreRequests, OnionInv, OnionTypeOK, Placed
<1>9. ASSUME NEW r \in Requests, AcceptOk(r) \/ AcceptFails(r) PROVE OnionInv'
  BY <1>9, AcceptEndsStep DEF AcceptOk, AcceptFails
<1>10. CASE CancelAccept
  <2>1. CASE accept = "waiting" /\ accept' = "idle" /\ UNCHANGED <<listener, incoming, fate, dead>>
    BY <2>1, RequestsAssumption DEF OnionInv, OnionTypeOK, Placed
  <2>2. CASE \E r \in Requests : AcceptEnds(r, "dropped")
    BY <2>2, AcceptEndsStep
  <2> QED
    BY <1>10, <2>1, <2>2 DEF CancelAccept
<1>11. CASE DropListener
  BY <1>11, DropListenerStep
<1> QED
  BY <1>1, <1>2, <1>3, <1>4, <1>5, <1>6, <1>7, <1>8, <1>9, <1>10, <1>11
     DEF OnionNext, AcceptSteps

\* The types and the places of the requests hold throughout.
LEMMA OnionInvariant == ArtiSpec => []OnionInv
<1>1. ArtiInit => OnionInv
  BY EmptySeq, RequestsAssumption DEF ArtiInit, OnionInv, OnionTypeOK, Placed, Fates
<1>2. OnionInv /\ [ArtiNext]_artiVars => OnionInv'
  <2>1. ASSUME OnionInv, UNCHANGED onionVars PROVE OnionInv'
    BY <2>1 DEF onionVars, OnionInv, OnionTypeOK, Placed
  <2> QED
    BY <2>1, OnionStep DEF ArtiNext, artiVars
<1> QED
  BY <1>1, <1>2, PTL DEF ArtiSpec

\* The variables of the listener keep their types, for any requests, circuits and
\* callers.
THEOREM ListenerTypes == ArtiSpec => []OnionTypeOK
<1>1. OnionInv => OnionTypeOK
  BY DEF OnionInv
<1> QED
  BY <1>1, OnionInvariant, PTL

\* Every request is in one place, and only those for the right port are taken,
\* for any number of requests over any circuits (ArtiListener::accept).
THEOREM RequestsPlaced == ArtiSpec => []Placed
<1>1. OnionInv => Placed
  BY DEF OnionInv
<1> QED
  BY <1>1, OnionInvariant, PTL

\* A step of the composition is one of the bootstrap or leaves it alone.
LEMMA BootstrapAlone == ArtiSpec => Spec
<1>1. ArtiInit => Init
  BY DEF ArtiInit
<1>2. [ArtiNext]_artiVars => [Next]_vars
  BY DEF ArtiNext, artiVars
<1> QED
  BY <1>1, <1>2, PTL DEF ArtiSpec, Spec

\* So what holds of the bootstrap holds with the listener at work above it, in the
\* system the runs check (listen of lazy.rs awaits LazyInner::get first).
THEOREM UnderListener == ArtiSpec => [](OneBootstrap /\ ConfigureApplies)
<1> QED
  BY BootstrapAlone, OneBootstrapHolds, ConfigureAppliesHolds, PTL
=============================================================================
