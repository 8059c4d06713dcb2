------------------------- MODULE CapnpRegistryProofs ------------------------
(***************************************************************************)
(* The capability graph of CapnpRegistry, for any number of connectors and *)
(* calls and any queue.                                                    *)
(*                                                                         *)
(* The argument: a call has at most one command or task at a time          *)
(* (PlaceInv), so it makes at most one connector and one product           *)
(* (CountInv), each under an id nobody had before; an id is then in one    *)
(* place, from the answer over the handle to the Release (OwnInv), and     *)
(* nothing queued behind its Release names it (CapsInv).                   *)
(***************************************************************************)
EXTENDS CapnpRegistry, SequenceTheorems, FiniteSetTheorems, TLAPS

\* Call n, by its phase.
CallOK(n) ==
  /\ n > made => fut[n] = NoCall
  /\ fut[n].phase = "done" => fut[n] = NoCall
  /\ fut[n].phase # "done" =>
       /\ fut[n].op = "connect" => fut[n].by \in connectors
       /\ fut[n].op # "connect" =>
            fut[n].by = NoConnector /\ fut[n].phase \in {"sending", "waiting", "ready"}
       /\ fut[n].op = "accept" => fut[n].on \in listeners
       /\ fut[n].op \in {"listen", "configure"} => fut[n].on = Bootstrap
  /\ fut[n].id # 0 => fut[n].phase \in {"named", "ready"} /\ fut[n].op # "configure"
  /\ fut[n].phase = "named" => fut[n].id # 0
  /\ fut[n].phase = "ensuring" => fut[n].on = Bootstrap
  /\ fut[n].phase \in Initializing => fut[n].on = Bootstrap /\ cell[fut[n].by] = 0
  /\ fut[n].op = "connect" /\ fut[n].phase \in {"sending", "waiting"} =>
       fut[n].on # Bootstrap
  /\ fut[n].op = "connect" /\ fut[n].on # Bootstrap => fut[n].on = cell[fut[n].by]

\* The OnceCell of a connector has one initializer, and goes with its handle.
CallInv ==
  /\ \A n \in Calls : CallOK(n)
  /\ \A n, m \in Calls :
       /\ fut[n].phase \in Initializing /\ fut[m].phase \in Initializing
       /\ fut[n].by = fut[m].by
       => n = m
  /\ \A h \in Connectors : cell[h] # 0 => h \in connectors

\* A call that waits for the actor, or is gone, and its command or task.
Expects(n, op) == fut[n].phase = "done" \/ (fut[n].phase = "waiting" /\ fut[n].op = op)

\* A command is the only one of its call, which waits for it or is gone.
CommandOK(i) ==
  LET n == cmds[i].call
  IN  /\ n <= made
      /\ cmds[i].op = "connector" => fut[n].phase \in {"resolving", "done"}
      /\ cmds[i].op # "connector" => Expects(n, cmds[i].op)
      /\ \A j \in 1 .. Len(cmds) : cmds[j].call = n => j = i
      /\ \A t \in tasks : t.call # n

\* And a call that has a task has no command.
PlaceInv ==
  /\ \A i \in 1 .. Len(cmds) : cmds[i].op # "release" => CommandOK(i)
  /\ \A t \in tasks : t.call <= made /\ Expects(t.call, t.op)
  /\ \A t, u \in tasks : t.call = u.call => t = u
  /\ actor = "starting" => tasks = {}
  /\ actor = "stopped" => cmds = <<>> /\ tasks = {}

\* What a call may still register: a connector, and what it was made for.
MayAsk(n) ==
  \/ n > made \/ fut[n].phase \in {"ensuring", "asking"}
  \/ \E i \in 1 .. Len(cmds) : cmds[i].op = "connector" /\ cmds[i].call = n

MayMake(n) ==
  \/ n > made \/ fut[n].phase \in {"ensuring", "sending"} \cup Initializing
  \/ \E i \in 1 .. Len(cmds) : cmds[i].op \in Requests /\ cmds[i].call = n
  \/ \E t \in tasks : t.call = n

Asking == {n \in Calls : MayAsk(n)}
Making == {n \in Calls : MayMake(n)}

\* The ids suffice: each call asks for a connector once, and makes one thing.
CountInv == nextId + Cardinality(Asking) + Cardinality(Making) <= 2 * MaxCalls + 1

\* An id is in one place.
Released(id) == \E i \in 1 .. Len(cmds) : cmds[i].op = "release" /\ cmds[i].on = id

\* An owner is an answer, a handle or a Release in the queue.
OwnInv ==
  /\ \A n, m \in Calls : fut[n].id = fut[m].id /\ fut[n].id # 0 => n = m
  /\ \A h, k \in Connectors : cell[h] = cell[k] /\ cell[h] # 0 => h = k
  /\ \A i, j \in 1 .. Len(cmds) :
       cmds[i].op = "release" /\ cmds[j].op = "release" /\ cmds[i].on = cmds[j].on => i = j
  /\ listeners \cap channels = {}
  /\ \A n \in Calls : fut[n].id \notin listeners \cup channels
  /\ \A h \in Connectors : cell[h] \notin listeners \cup channels
  /\ \A n \in Calls, h \in Connectors : fut[n].id = cell[h] => fut[n].id = 0
  /\ \A i \in 1 .. Len(cmds) : cmds[i].op = "release" =>
       /\ cmds[i].on \notin listeners \cup channels
       /\ \A n \in Calls : fut[n].id # cmds[i].on
       /\ \A h \in Connectors : cell[h] # cmds[i].on

\* Every id there is was given out.
KnownInv ==
  /\ \A id \in listeners \cup channels : id < nextId
  /\ \A n \in Calls : fut[n].id < nextId
  /\ \A h \in Connectors : cell[h] < nextId
  /\ \A i \in 1 .. Len(cmds) : cmds[i].on < nextId

\* What the id in an answer stands for.
AnswerKind(n) == IF fut[n].phase = "named" THEN "connector" ELSE Products[fut[n].op]

\* Every owner's capability is registered under its kind, and that of every command;
\* no Release in front of a command takes it away.
CapsInv ==
  /\ actor # "stopped" =>
       /\ caps[Bootstrap] = "transport"
       /\ \A l \in listeners : caps[l] = "listener"
       /\ \A c \in channels : caps[c] = "channel"
       /\ \A h \in Connectors : cell[h] # 0 => caps[cell[h]] = "connector"
       /\ \A n \in Calls : fut[n].id # 0 => caps[fut[n].id] = AnswerKind(n)
  /\ \A i \in 1 .. Len(cmds) : cmds[i].op # "release" =>
       /\ caps[cmds[i].on] = Targets[cmds[i].op]
       /\ \A j \in 1 .. i - 1 : ~(cmds[j].op = "release" /\ cmds[j].on = cmds[i].on)

\* A capability nobody owns is in one of the two histories.
LeakInv == \A id \in Ids : caps[id] # "none" =>
  \/ id \in listeners \cup channels \cup lost \cup orphans
  \/ \E n \in Calls : fut[n].id = id
  \/ \E h \in Connectors : cell[h] = id
  \/ Released(id)

\* The inductive invariant.
RegInv == TypeOK /\ CallInv /\ PlaceInv /\ CountInv /\ OwnInv /\ KnownInv /\ CapsInv /\ LeakInv

CallRecord == [op : Requests, by : Connectors \cup {NoConnector}, on : Ids \cup {Bootstrap},
               phase : Pending \cup {"done"}, id : Ids \cup {0}]

(***************************************************************************)
(* Constants, records, sequences and counting.                             *)
(***************************************************************************)
LEMMA Constants ==
  /\ MaxCalls \in Nat /\ QueueDepth \in Nat \ {0}
  /\ \A n \in Calls : n \in Nat /\ n >= 1 /\ n <= MaxCalls
  /\ \A n \in Nat : n >= 1 /\ n <= MaxCalls => n \in Calls
  /\ \A id \in Ids : id \in Nat /\ id >= 1
  /\ \A id \in Nat : id >= 1 /\ id <= 2 * MaxCalls => id \in Ids
  /\ Bootstrap = 0 /\ 0 \notin Ids /\ 0 \notin Calls
  /\ NoConnector \notin Connectors
  /\ NoCall \in CallRecord
BY RegistryAssumption DEF Calls, Ids, Bootstrap, NoCall, CallRecord, Requests, Factories

\* The end and the head of the queue.
LEMMA Appended ==
  ASSUME NEW S, NEW q \in Seq(S), NEW c \in S
  PROVE  /\ Append(q, c) \in Seq(S) /\ Len(q) \in Nat
         /\ Len(Append(q, c)) = Len(q) + 1
         /\ \A i \in 1 .. Len(q) : Append(q, c)[i] = q[i]
         /\ Append(q, c)[Len(q) + 1] = c
OBVIOUS

\* A command taken out of the queue.
LEMMA Removed ==
  ASSUME NEW S, NEW q \in Seq(S), q # <<>>
  PROVE  /\ Tail(q) \in Seq(S) /\ Len(q) \in Nat \ {0}
         /\ Len(Tail(q)) = Len(q) - 1
         /\ \A i \in 1 .. Len(Tail(q)) : Tail(q)[i] = q[i + 1]
         /\ Head(q) = q[1] /\ Head(q) \in S
OBVIOUS

\* Fewer calls may ask or make.
LEMMA FewerCalls ==
  ASSUME NEW S \in SUBSET Calls, NEW T \in SUBSET S
  PROVE  /\ Cardinality(T) \in Nat /\ Cardinality(S) \in Nat
         /\ Cardinality(T) <= Cardinality(S)
         /\ \A n \in S \ T : Cardinality(T) < Cardinality(S)
<1>1. IsFiniteSet(Calls)
  BY Constants, FS_Interval DEF Calls
<1>2. IsFiniteSet(S) /\ IsFiniteSet(T)
  BY <1>1, FS_Subset
<1>3. Cardinality(S) \in Nat /\ Cardinality(T) \in Nat
  BY <1>2, FS_CardinalityType
<1>4. ASSUME NEW n \in S \ T PROVE Cardinality(T) < Cardinality(S)
  <2>1. S # T /\ T \in SUBSET S
    BY <1>4
  <2> QED
    BY <1>2, <1>3, <2>1, FS_Subset
<1> QED
  BY <1>2, <1>3, <1>4, FS_Subset

\* The types that the steps below need, by name.
LEMMA Types ==
  ASSUME TypeOK
  PROVE  /\ fut \in [Calls -> CallRecord] /\ cell \in [Connectors -> Ids \cup {0}]
         /\ cmds \in Seq(Command) /\ made \in Nat /\ nextId \in Nat /\ nextId >= 1
         /\ listeners \subseteq Ids /\ channels \subseteq Ids
         /\ \A n \in Calls : fut[n] \in CallRecord
         /\ \A i \in 1 .. Len(cmds) : cmds[i] \in Command
         /\ Len(cmds) \in Nat
BY DEF TypeOK, CallRecord

\* Where nobody may make more than before, and no id is given out.
LEMMA CountShrinks ==
  ASSUME TypeOK, CountInv, nextId' = nextId,
         \A n \in Calls : (MayAsk(n)' => MayAsk(n)) /\ (MayMake(n)' => MayMake(n))
  PROVE  CountInv'
<1> DEFINE A == Asking
           B == Asking'
           C == Making
           D == Making'
<1>1. /\ A \in SUBSET Calls /\ B \in SUBSET A /\ C \in SUBSET Calls /\ D \in SUBSET C
  BY DEF Asking, Making
<1>2. Cardinality(B) <= Cardinality(A) /\ Cardinality(D) <= Cardinality(C)
      /\ Cardinality(A) \in Nat /\ Cardinality(B) \in Nat
      /\ Cardinality(C) \in Nat /\ Cardinality(D) \in Nat
  BY <1>1, FewerCalls
<1>3. /\ nextId \in Nat /\ MaxCalls \in Nat
      /\ nextId + Cardinality(A) + Cardinality(C) <= 2 * MaxCalls + 1
  BY Types, Constants DEF CountInv
<1> HIDE DEF A, B, C, D
<1>4. nextId' + Cardinality(B) + Cardinality(D) <= 2 * MaxCalls + 1
  BY <1>2, <1>3
<1> QED
  BY <1>4 DEF CountInv, B, D

\* An id is given out, and call n will not ask for another.
LEMMA CountSpent ==
  ASSUME TypeOK, CountInv, NEW n \in Calls, nextId' = nextId + 1,
         \A m \in Calls : (MayAsk(m)' => MayAsk(m)) /\ (MayMake(m)' => MayMake(m)),
         (MayAsk(n) /\ ~MayAsk(n)') \/ (MayMake(n) /\ ~MayMake(n)')
  PROVE  CountInv'
<1> DEFINE A == Asking
           B == Asking'
           C == Making
           D == Making'
<1>1. /\ A \in SUBSET Calls /\ B \in SUBSET A /\ C \in SUBSET Calls /\ D \in SUBSET C
      /\ n \in A \ B \/ n \in C \ D
  BY DEF Asking, Making
<1>2. /\ Cardinality(B) <= Cardinality(A) /\ Cardinality(D) <= Cardinality(C)
      /\ Cardinality(A) \in Nat /\ Cardinality(B) \in Nat
      /\ Cardinality(C) \in Nat /\ Cardinality(D) \in Nat
      /\ Cardinality(B) < Cardinality(A) \/ Cardinality(D) < Cardinality(C)
  BY <1>1, FewerCalls
<1>3. /\ nextId \in Nat /\ MaxCalls \in Nat
      /\ nextId + Cardinality(A) + Cardinality(C) <= 2 * MaxCalls + 1
  BY Types, Constants DEF CountInv
<1> HIDE DEF A, B, C, D
<1>4. nextId' + Cardinality(B) + Cardinality(D) <= 2 * MaxCalls + 1
  BY <1>2, <1>3
<1> QED
  BY <1>4 DEF CountInv, B, D

\* While a call may ask or make, there is an id for it.
LEMMA FreshIsId ==
  ASSUME TypeOK, CountInv, NEW n \in Calls, MayAsk(n) \/ MayMake(n)
  PROVE  FreshId \in Ids /\ nextId + 1 \in 1 .. 2 * MaxCalls + 1
<1> DEFINE A == Asking
           C == Making
<1>1. A \in SUBSET Calls /\ C \in SUBSET Calls /\ (n \in A \/ n \in C)
  BY DEF Asking, Making
<1>2. ASSUME NEW S \in SUBSET Calls
      PROVE  Cardinality(S) \in Nat /\ (n \in S => Cardinality(S) >= 1)
  <2>1. PICK T \in SUBSET S : T = {}
    OBVIOUS
  <2>2. /\ Cardinality(T) \in Nat /\ Cardinality(S) \in Nat
        /\ \A m \in S \ T : Cardinality(T) < Cardinality(S)
    BY FewerCalls
  <2> QED
    BY <2>1, <2>2
<1>3. /\ Cardinality(A) \in Nat /\ Cardinality(C) \in Nat
      /\ Cardinality(A) >= 1 \/ Cardinality(C) >= 1
  BY <1>1, <1>2
<1> QED
  BY <1>3, Constants DEF CountInv, TypeOK, FreshId

\* What the type of a command says of it.
LEMMA CommandTypes ==
  ASSUME NEW c \in Command
  PROVE  /\ c.op # "release" => c.call \in Calls
         /\ c.op = "release" => c.on \in Ids /\ c.call = 0
         /\ c.op = "connector" => c.on = Bootstrap
         /\ c.op \in Requests \cup {"connector", "release"}
         /\ c.on \in Ids \cup {Bootstrap}
BY DEF Command, Requests, Factories

(***************************************************************************)
(* The callers' steps.                                                     *)
(***************************************************************************)
LEMMA CreateStep ==
  ASSUME RegInv,
         NEW op \in Requests, NEW by \in Connectors \cup {NoConnector},
         NEW on \in Ids \cup {Bootstrap}, NEW phase \in {"ensuring", "sending"},
         op = "connect" => by \in connectors /\ on = Bootstrap /\ phase = "ensuring",
         op # "connect" => by = NoConnector /\ phase = "sending",
         op = "accept" => on \in listeners,
         op \in {"listen", "configure"} => on = Bootstrap,
         Create(op, by, on, phase)
  PROVE  RegInv'
<1> DEFINE n == made + 1
           r == [op |-> op, by |-> by, on |-> on, phase |-> phase, id |-> 0]
<1>1. /\ n \in Calls /\ made' = n /\ made \in Nat
      /\ fut' = [fut EXCEPT ![n] = r]
      /\ UNCHANGED <<transport, connectors, listeners, channels, cell, cmds, actor, conn,
                     caps, nextId, tasks, lost, orphans>>
  BY Constants DEF RegInv, TypeOK, Create, handles
<1>2. /\ r \in CallRecord /\ r.op = op /\ r.by = by /\ r.on = on /\ r.phase = phase
      /\ r.id = 0
  BY Constants DEF CallRecord, Pending
<1>3. /\ fut \in [Calls -> CallRecord] /\ fut' \in [Calls -> CallRecord]
      /\ fut'[n] = r /\ \A m \in Calls : m # n => fut'[m] = fut[m]
      /\ fut[n] = NoCall /\ NoCall.id = 0 /\ NoCall.phase = "done"
  BY <1>1, <1>2, Types DEF RegInv, CallInv, CallOK, NoCall
<1> HIDE DEF r
<1>4. TypeOK'
  BY <1>1, <1>3, Constants DEF RegInv, TypeOK, CallRecord, Command
<1>5. CallInv'
  <2>1. ASSUME NEW m \in Calls PROVE CallOK(m)'
    BY <1>1, <1>2, <1>3, Constants DEF RegInv, CallInv, CallOK, Initializing
  <2>2. \A m, k \in Calls :
          /\ fut'[m].phase \in Initializing /\ fut'[k].phase \in Initializing
          /\ fut'[m].by = fut'[k].by
          => m = k
    BY <1>2, <1>3 DEF RegInv, CallInv, Initializing
  <2> QED
    BY <1>1, <2>1, <2>2 DEF RegInv, CallInv
<1>6. PlaceInv'
  <2>1. ASSUME NEW i \in 1 .. Len(cmds'), cmds'[i].op # "release" PROVE CommandOK(i)'
    <3>1. CommandOK(i) /\ cmds[i].call \in Calls /\ cmds[i].call <= made
      BY <1>1, <2>1, Types, CommandTypes DEF RegInv, PlaceInv, CommandOK
    <3>2. fut'[cmds[i].call] = fut[cmds[i].call] /\ cmds[i].call <= made'
      BY <1>1, <1>3, <3>1, Constants
    <3> QED
      BY <1>1, <3>1, <3>2 DEF CommandOK, Expects
  <2>2. ASSUME NEW t \in tasks' PROVE t.call <= made' /\ Expects(t.call, t.op)'
    BY <1>1, <1>3, <2>2, Constants DEF RegInv, TypeOK, PlaceInv, Expects
  <2> QED
    BY <1>1, <2>1, <2>2 DEF RegInv, PlaceInv
<1>7. CountInv'
  <2>1. ASSUME NEW m \in Calls
        PROVE  (MayAsk(m)' => MayAsk(m)) /\ (MayMake(m)' => MayMake(m))
    BY <1>1, <1>2, <1>3, Constants DEF MayAsk, MayMake
  <2> QED
    BY <1>1, <2>1, CountShrinks DEF RegInv
<1>8. OwnInv'
  <2>1. \A m \in Calls : fut'[m].id = IF m = n THEN 0 ELSE fut[m].id
    BY <1>2, <1>3
  <2>2. /\ 0 \notin listeners \cup channels
        /\ \A i \in 1 .. Len(cmds) : cmds[i].op = "release" => cmds[i].on # 0
    BY Types, CommandTypes, Constants DEF RegInv
  <2> QED
    BY <1>1, <2>1, <2>2 DEF RegInv, OwnInv
<1>9. KnownInv'
  BY <1>1, <1>2, <1>3, Types, Constants DEF RegInv, KnownInv
<1>10. CapsInv'
  BY <1>1, <1>2, <1>3 DEF RegInv, CapsInv, AnswerKind
<1>11. LeakInv'
  BY <1>1, <1>2, <1>3, Constants DEF RegInv, LeakInv, Released
<1> QED
  BY <1>4, <1>5, <1>6, <1>7, <1>8, <1>9, <1>10, <1>11 DEF RegInv

\* Commands and tasks stay; a call that has none changes, or a call is given up.
LEMMA PlaceFrame ==
  ASSUME TypeOK, PlaceInv, UNCHANGED <<cmds, tasks, actor, made>>,
         \A m \in Calls : \/ fut'[m] = fut[m] \/ fut'[m].phase = "done"
                          \/ fut[m].phase \notin {"done", "waiting", "resolving"}
  PROVE  PlaceInv'
<1>1. ASSUME NEW i \in 1 .. Len(cmds'), cmds'[i].op # "release" PROVE CommandOK(i)'
  <2>1. CommandOK(i) /\ cmds[i].call \in Calls
    BY <1>1, Types, CommandTypes DEF PlaceInv
  <2>2. fut[cmds[i].call].phase \in {"done", "waiting", "resolving"}
    BY <2>1 DEF CommandOK, Expects
  <2>3. fut'[cmds[i].call] = fut[cmds[i].call] \/ fut'[cmds[i].call].phase = "done"
    BY <2>1, <2>2
  <2> QED
    BY <2>1, <2>3 DEF CommandOK, Expects
<1>2. ASSUME NEW t \in tasks' PROVE t.call <= made' /\ Expects(t.call, t.op)'
  BY <1>2 DEF TypeOK, PlaceInv, Expects
<1> QED
  BY <1>1, <1>2 DEF PlaceInv

\* A connect finds the cell full, or begins to fill it.
LEMMA EnsureStep ==
  ASSUME RegInv, NEW n \in Calls, Ensure(n) PROVE RegInv'
<1> DEFINE h == fut[n].by
<1>1. /\ fut[n].phase = "ensuring" /\ fut \in [Calls -> CallRecord]
      /\ \/ /\ cell[h] # 0
            /\ fut' = [fut EXCEPT ![n].phase = "sending", ![n].on = cell[h]]
         \/ /\ cell[h] = 0 /\ PermitFree(h)
            /\ fut' = [fut EXCEPT ![n].phase = "asking"]
      /\ UNCHANGED <<transport, connectors, listeners, channels, cell, made, cmds, actor,
                     conn, caps, nextId, tasks, lost, orphans>>
  BY Types DEF Ensure, RegInv, handles
<1>2. /\ fut[n].op = "connect" /\ h \in connectors /\ fut[n].on = Bootstrap /\ fut[n].id = 0
      /\ h \in Connectors /\ cell[h] \in Ids \cup {0} /\ n <= made
  <2>1. CallOK(n) /\ fut[n] \in CallRecord /\ fut[n].phase # "done" /\ made \in Nat
    BY <1>1, Types DEF RegInv, CallInv
  <2>2. n <= made
    BY <2>1, Constants DEF CallOK, NoCall
  <2>3. /\ fut[n].op = "connect" /\ h \in connectors /\ fut[n].on = Bootstrap
        /\ fut[n].id = 0
    BY <1>1, <2>1 DEF CallOK
  <2> QED
    BY <2>2, <2>3, Types DEF RegInv, TypeOK
<1>3. /\ fut' \in [Calls -> CallRecord] /\ \A m \in Calls : m # n => fut'[m] = fut[m]
      /\ fut'[n].op = "connect" /\ fut'[n].by = h /\ fut'[n].id = 0
      /\ \/ fut'[n].phase = "sending" /\ fut'[n].on = cell[h] /\ cell[h] # 0
         \/ fut'[n].phase = "asking" /\ fut'[n].on = Bootstrap /\ cell[h] = 0 /\ PermitFree(h)
  BY <1>1, <1>2, Constants DEF CallRecord, Pending, Initializing
<1> HIDE DEF h
<1>4. TypeOK'
  BY <1>1, <1>3 DEF RegInv, TypeOK, CallRecord, Command
<1>5. CallInv'
  <2>1. ASSUME NEW m \in Calls PROVE CallOK(m)'
    <3>1. CASE m = n
      <4>1. made \in Nat /\ n \in Nat /\ made' = made
        BY <1>1, Types, Constants DEF RegInv
      <4>2. ~(n > made')
        BY <1>2, <4>1
      <4> QED
        BY <1>1, <1>2, <1>3, <3>1, <4>2, Constants DEF CallOK, Initializing
    <3>2. CASE m # n
      BY <1>1, <1>3, <3>2 DEF RegInv, CallInv, CallOK
    <3> QED
      BY <3>1, <3>2
  <2>2. ASSUME NEW m \in Calls, fut[m].phase \in Initializing, PermitFree(h)
        PROVE  fut[m].by # h
    BY <2>2 DEF PermitFree, On, Pending
  <2>3. \A m, k \in Calls :
          /\ fut'[m].phase \in Initializing /\ fut'[k].phase \in Initializing
          /\ fut'[m].by = fut'[k].by
          => m = k
    BY <1>3, <2>2 DEF RegInv, CallInv, Initializing
  <2> QED
    BY <1>1, <2>1, <2>3 DEF RegInv, CallInv
<1>6. PlaceInv'
  BY <1>1, <1>3, PlaceFrame DEF RegInv
<1>7. CountInv'
  <2>1. ASSUME NEW m \in Calls
        PROVE  (MayAsk(m)' => MayAsk(m)) /\ (MayMake(m)' => MayMake(m))
    BY <1>1, <1>3 DEF MayAsk, MayMake, Initializing
  <2> QED
    BY <1>1, <2>1, CountShrinks DEF RegInv
<1>8. OwnInv'
  BY <1>1, <1>2, <1>3 DEF RegInv, OwnInv
<1>9. KnownInv'
  BY <1>1, <1>2, <1>3 DEF RegInv, KnownInv
<1>10. CapsInv'
  BY <1>1, <1>2, <1>3 DEF RegInv, CapsInv, AnswerKind
<1>11. LeakInv'
  BY <1>1, <1>2, <1>3, Constants DEF RegInv, LeakInv, Released
<1> QED
  BY <1>4, <1>5, <1>6, <1>7, <1>8, <1>9, <1>10, <1>11 DEF RegInv

\* A call ends: its answer is used, or it is dropped.
LEMMA CallEnds ==
  ASSUME RegInv, NEW n \in Calls, fut[n].phase \in Pending,
         fut' = [fut EXCEPT ![n] = NoCall], listeners \subseteq listeners',
         UNCHANGED <<connectors, cell, made, cmds, tasks, actor, nextId>>
  PROVE  /\ fut' \in [Calls -> CallRecord] /\ fut \in [Calls -> CallRecord]
         /\ \A m \in Calls : m # n => fut'[m] = fut[m]
         /\ fut'[n] = NoCall /\ NoCall.phase = "done" /\ NoCall.id = 0 /\ n <= made
         /\ fut[n].id \in Ids \cup {0}
         /\ CallInv' /\ PlaceInv' /\ CountInv'
<1>1. /\ fut' \in [Calls -> CallRecord] /\ \A m \in Calls : m # n => fut'[m] = fut[m]
      /\ fut'[n] = NoCall /\ NoCall.phase = "done" /\ NoCall.id = 0 /\ n <= made
      /\ NoCall.op = "listen" /\ NoCall.by = NoConnector /\ NoCall.on = Bootstrap
      /\ fut[n].id \in Ids \cup {0} /\ fut \in [Calls -> CallRecord]
  BY Constants, Types
     DEF NoCall, CallRecord, RegInv, CallInv, CallOK, Pending, Initializing, TypeOK
<1>2. CallInv'
  <2>1. ASSUME NEW m \in Calls PROVE CallOK(m)'
    BY <1>1, Constants DEF RegInv, CallInv, CallOK, Initializing
  <2>2. \A m, k \in Calls :
          /\ fut'[m].phase \in Initializing /\ fut'[k].phase \in Initializing
          /\ fut'[m].by = fut'[k].by
          => m = k
    BY <1>1 DEF RegInv, CallInv, Initializing
  <2> QED
    BY <2>1, <2>2 DEF RegInv, CallInv
<1>3. PlaceInv'
  BY <1>1, PlaceFrame DEF RegInv
<1>4. CountInv'
  <2>1. ASSUME NEW m \in Calls
        PROVE  (MayAsk(m)' => MayAsk(m)) /\ (MayMake(m)' => MayMake(m))
    BY <1>1 DEF MayAsk, MayMake, Initializing
  <2> QED
    BY <2>1, CountShrinks DEF RegInv
<1> QED
  BY <1>1, <1>2, <1>3, <1>4

\* The caller drops its future.
LEMMA AbandonStep ==
  ASSUME RegInv, NEW n \in Calls, Abandon(n) PROVE RegInv'
<1>1. /\ fut[n].phase \in Pending
      /\ fut' = [fut EXCEPT ![n] = NoCall]
      /\ orphans' = orphans \cup ({fut[n].id} \ {0})
      /\ UNCHANGED <<transport, connectors, listeners, channels, cell, made, cmds, actor,
                     conn, caps, nextId, tasks, lost>>
  BY DEF Abandon, handles
<1>2. /\ fut' \in [Calls -> CallRecord] /\ fut \in [Calls -> CallRecord]
      /\ \A m \in Calls : m # n => fut'[m] = fut[m]
      /\ fut'[n] = NoCall /\ NoCall.id = 0 /\ fut[n].id \in Ids \cup {0}
      /\ CallInv' /\ PlaceInv' /\ CountInv'
  BY <1>1, CallEnds
<1>3. TypeOK'
  BY <1>1, <1>2 DEF RegInv, TypeOK, CallRecord, Command
<1>4. OwnInv'
  BY <1>1, <1>2, Types, CommandTypes, Constants DEF RegInv, OwnInv
<1>5. KnownInv'
  BY <1>1, <1>2, Types DEF RegInv, KnownInv
<1>6. CapsInv'
  BY <1>1, <1>2 DEF RegInv, CapsInv, AnswerKind
<1>7. LeakInv'
  BY <1>1, <1>2, Constants DEF RegInv, LeakInv, Released
<1> QED
  BY <1>2, <1>3, <1>4, <1>5, <1>6, <1>7 DEF RegInv

\* The caller takes its answer: the id goes from the answer to the handle.
LEMMA PollStep ==
  ASSUME RegInv, NEW n \in Calls, Poll(n) PROVE RegInv'
<1> DEFINE id == fut[n].id
<1>1. /\ fut[n].phase = "ready"
      /\ fut' = [fut EXCEPT ![n] = NoCall]
      /\ \/ id = 0 /\ UNCHANGED <<listeners, channels, orphans>>
         \/ /\ id # 0 /\ fut[n].op = "listen"
            /\ listeners' = listeners \cup {id} /\ UNCHANGED <<channels, orphans>>
         \/ /\ id # 0
            /\ orphans' = orphans \cup {id} /\ UNCHANGED <<listeners, channels>>
         \/ /\ id # 0 /\ fut[n].op # "listen"
            /\ channels' = channels \cup {id} /\ UNCHANGED <<listeners, orphans>>
      /\ UNCHANGED <<transport, connectors, cell, made, cmds, actor, conn, caps, nextId,
                     tasks, lost>>
  BY DEF Poll
<1>2. /\ fut' \in [Calls -> CallRecord] /\ fut \in [Calls -> CallRecord]
      /\ \A m \in Calls : m # n => fut'[m] = fut[m]
      /\ fut'[n] = NoCall /\ NoCall.id = 0 /\ id \in Ids \cup {0}
      /\ CallInv' /\ PlaceInv' /\ CountInv'
  <2>1. fut[n].phase \in Pending /\ listeners \subseteq listeners'
    BY <1>1 DEF Pending
  <2> QED
    BY <1>1, <2>1, CallEnds
<1>3. actor # "stopped" /\ id # 0 =>
        caps[id] = IF fut[n].op = "listen" THEN "listener" ELSE "channel"
  <2>1. id # 0 => fut[n].op \in Factories
    BY <1>2 DEF RegInv, CallInv, CallOK, CallRecord, Requests
  <2> QED
    BY <1>1, <2>1 DEF RegInv, CapsInv, AnswerKind, Products, Factories
<1>4. fut[n].id = id
  OBVIOUS
<1> HIDE DEF id
<1>5. TypeOK'
  BY <1>1, <1>2 DEF RegInv, TypeOK, CallRecord, Command
<1>6. OwnInv'
  BY <1>1, <1>2, <1>4, Types, CommandTypes, Constants DEF RegInv, OwnInv
<1>7. KnownInv'
  BY <1>1, <1>2, <1>4, Types DEF RegInv, KnownInv
<1>8. CapsInv'
  BY <1>1, <1>2, <1>3, <1>4 DEF RegInv, CapsInv, AnswerKind
<1>9. LeakInv'
  BY <1>1, <1>2, <1>4, Constants DEF RegInv, LeakInv, Released
<1> QED
  BY <1>2, <1>5, <1>6, <1>7, <1>8, <1>9 DEF RegInv

\* The initializer takes its answer: the id goes from the answer to the cell.
LEMMA FillCellStep ==
  ASSUME RegInv, NEW n \in Calls, FillCell(n) PROVE RegInv'
<1> DEFINE h == fut[n].by
           id == fut[n].id
<1>1. /\ fut[n].phase = "named" /\ fut \in [Calls -> CallRecord]
      /\ cell' = [cell EXCEPT ![h] = id]
      /\ fut' = [fut EXCEPT ![n].phase = "sending", ![n].on = id, ![n].id = 0]
      /\ UNCHANGED <<transport, connectors, listeners, channels, made, cmds, actor,
                     conn, caps, nextId, tasks, lost, orphans>>
  BY Types DEF FillCell, RegInv, handles
<1>2. /\ fut[n].op = "connect" /\ h \in connectors /\ fut[n].on = Bootstrap /\ id # 0
      /\ h \in Connectors /\ id \in Ids /\ cell[h] = 0 /\ n <= made
      /\ cell \in [Connectors -> Ids \cup {0}]
  BY <1>1, Types, Constants DEF RegInv, TypeOK, CallInv, CallOK, NoCall, CallRecord, Initializing
<1>3. /\ fut' \in [Calls -> CallRecord] /\ \A m \in Calls : m # n => fut'[m] = fut[m]
      /\ fut'[n].op = "connect" /\ fut'[n].by = h /\ fut'[n].id = 0
      /\ fut'[n].phase = "sending" /\ fut'[n].on = id
      /\ cell' \in [Connectors -> Ids \cup {0}] /\ cell'[h] = id
      /\ \A k \in Connectors : k # h => cell'[k] = cell[k]
  BY <1>1, <1>2, Constants DEF CallRecord, Pending, Initializing
<1>4. fut[n].id = id /\ fut[n].by = h
  OBVIOUS
<1> HIDE DEF h, id
<1>5. TypeOK'
  BY <1>1, <1>3 DEF RegInv, TypeOK, CallRecord, Command
<1>6. CallInv'
  <2>1. ASSUME NEW m \in Calls PROVE CallOK(m)'
    <3>1. m # n /\ fut[m].op = "connect" /\ fut[m].by = h =>
            fut[m].phase \notin Initializing /\ fut[m].on = Bootstrap
      BY <1>1, <1>2, <1>4, Constants DEF RegInv, CallInv, CallOK, Initializing
    <3> QED
      <4>1. CASE m = n
        <5>1. made \in Nat /\ n \in Nat /\ made' = made
          BY <1>1, Types, Constants DEF RegInv
        <5>2. ~(n > made')
          BY <1>2, <5>1
        <5> QED
          BY <1>1, <1>2, <1>3, <4>1, <5>2, Constants DEF CallOK, Initializing
      <4>2. CASE m # n
        <5>1. CallOK(m) /\ fut'[m] = fut[m] /\ fut[m] \in CallRecord /\ made' = made
          BY <1>1, <1>3, <4>2, Types DEF RegInv, CallInv
        <5>2. fut[m].by = h \/ cell'[fut[m].by] = cell[fut[m].by]
              \/ fut[m].op # "connect"
          <6>1. fut[m].op = "connect" => fut[m].by \in connectors
            BY <5>1 DEF CallOK, NoCall
          <6> QED
            BY <1>3, <6>1 DEF RegInv, TypeOK
        <5> QED
          BY <1>1, <3>1, <4>2, <5>1, <5>2, Constants DEF CallOK, Initializing
      <4> QED
        BY <4>1, <4>2
  <2>2. \A m, k \in Calls :
          /\ fut'[m].phase \in Initializing /\ fut'[k].phase \in Initializing
          /\ fut'[m].by = fut'[k].by
          => m = k
    BY <1>3 DEF RegInv, CallInv, Initializing
  <2> QED
    BY <1>1, <1>2, <1>3, <2>1, <2>2 DEF RegInv, CallInv
<1>7. PlaceInv'
  BY <1>1, <1>3, PlaceFrame DEF RegInv
<1>8. CountInv'
  <2>1. ASSUME NEW m \in Calls
        PROVE  (MayAsk(m)' => MayAsk(m)) /\ (MayMake(m)' => MayMake(m))
    BY <1>1, <1>3 DEF MayAsk, MayMake, Initializing
  <2> QED
    BY <1>1, <2>1, CountShrinks DEF RegInv
<1>9. OwnInv'
  BY <1>1, <1>2, <1>3, <1>4, Types, CommandTypes, Constants DEF RegInv, OwnInv
<1>10. KnownInv'
  BY <1>1, <1>2, <1>3, <1>4, Types DEF RegInv, KnownInv
<1>11. CapsInv'
  BY <1>1, <1>2, <1>3, <1>4 DEF RegInv, CapsInv, AnswerKind
<1>12. LeakInv'
  BY <1>1, <1>2, <1>3, <1>4, Constants DEF RegInv, LeakInv, Released
<1> QED
  BY <1>5, <1>6, <1>7, <1>8, <1>9, <1>10, <1>11, <1>12 DEF RegInv

\* Enqueue, on a queue that is closed: the call ends with an error.
LEMMA RefusedStep ==
  ASSUME RegInv, NEW n \in Calls, Enqueue(n), QueueClosed PROVE RegInv'
<1>1. /\ fut[n].phase \in {"asking", "sending"} /\ fut \in [Calls -> CallRecord]
      /\ fut' = [fut EXCEPT ![n].phase = "ready"]
      /\ UNCHANGED <<transport, connectors, listeners, channels, cell, made, cmds, actor,
                     conn, caps, nextId, tasks, lost, orphans>>
  BY Types DEF Enqueue, RegInv, handles
<1>2. /\ fut' \in [Calls -> CallRecord] /\ \A m \in Calls : m # n => fut'[m] = fut[m]
      /\ fut'[n].op = fut[n].op /\ fut'[n].by = fut[n].by /\ fut'[n].on = fut[n].on
      /\ fut'[n].id = fut[n].id /\ fut'[n].phase = "ready"
  BY <1>1 DEF CallRecord, Pending, Initializing
<1>3. /\ fut[n].id = 0 /\ n <= made /\ CallOK(n) /\ actor = "stopped"
      /\ made \in Nat /\ n \in Nat
  BY <1>1, Types, Constants DEF RegInv, CallInv, CallOK, NoCall, QueueClosed
<1>4. TypeOK'
  BY <1>1, <1>2 DEF RegInv, TypeOK, CallRecord, Command
<1>5. CallInv'
  <2>1. ASSUME NEW m \in Calls PROVE CallOK(m)'
    <3>1. CASE m = n
      BY <1>1, <1>2, <1>3, <3>1 DEF CallOK, Initializing
    <3>2. CASE m # n
      BY <1>1, <1>2, <3>2 DEF RegInv, CallInv, CallOK
    <3> QED
      BY <3>1, <3>2
  <2>2. \A m, k \in Calls :
          /\ fut'[m].phase \in Initializing /\ fut'[k].phase \in Initializing
          /\ fut'[m].by = fut'[k].by
          => m = k
    BY <1>2 DEF RegInv, CallInv, Initializing
  <2> QED
    BY <1>1, <2>1, <2>2 DEF RegInv, CallInv
<1>6. PlaceInv'
  BY <1>1, <1>2, PlaceFrame DEF RegInv
<1>7. CountInv'
  <2>1. ASSUME NEW m \in Calls
        PROVE  (MayAsk(m)' => MayAsk(m)) /\ (MayMake(m)' => MayMake(m))
    BY <1>1, <1>2 DEF MayAsk, MayMake, Initializing
  <2> QED
    BY <1>1, <2>1, CountShrinks DEF RegInv
<1>8. OwnInv'
  BY <1>1, <1>2 DEF RegInv, OwnInv
<1>9. KnownInv'
  BY <1>1, <1>2 DEF RegInv, KnownInv
<1>10. CapsInv'
  BY <1>1, <1>2, <1>3 DEF RegInv, CapsInv
<1>11. LeakInv'
  BY <1>1, <1>2 DEF RegInv, LeakInv, Released
<1> QED
  BY <1>4, <1>5, <1>6, <1>7, <1>8, <1>9, <1>10, <1>11 DEF RegInv

\* Enqueue, with room: the command of call n is the last of the queue.
LEMMA EnqueuedStep ==
  ASSUME RegInv, NEW n \in Calls, Enqueue(n), ~QueueClosed PROVE RegInv'
<1>1. PICK c \in Command :
        /\ HasRoom /\ cmds' = Append(cmds, c) /\ c.call = n
        /\ fut \in [Calls -> CallRecord] /\ fut' \in [Calls -> CallRecord]
        /\ \A m \in Calls : m # n => fut'[m] = fut[m]
        /\ \/ /\ fut[n].phase = "asking" /\ fut'[n].phase = "resolving"
              /\ c.op = "connector" /\ c.on = Bootstrap
           \/ /\ fut[n].phase = "sending" /\ fut'[n].phase = "waiting"
              /\ c.op = fut[n].op /\ c.on = fut[n].on
        /\ fut'[n].op = fut[n].op /\ fut'[n].by = fut[n].by /\ fut'[n].on = fut[n].on
        /\ fut'[n].id = fut[n].id
  <2>1. fut \in [Calls -> CallRecord] /\ fut[n] \in CallRecord
    BY Types DEF RegInv
  <2>2. CASE fut[n].phase = "asking"
    <3> DEFINE c == [op |-> "connector", on |-> Bootstrap, call |-> n]
    <3>1. c \in Command /\ c.op = "connector" /\ c.on = Bootstrap /\ c.call = n
      BY DEF Command
    <3>2. /\ HasRoom /\ cmds' = Append(cmds, c)
          /\ fut' = [fut EXCEPT ![n].phase = "resolving"]
      BY <2>2 DEF Enqueue
    <3> QED
      BY <2>1, <2>2, <3>1, <3>2 DEF CallRecord, Pending, Initializing
  <2>3. CASE fut[n].phase = "sending"
    <3> DEFINE c == [op |-> fut[n].op, on |-> fut[n].on, call |-> n]
    <3>1. c \in Command /\ c.op = fut[n].op /\ c.on = fut[n].on /\ c.call = n
      BY <2>1 DEF Command, CallRecord
    <3>2. /\ HasRoom /\ cmds' = Append(cmds, c)
          /\ fut' = [fut EXCEPT ![n].phase = "waiting"]
      BY <2>3 DEF Enqueue
    <3> QED
      BY <2>1, <2>3, <3>1, <3>2 DEF CallRecord, Pending, Initializing
  <2> QED
    BY <2>2, <2>3 DEF Enqueue
<1>2. /\ UNCHANGED <<transport, connectors, listeners, channels, cell, made, actor,
                     conn, caps, nextId, tasks, lost, orphans>>
      /\ actor # "stopped" /\ fut[n] \in CallRecord
  BY <1>1 DEF Enqueue, QueueClosed, handles
<1>3. /\ cmds' \in Seq(Command) /\ Len(cmds) \in Nat /\ Len(cmds') = Len(cmds) + 1
      /\ \A i \in 1 .. Len(cmds) : cmds'[i] = cmds[i]
      /\ cmds'[Len(cmds) + 1] = c
  BY <1>1, Types, Appended DEF RegInv
<1>4. /\ fut[n].id = 0 /\ n <= made /\ CallOK(n) /\ made \in Nat /\ n \in Nat
      /\ c.op # "release" /\ c.op \in Requests \cup {"connector"}
  BY <1>1, <1>2, Types, Constants
     DEF RegInv, CallInv, CallOK, NoCall, CallRecord, Requests, Factories
\* The call had no command and no task.
<1>5. /\ \A i \in 1 .. Len(cmds) : cmds[i].call # n
      /\ \A t \in tasks : t.call # n
  <2>1. ASSUME NEW i \in 1 .. Len(cmds) PROVE cmds[i].call # n
    <3>1. CASE cmds[i].op = "release"
      BY <3>1, Types, CommandTypes, Constants DEF RegInv
    <3>2. CASE cmds[i].op # "release"
      BY <1>1, <3>2 DEF RegInv, PlaceInv, CommandOK, Expects
    <3> QED
      BY <3>1, <3>2
  <2> QED
    BY <1>1, <2>1 DEF RegInv, PlaceInv, Expects
<1>6. TypeOK'
  <2>1. Len(cmds') <= QueueDepth
    BY <1>1, <1>3, Constants DEF HasRoom
  <2> QED
    BY <1>1, <1>2, <1>3, <2>1 DEF RegInv, TypeOK, CallRecord
<1>7. CallInv'
  <2>1. ASSUME NEW m \in Calls PROVE CallOK(m)'
    <3>1. CASE m = n
      BY <1>1, <1>2, <1>4, <3>1 DEF CallOK, Initializing
    <3>2. CASE m # n
      BY <1>1, <1>2, <3>2 DEF RegInv, CallInv, CallOK
    <3> QED
      BY <3>1, <3>2
  <2>2. \A m, k \in Calls :
          /\ fut'[m].phase \in Initializing /\ fut'[k].phase \in Initializing
          /\ fut'[m].by = fut'[k].by
          => m = k
    BY <1>1 DEF RegInv, CallInv, Initializing
  <2> QED
    BY <1>2, <2>1, <2>2 DEF RegInv, CallInv
<1>8. PlaceInv'
  <2>1. ASSUME NEW i \in 1 .. Len(cmds'), cmds'[i].op # "release" PROVE CommandOK(i)'
    <3>1. CASE i = Len(cmds) + 1
      <4>1. cmds'[i] = c /\ \A j \in 1 .. Len(cmds') : cmds'[j].call = n => j = i
        BY <1>3, <1>5, <3>1
      <4>2. \A t \in tasks' : t.call # n
        BY <1>2, <1>5
      <4>3. cmds'[i].call = n /\ cmds'[i].op = c.op /\ n <= made'
        BY <1>1, <1>2, <1>4, <4>1
      <4>4. c.op = "connector" => fut'[n].phase = "resolving"
        BY <1>1, <1>2 DEF CallRecord, Requests, Factories
      <4>5. c.op # "connector" => fut'[n].phase = "waiting" /\ fut'[n].op = c.op
        BY <1>1
      <4> QED
        BY <4>1, <4>2, <4>3, <4>4, <4>5 DEF CommandOK, Expects
    <3>2. CASE i \in 1 .. Len(cmds)
      <4>1. /\ CommandOK(i) /\ cmds'[i] = cmds[i] /\ cmds[i].call # n
            /\ cmds[i].call \in Calls
        BY <1>3, <1>5, <2>1, <3>2, Types, CommandTypes DEF RegInv, PlaceInv
      <4>2. fut'[cmds[i].call] = fut[cmds[i].call]
        BY <1>1, <4>1
      <4>3. \A j \in 1 .. Len(cmds') : cmds'[j].call = cmds[i].call => j = i
        BY <1>1, <1>3, <4>1 DEF CommandOK
      <4> QED
        BY <1>2, <4>1, <4>2, <4>3 DEF CommandOK, Expects
    <3> QED
      BY <1>3, <2>1, <3>1, <3>2
  <2>2. ASSUME NEW t \in tasks' PROVE t.call <= made' /\ Expects(t.call, t.op)'
    <3>1. t \in tasks /\ t.call \in Calls /\ t.call # n
      BY <1>2, <1>5, <2>2 DEF RegInv, TypeOK
    <3> QED
      BY <1>1, <1>2, <3>1 DEF RegInv, PlaceInv, Expects
  <2> QED
    BY <1>2, <2>1, <2>2 DEF RegInv, PlaceInv
<1>9. CountInv'
  <2>1. ASSUME NEW m \in Calls
        PROVE  (MayAsk(m)' => MayAsk(m)) /\ (MayMake(m)' => MayMake(m))
    <3>1. CASE m = n
      <4>1. fut[n].phase = "asking" => c.op \notin Requests
        BY <1>1 DEF Requests, Factories
      <4>2. fut[n].phase = "sending" => c.op # "connector"
        BY <1>1, <1>2 DEF CallRecord, Requests, Factories
      <4>3. ~(m > made') /\ \A t \in tasks' : t.call # n
        BY <1>2, <1>4, <1>5, <3>1
      <4>4. \A i \in 1 .. Len(cmds') : cmds'[i].call = n => cmds'[i] = c
        BY <1>3, <1>5
      <4>5. MayAsk(m)' => MayAsk(m)
        BY <1>1, <3>1, <4>2, <4>3, <4>4 DEF MayAsk
      <4>6. MayMake(m)' => MayMake(m)
        BY <1>1, <3>1, <4>1, <4>3, <4>4 DEF MayMake, Initializing
      <4> QED
        BY <4>5, <4>6
    <3>2. CASE m # n
      BY <1>1, <1>2, <1>3, <3>2 DEF MayAsk, MayMake, Initializing
    <3> QED
      BY <3>1, <3>2
  <2> QED
    BY <1>2, <2>1, CountShrinks DEF RegInv
<1>10. OwnInv'
  <2>1. \A i \in 1 .. Len(cmds') : cmds'[i].op = "release" =>
          i \in 1 .. Len(cmds) /\ cmds'[i] = cmds[i]
    BY <1>3, <1>4
  <2>2. \A m \in Calls : fut'[m].id = fut[m].id
    BY <1>1
  <2> QED
    BY <1>2, <2>1, <2>2 DEF RegInv, OwnInv
<1>11. KnownInv'
  <2>1. c.on < nextId
    BY <1>1, <1>2, <1>4, Types, Constants
       DEF RegInv, TypeOK, KnownInv, CallOK, CallRecord, Requests, Factories
  <2> QED
    BY <1>1, <1>2, <1>3, <2>1 DEF RegInv, KnownInv
<1>12. CapsInv'
  <2>1. /\ caps[c.on] = Targets[c.op]
        /\ \A j \in 1 .. Len(cmds) : ~(cmds[j].op = "release" /\ cmds[j].on = c.on)
    BY <1>1, <1>2, <1>4, Types, CommandTypes, Constants
       DEF RegInv, TypeOK, CapsInv, OwnInv, CallOK, CallRecord, Targets, Requests, Factories
  <2>2. /\ caps[Bootstrap] = "transport"
        /\ \A l \in listeners : caps[l] = "listener"
        /\ \A k \in channels : caps[k] = "channel"
        /\ \A h \in Connectors : cell[h] # 0 => caps[cell[h]] = "connector"
        /\ \A m \in Calls : fut'[m].id # 0 => caps[fut'[m].id] = AnswerKind(m)'
    BY <1>1, <1>2, <1>4 DEF RegInv, CapsInv, AnswerKind
  <2>3. ASSUME NEW i \in 1 .. Len(cmds'), cmds'[i].op # "release"
        PROVE  /\ caps[cmds'[i].on] = Targets[cmds'[i].op]
               /\ \A j \in 1 .. i - 1 : ~(cmds'[j].op = "release" /\ cmds'[j].on = cmds'[i].on)
    <3>1. CASE i = Len(cmds) + 1
      BY <1>3, <2>1, <3>1
    <3>2. CASE i \in 1 .. Len(cmds)
      <4>1. cmds'[i] = cmds[i] /\ \A j \in 1 .. i - 1 : cmds'[j] = cmds[j]
        BY <1>3, <3>2
      <4> QED
        BY <2>3, <3>2, <4>1 DEF RegInv, CapsInv
    <3> QED
      BY <1>3, <2>3, <3>1, <3>2
  <2> QED
    BY <1>2, <2>2, <2>3 DEF CapsInv
<1>13. LeakInv'
  <2>1. \A id \in Ids : Released(id) => Released(id)'
    <3>1. 1 .. Len(cmds) \subseteq 1 .. Len(cmds')
      BY <1>3
    <3> QED
      BY <1>3, <3>1 DEF Released
  <2>2. \A m \in Calls : fut'[m].id = fut[m].id
    BY <1>1
  <2> QED
    BY <1>2, <2>1, <2>2 DEF RegInv, LeakInv
<1> QED
  BY <1>6, <1>7, <1>8, <1>9, <1>10, <1>11, <1>12, <1>13 DEF RegInv

\* A handle goes: its id is released, in the queue or lost with a full one.
LEMMA ReleaseStep ==
  ASSUME RegInv, NEW id \in Ids, Release(id), CallInv', id < nextId,
         \A n \in Calls : fut[n].id # id,
         \A i \in 1 .. Len(cmds) : ~(cmds[i].op = "release" /\ cmds[i].on = id),
         connectors' \subseteq Connectors, cell' \in [Connectors -> Ids \cup {0}],
         listeners' \subseteq listeners, channels' \subseteq channels,
         listeners \cup channels \subseteq listeners' \cup channels' \cup {id},
         id \notin listeners' \cup channels',
         \A h \in Connectors : cell'[h] = IF cell[h] = id THEN 0 ELSE cell[h]
  PROVE  RegInv'
<1>1. /\ UNCHANGED <<transport, made, fut, actor, conn, caps, nextId, tasks, orphans>>
      /\ id \in Nat /\ id # 0 /\ lost \subseteq lost'
      /\ fut \in [Calls -> CallRecord] /\ cmds \in Seq(Command) /\ Len(cmds) \in Nat
  BY Types, Constants DEF Release, RegInv
<1>2. \/ cmds' = cmds /\ lost' = lost \cup {id}
      \/ \E c \in Command :
           /\ cmds' = Append(cmds, c) /\ lost' = lost /\ HasRoom /\ actor # "stopped"
           /\ c.op = "release" /\ c.on = id /\ c.call = 0
  <2> DEFINE c == [op |-> "release", on |-> id, call |-> 0]
  <2>1. c \in Command /\ c.op = "release" /\ c.on = id /\ c.call = 0
    BY DEF Command
  <2> QED
    BY <2>1 DEF Release, QueueClosed
\* The commands that were there are there, and the new one is a Release of id.
<1>3. /\ cmds' \in Seq(Command) /\ Len(cmds') \in Nat /\ Len(cmds') >= Len(cmds)
      /\ Len(cmds') <= QueueDepth /\ lost' \subseteq Ids
      /\ \A i \in 1 .. Len(cmds) : cmds'[i] = cmds[i]
      /\ \A i \in 1 .. Len(cmds') : i \in 1 .. Len(cmds) \/
           ( /\ i = Len(cmds) + 1 /\ cmds'[i].op = "release" /\ cmds'[i].on = id
             /\ cmds'[i].call = 0 /\ actor # "stopped")
      /\ id \in lost' \/ Released(id)'
  <2>1. CASE cmds' = cmds /\ lost' = lost \cup {id}
    BY <1>1, <2>1 DEF RegInv, TypeOK
  <2>2. CASE cmds' # cmds \/ lost' # lost \cup {id}
    <3>1. PICK c \in Command :
             /\ cmds' = Append(cmds, c) /\ lost' = lost /\ HasRoom /\ actor # "stopped"
             /\ c.op = "release" /\ c.on = id /\ c.call = 0
      BY <1>2, <2>2
    <3>2. /\ cmds' \in Seq(Command) /\ Len(cmds') = Len(cmds) + 1
          /\ \A i \in 1 .. Len(cmds) : cmds'[i] = cmds[i]
          /\ cmds'[Len(cmds) + 1] = c
      BY <1>1, <3>1, Appended
    <3>3. Len(cmds') <= QueueDepth
      BY <1>1, <3>1, <3>2, Constants DEF HasRoom
    <3>4. Released(id)'
      BY <1>1, <3>1, <3>2 DEF Released
    <3> QED
      BY <1>1, <3>1, <3>2, <3>3, <3>4 DEF RegInv, TypeOK
  <2> QED
    BY <2>1, <2>2
<1>4. TypeOK'
  BY <1>1, <1>3 DEF RegInv, TypeOK
<1>5. PlaceInv'
  <2>1. ASSUME NEW i \in 1 .. Len(cmds'), cmds'[i].op # "release" PROVE CommandOK(i)'
    <3>1. i \in 1 .. Len(cmds) /\ cmds'[i] = cmds[i]
      BY <1>3, <2>1
    <3>2. CommandOK(i) /\ cmds[i].call \in Calls /\ cmds[i].call # 0
      BY <2>1, <3>1, Types, CommandTypes, Constants DEF RegInv, PlaceInv
    <3>3. \A j \in 1 .. Len(cmds') : cmds'[j].call = cmds[i].call => j = i
      BY <1>3, <3>2 DEF CommandOK
    <3> QED
      BY <1>1, <3>1, <3>2, <3>3 DEF CommandOK, Expects
  <2>2. actor = "stopped" => cmds' = <<>>
    BY <1>2 DEF RegInv, PlaceInv
  <2> QED
    BY <1>1, <2>1, <2>2 DEF RegInv, PlaceInv, Expects
<1>6. CountInv'
  <2>1. ASSUME NEW m \in Calls
        PROVE  (MayAsk(m)' => MayAsk(m)) /\ (MayMake(m)' => MayMake(m))
    <3>1. \A i \in 1 .. Len(cmds') : cmds'[i].call = m =>
             i \in 1 .. Len(cmds) /\ cmds'[i] = cmds[i]
      BY <1>3, Constants
    <3> QED
      BY <1>1, <3>1 DEF MayAsk, MayMake
  <2> QED
    BY <1>1, <2>1, CountShrinks DEF RegInv
<1>7. OwnInv'
  <2>1. ASSUME NEW i \in 1 .. Len(cmds'), cmds'[i].op = "release"
        PROVE  /\ cmds'[i].on \notin listeners' \cup channels'
               /\ \A n \in Calls : fut'[n].id # cmds'[i].on
               /\ \A h \in Connectors : cell'[h] # cmds'[i].on
    <3>1. CASE i \in 1 .. Len(cmds)
      <4>1. cmds'[i] = cmds[i] /\ cmds[i].on # 0
        BY <1>3, <2>1, <3>1, Types, CommandTypes, Constants DEF RegInv
      <4> QED
        BY <1>1, <2>1, <3>1, <4>1 DEF RegInv, OwnInv
    <3>2. CASE i = Len(cmds) + 1 /\ cmds'[i].on = id
      BY <1>1, <3>2
    <3> QED
      BY <1>3, <3>1, <3>2
  <2>2. ASSUME NEW i \in 1 .. Len(cmds'), NEW j \in 1 .. Len(cmds'),
               cmds'[i].op = "release", cmds'[j].op = "release", cmds'[i].on = cmds'[j].on
        PROVE  i = j
    BY <1>3, <2>2 DEF RegInv, OwnInv
  <2>3. /\ \A h, k \in Connectors : cell'[h] = cell'[k] /\ cell'[h] # 0 => h = k
        /\ \A h \in Connectors : cell'[h] \notin listeners' \cup channels'
        /\ \A n \in Calls, h \in Connectors : fut'[n].id = cell'[h] => fut'[n].id = 0
    <3>1. 0 \notin listeners \cup channels
      BY Types, Constants DEF RegInv
    <3> QED
      BY <1>1, <3>1 DEF RegInv, OwnInv
  <2>4. /\ \A n, m \in Calls : fut'[n].id = fut'[m].id /\ fut'[n].id # 0 => n = m
        /\ listeners' \cap channels' = {}
        /\ \A n \in Calls : fut'[n].id \notin listeners' \cup channels'
    BY <1>1 DEF RegInv, OwnInv
  <2> QED
    BY <2>1, <2>2, <2>3, <2>4 DEF OwnInv
<1>8. KnownInv'
  <2>1. \A h \in Connectors : cell'[h] < nextId
    BY Types, Constants DEF RegInv, KnownInv
  <2>2. \A i \in 1 .. Len(cmds') : cmds'[i].on < nextId
    BY <1>3 DEF RegInv, KnownInv
  <2> QED
    BY <1>1, <2>1, <2>2 DEF RegInv, KnownInv
<1>9. CapsInv'
  <2>1. ASSUME NEW i \in 1 .. Len(cmds'), cmds'[i].op # "release"
        PROVE  /\ caps[cmds'[i].on] = Targets[cmds'[i].op]
               /\ \A j \in 1 .. i - 1 : ~(cmds'[j].op = "release" /\ cmds'[j].on = cmds'[i].on)
    <3>1. i \in 1 .. Len(cmds) /\ cmds'[i] = cmds[i]
          /\ \A j \in 1 .. i - 1 : cmds'[j] = cmds[j]
      BY <1>1, <1>3, <2>1
    <3> QED
      BY <2>1, <3>1 DEF RegInv, CapsInv
  <2>2. \A h \in Connectors : cell'[h] # 0 => cell'[h] = cell[h]
    OBVIOUS
  <2> QED
    BY <1>1, <2>1, <2>2 DEF RegInv, CapsInv, AnswerKind
<1>10. LeakInv'
  <2>1. ASSUME NEW k \in Ids, caps[k] # "none", k # id
        PROVE  \/ k \in listeners' \cup channels' \cup lost' \cup orphans'
               \/ \E n \in Calls : fut'[n].id = k
               \/ \E h \in Connectors : cell'[h] = k
               \/ Released(k)'
    <3>1. Released(k) => Released(k)'
      <4>1. 1 .. Len(cmds) \subseteq 1 .. Len(cmds')
        BY <1>1, <1>3
      <4> QED
        BY <1>3, <4>1 DEF Released
    <3> QED
      BY <1>1, <2>1, <3>1 DEF RegInv, LeakInv
  <2> QED
    BY <1>1, <1>3, <2>1 DEF LeakInv
<1> QED
  BY <1>4, <1>5, <1>6, <1>7, <1>8, <1>9, <1>10 DEF RegInv

\* The id of a listener goes from the handle to its Release.
LEMMA DropListenerStep ==
  ASSUME RegInv, DropListener PROVE RegInv'
<1>1. PICK l \in listeners :
        /\ Accepting(l) = {} /\ listeners' = listeners \ {l} /\ Release(l)
        /\ UNCHANGED <<connectors, cell, channels>>
  BY DEF DropListener
<1>2. /\ l \in Ids /\ l # 0 /\ l < nextId /\ l \notin channels
      /\ \A n \in Calls : fut[n].id # l
      /\ \A h \in Connectors : cell[h] # l
      /\ \A i \in 1 .. Len(cmds) : ~(cmds[i].op = "release" /\ cmds[i].on = l)
  BY <1>1, Types, Constants DEF RegInv, OwnInv, KnownInv
<1>3. CallInv'
  <2>1. UNCHANGED <<fut, made, connectors, cell>>
    BY <1>1 DEF Release
  <2>2. ASSUME NEW m \in Calls PROVE CallOK(m)'
    <3>1. fut[m].op = "accept" /\ fut[m].phase # "done" => fut[m].on # l
      <4>1. fut[m].phase \in Pending \cup {"done"}
        BY Types DEF RegInv, CallRecord
      <4> QED
        BY <1>1, <4>1 DEF Accepting
    <3> QED
      BY <1>1, <2>1, <3>1 DEF RegInv, CallInv, CallOK
  <2> QED
    BY <2>1, <2>2 DEF RegInv, CallInv
<1> QED
  BY <1>1, <1>2, <1>3, ReleaseStep, Types DEF RegInv, TypeOK

\* The same for a channel.
LEMMA DropChannelStep ==
  ASSUME RegInv, DropChannel PROVE RegInv'
<1>1. PICK c \in channels :
        /\ channels' = channels \ {c} /\ Release(c)
        /\ UNCHANGED <<connectors, cell, listeners>>
  BY DEF DropChannel
<1>2. /\ c \in Ids /\ c # 0 /\ c < nextId /\ c \notin listeners
      /\ \A n \in Calls : fut[n].id # c
      /\ \A h \in Connectors : cell[h] # c
      /\ \A i \in 1 .. Len(cmds) : ~(cmds[i].op = "release" /\ cmds[i].on = c)
  BY <1>1, Types, Constants DEF RegInv, OwnInv, KnownInv
<1>3. CallInv'
  BY <1>1 DEF Release, RegInv, CallInv, CallOK
<1> QED
  BY <1>1, <1>2, <1>3, ReleaseStep, Types DEF RegInv, TypeOK

\* A connector's id goes from the cell to the Release.
LEMMA DropConnectorStep ==
  ASSUME RegInv, DropConnector PROVE RegInv'
<1>1. PICK h \in connectors :
        /\ On(h) = {} /\ connectors' = connectors \ {h} /\ cell' = [cell EXCEPT ![h] = 0]
        /\ \/ cell[h] # 0 /\ Release(cell[h])
           \/ cell[h] = 0 /\ UNCHANGED <<transport, made, fut, cmds, actor, conn, caps,
                                         nextId, tasks, lost, orphans>>
        /\ UNCHANGED <<listeners, channels>>
  BY DEF DropConnector
<1>2. /\ h \in Connectors /\ cell \in [Connectors -> Ids \cup {0}]
      /\ cell' \in [Connectors -> Ids \cup {0}]
      /\ \A k \in Connectors : cell'[k] = IF k = h THEN 0 ELSE cell[k]
      /\ UNCHANGED <<fut, made, listeners, channels>>
  BY <1>1 DEF Release, RegInv, TypeOK
\* No call that is not over borrows h.
<1>3. CallInv'
  <2>1. ASSUME NEW m \in Calls PROVE CallOK(m)' /\ fut[m].by # h
    <3>1. /\ CallOK(m) /\ fut[m].phase \in Pending \cup {"done"}
          /\ fut[m].by \in Connectors \cup {NoConnector}
      BY Types DEF RegInv, CallInv, CallRecord
    <3>2. fut[m].by # h
      BY <1>1, <1>2, <3>1, Constants DEF On, CallOK, NoCall
    <3>3. fut[m].op = "connect" => fut[m].by \in Connectors \/ fut[m] = NoCall
      BY <3>1 DEF RegInv, TypeOK, CallOK
    <3>4. fut[m].by \in Connectors => cell'[fut[m].by] = cell[fut[m].by]
      BY <1>2, <3>2
    <3>5. fut[m].phase \in Initializing => fut[m].by \in Connectors
      BY <3>1, <3>3 DEF CallOK, NoCall, Initializing
    <3> QED
      BY <1>1, <1>2, <3>1, <3>2, <3>3, <3>4, <3>5 DEF CallOK, NoCall
  <2> QED
    BY <1>1, <1>2, <2>1 DEF RegInv, CallInv
<1>4. CASE cell[h] # 0 /\ Release(cell[h])
  <2> DEFINE id == cell[h]
  <2>1. /\ id \in Ids /\ id < nextId /\ id \notin listeners \cup channels
        /\ \A n \in Calls : fut[n].id # id
        /\ \A k \in Connectors : cell[k] = id <=> k = h
        /\ \A i \in 1 .. Len(cmds) : ~(cmds[i].op = "release" /\ cmds[i].on = id)
    BY <1>2, <1>4 DEF RegInv, OwnInv, KnownInv
  <2>2. connectors' \subseteq Connectors
    BY <1>1 DEF RegInv, TypeOK
  <2>3. \A k \in Connectors : cell'[k] = IF cell[k] = id THEN 0 ELSE cell[k]
    BY <1>2, <2>1
  <2>4. Release(id)
    BY <1>4
  <2> HIDE DEF id
  <2> QED
    BY <1>2, <1>3, <2>1, <2>2, <2>3, <2>4, ReleaseStep
<1>5. CASE cell[h] = 0
  <2>1. /\ UNCHANGED <<transport, made, fut, cmds, actor, conn, caps, nextId, tasks, lost,
                       orphans, listeners, channels, cell>>
    <3>1. cell' = cell
      BY <1>2, <1>5
    <3> QED
      BY <1>1, <1>5, <3>1
  <2>2. TypeOK' /\ PlaceInv' /\ CountInv' /\ OwnInv' /\ KnownInv' /\ CapsInv' /\ LeakInv'
    <3>1. TypeOK' /\ PlaceInv'
      BY <1>1, <2>1 DEF RegInv, TypeOK, PlaceInv, CommandOK, Expects
    <3>2. CountInv'
      <4>1. \A m \in Calls : (MayAsk(m)' => MayAsk(m)) /\ (MayMake(m)' => MayMake(m))
        BY <2>1 DEF MayAsk, MayMake
      <4> QED
        BY <2>1, <4>1, CountShrinks DEF RegInv
    <3>3. OwnInv' /\ KnownInv' /\ CapsInv' /\ LeakInv'
      BY <2>1 DEF RegInv, OwnInv, KnownInv, CapsInv, AnswerKind, LeakInv, Released
    <3> QED
      BY <3>1, <3>2, <3>3
  <2> QED
    BY <1>3, <2>2 DEF RegInv
<1> QED
  BY <1>1, <1>4, <1>5

\* The transport handle has nothing to release.
LEMMA DropTransportStep ==
  ASSUME RegInv, DropTransport PROVE RegInv'
<1>1. transport' = FALSE /\ UNCHANGED <<connectors, listeners, channels, cell, made, fut,
                                        cmds, actor, conn, caps, nextId, tasks, lost, orphans>>
  BY DEF DropTransport
<1>2. CountInv'
  <2>1. \A m \in Calls : (MayAsk(m)' => MayAsk(m)) /\ (MayMake(m)' => MayMake(m))
    BY <1>1 DEF MayAsk, MayMake
  <2> QED
    BY <1>1, <2>1, CountShrinks DEF RegInv
<1>3. TypeOK' /\ CallInv' /\ PlaceInv'
  <2>1. TypeOK'
    BY <1>1 DEF RegInv, TypeOK
  <2>2. CallInv'
    BY <1>1 DEF RegInv, CallInv, CallOK
  <2>3. PlaceInv'
    <3>1. \A i \in 1 .. Len(cmds) : CommandOK(i) => CommandOK(i)'
      BY <1>1 DEF CommandOK, Expects
    <3> QED
      BY <1>1, <3>1 DEF RegInv, PlaceInv, Expects
  <2> QED
    BY <2>1, <2>2, <2>3
<1>4. OwnInv' /\ KnownInv' /\ CapsInv' /\ LeakInv'
  BY <1>1 DEF RegInv, OwnInv, KnownInv, CapsInv, AnswerKind, LeakInv, Released
<1> QED
  BY <1>2, <1>3, <1>4 DEF RegInv

(***************************************************************************)
(* The actor's steps.                                                      *)
(***************************************************************************)
\* The thread starts, or the connection goes: no call, command or id changes.
LEMMA LifeStep ==
  ASSUME RegInv, Start \/ Disconnect PROVE RegInv'
<1>1. /\ actor # "stopped" /\ actor' = "running" /\ conn' \in {"up", "down"}
      /\ UNCHANGED <<transport, connectors, listeners, channels, cell, made, fut,
                     cmds, caps, nextId, tasks, lost, orphans>>
  BY DEF Start, Disconnect, handles, RegInv, TypeOK
<1>2. CountInv'
  <2>1. \A m \in Calls : (MayAsk(m)' => MayAsk(m)) /\ (MayMake(m)' => MayMake(m))
    BY <1>1 DEF MayAsk, MayMake
  <2> QED
    BY <1>1, <2>1, CountShrinks DEF RegInv
<1>3. TypeOK' /\ CallInv' /\ PlaceInv'
  <2>1. TypeOK'
    BY <1>1 DEF RegInv, TypeOK
  <2>2. CallInv'
    BY <1>1 DEF RegInv, CallInv, CallOK
  <2>3. PlaceInv'
    <3>1. \A i \in 1 .. Len(cmds) : CommandOK(i) => CommandOK(i)'
      BY <1>1 DEF CommandOK, Expects
    <3>2. actor' # "starting" /\ actor' # "stopped"
      BY <1>1
    <3> QED
      BY <1>1, <3>1, <3>2 DEF RegInv, PlaceInv, Expects
  <2> QED
    BY <2>1, <2>2, <2>3
<1>4. OwnInv' /\ KnownInv' /\ CapsInv' /\ LeakInv'
  BY <1>1 DEF RegInv, OwnInv, KnownInv, CapsInv, AnswerKind, LeakInv, Released
<1> QED
  BY <1>2, <1>3, <1>4 DEF RegInv

\* The thread ends: queue, tasks and registry go, and who waited is answered.
LEMMA EndStep ==
  ASSUME RegInv,
         actor' = "stopped", conn' = "down", cmds' = <<>>, tasks' = {},
         caps' = [id \in DOMAIN caps |-> "none"],
         fut' = [n \in Calls |-> IF HearsDrop(n)
                                 THEN [fut[n] EXCEPT !.phase = "ready"] ELSE fut[n]],
         UNCHANGED <<handles, cell, made, nextId, lost, orphans>>
  PROVE  RegInv'
<1>1. /\ fut \in [Calls -> CallRecord] /\ fut' \in [Calls -> CallRecord]
      /\ \A n \in Calls :
           /\ fut'[n].op = fut[n].op /\ fut'[n].by = fut[n].by /\ fut'[n].on = fut[n].on
           /\ fut'[n].id = fut[n].id
           /\ HearsDrop(n) => fut'[n].phase = "ready"
           /\ ~HearsDrop(n) => fut'[n] = fut[n]
  <2>1. fut \in [Calls -> CallRecord] /\ \A n \in Calls : fut[n] \in CallRecord
    BY Types DEF RegInv
  <2>2. ASSUME NEW r \in CallRecord
        PROVE  LET q == [r EXCEPT !.phase = "ready"]
               IN  /\ q \in CallRecord /\ q.op = r.op /\ q.by = r.by /\ q.on = r.on
                   /\ q.id = r.id /\ q.phase = "ready"
    BY <2>2 DEF CallRecord, Pending
  <2>3. \A n \in Calls : fut'[n] = IF HearsDrop(n) THEN [fut[n] EXCEPT !.phase = "ready"]
                                                   ELSE fut[n]
    OBVIOUS
  <2>4. \A n \in Calls : fut'[n] \in CallRecord
    BY <2>1, <2>2, <2>3
  <2>5. fut' \in [Calls -> CallRecord]
    BY <2>4
  <2> QED
    BY <2>1, <2>2, <2>3, <2>5
<1>2. /\ UNCHANGED <<transport, connectors, listeners, channels, cell, made, nextId, lost,
                     orphans>>
      /\ \A id \in Ids \cup {Bootstrap} : caps'[id] = "none"
      /\ caps' \in [Ids \cup {Bootstrap} -> Kinds \cup {"none"}]
      /\ Len(cmds') = 0 /\ cmds' \in Seq(Command)
  BY DEF RegInv, TypeOK, handles
<1>3. TypeOK'
  <2>1. Len(cmds') <= QueueDepth
    BY <1>2, Constants
  <2> QED
    BY <1>1, <1>2, <2>1 DEF RegInv, TypeOK, CallRecord
<1>4. CallInv'
  <2>1. ASSUME NEW m \in Calls PROVE CallOK(m)'
    <3>1. CASE HearsDrop(m)
      <4>1. made \in Nat /\ m \in Nat /\ CallOK(m)
        BY Types, Constants DEF RegInv, CallInv
      <4> QED
        BY <1>1, <1>2, <3>1, <4>1 DEF CallOK, HearsDrop, Initializing, NoCall
    <3>2. CASE ~HearsDrop(m)
      BY <1>1, <1>2, <3>2 DEF RegInv, CallInv, CallOK
    <3> QED
      BY <3>1, <3>2
  <2>2. \A m, k \in Calls :
          /\ fut'[m].phase \in Initializing /\ fut'[k].phase \in Initializing
          /\ fut'[m].by = fut'[k].by
          => m = k
    BY <1>1 DEF RegInv, CallInv, Initializing
  <2> QED
    BY <1>2, <2>1, <2>2 DEF RegInv, CallInv
<1>5. PlaceInv'
  BY <1>2 DEF PlaceInv
<1>6. CountInv'
  <2>1. ASSUME NEW m \in Calls
        PROVE  (MayAsk(m)' => MayAsk(m)) /\ (MayMake(m)' => MayMake(m))
    BY <1>1, <1>2 DEF MayAsk, MayMake, Initializing
  <2> QED
    BY <1>2, <2>1, CountShrinks DEF RegInv
<1>7. OwnInv'
  BY <1>1, <1>2 DEF RegInv, OwnInv
<1>8. KnownInv'
  BY <1>1, <1>2 DEF RegInv, KnownInv
<1>9. CapsInv'
  BY <1>2 DEF CapsInv
<1>10. LeakInv'
  BY <1>2 DEF LeakInv
<1> QED
  BY <1>3, <1>4, <1>5, <1>6, <1>7, <1>8, <1>9, <1>10 DEF RegInv

\* The process does not start: the queue goes, and with it its commands.
LEMMA SpawnFailsStep ==
  ASSUME RegInv, SpawnFails PROVE RegInv'
<1>1. tasks = {} /\ tasks' = tasks
  BY DEF SpawnFails, RegInv, PlaceInv
<1> QED
  BY <1>1, EndStep DEF SpawnFails

\* The actor returns: the registry goes.
LEMMA ActorStopsStep ==
  ASSUME RegInv, ActorStops PROVE RegInv'
<1>1. \A n \in Calls : ~HearsDrop(n)
  BY DEF ActorStops, Unused, HearsDrop, Pending, Initializing
<1>2. fut' = [n \in Calls |-> IF HearsDrop(n)
                              THEN [fut[n] EXCEPT !.phase = "ready"] ELSE fut[n]]
  BY <1>1 DEF ActorStops, RegInv, TypeOK
<1> QED
  BY <1>2, EndStep DEF ActorStops

\* The head of the queue is served: its call may change, and get a task.
LEMMA ServedPlace ==
  ASSUME RegInv, actor = "running", UNCHANGED <<actor, made>>,
         cmds # <<>>, cmds' = Tail(cmds),
         \A m \in Calls : m # Head(cmds).call => fut'[m] = fut[m],
         \A t \in tasks' \ tasks : /\ t.call = Head(cmds).call /\ Head(cmds).op # "release"
                                   /\ Expects(t.call, t.op)',
         \A t, u \in tasks' \ tasks : t = u
  PROVE  PlaceInv'
<1>1. /\ Len(cmds) \in Nat \ {0} /\ Len(cmds') = Len(cmds) - 1
      /\ \A i \in 1 .. Len(cmds') : cmds'[i] = cmds[i + 1] /\ i + 1 \in 1 .. Len(cmds)
      /\ Head(cmds) = cmds[1] /\ 1 \in 1 .. Len(cmds) /\ Head(cmds) \in Command
  <2>1. cmds \in Seq(Command)
    BY Types DEF RegInv
  <2> QED
    BY <2>1, Removed
<1> DEFINE n == Head(cmds).call
<1>2. Head(cmds).op # "release" =>
        /\ n \in Calls /\ n <= made /\ CommandOK(1) /\ \A t \in tasks : t.call # n
  BY <1>1, CommandTypes DEF RegInv, PlaceInv, CommandOK
<1>3. Head(cmds).op = "release" => n \notin Calls
  BY <1>1, CommandTypes, Constants
<1>4. n = cmds[1].call
  BY <1>1
<1> HIDE DEF n
<1>5. ASSUME NEW i \in 1 .. Len(cmds'), cmds'[i].op # "release" PROVE CommandOK(i)'
  <2>1. /\ cmds'[i] = cmds[i + 1] /\ i + 1 \in 1 .. Len(cmds) /\ CommandOK(i + 1)
        /\ cmds[i + 1].call \in Calls
    BY <1>1, <1>5, Types, CommandTypes DEF RegInv, PlaceInv
  <2>2. cmds[i + 1].call # n
    <3>1. CommandOK(i + 1) => (cmds[1].call = cmds[i + 1].call => 1 = i + 1)
      BY <1>1 DEF CommandOK
    <3> QED
      BY <1>4, <2>1, <3>1
  <2>3. fut'[cmds[i + 1].call] = fut[cmds[i + 1].call]
    BY <2>1, <2>2 DEF n
  <2>4. \A j \in 1 .. Len(cmds') : cmds'[j].call = cmds[i + 1].call => j = i
    BY <1>1, <2>1 DEF CommandOK
  <2>5. \A t \in tasks' : t.call # cmds[i + 1].call
    BY <2>1, <2>2 DEF CommandOK, n
  <2> QED
    BY <2>1, <2>3, <2>4, <2>5 DEF CommandOK, Expects
<1>6. ASSUME NEW t \in tasks' PROVE t.call <= made' /\ Expects(t.call, t.op)'
  <2>1. CASE t \in tasks
    <3>1. t.call \in Calls /\ t.call # n
      BY <1>2, <1>3, <2>1 DEF RegInv, TypeOK
    <3>2. fut'[t.call] = fut[t.call]
      BY <3>1 DEF n
    <3> QED
      BY <2>1, <3>2 DEF RegInv, PlaceInv, Expects
  <2>2. CASE t \notin tasks
    BY <1>2, <1>6, <2>2 DEF n
  <2> QED
    BY <2>1, <2>2
<1>7. ASSUME NEW t \in tasks', NEW u \in tasks', t.call = u.call PROVE t = u
  <2>1. \A v \in tasks : v.call # n
    BY <1>2, <1>3 DEF RegInv, TypeOK
  <2> QED
    BY <1>7, <2>1 DEF RegInv, PlaceInv, n
<1> QED
  BY <1>5, <1>6, <1>7 DEF PlaceInv

\* A task is over: its call may change.
LEMMA TaskGone ==
  ASSUME RegInv, NEW t \in tasks, tasks' = tasks \ {t}, UNCHANGED <<actor, made, cmds>>,
         \A m \in Calls : m # t.call => fut'[m] = fut[m]
  PROVE  PlaceInv' /\ t.call \in Calls /\ t.call <= made
<1>1. t.call \in Calls /\ t.call <= made
  BY DEF RegInv, TypeOK, PlaceInv
<1>2. ASSUME NEW i \in 1 .. Len(cmds'), cmds'[i].op # "release" PROVE CommandOK(i)'
  <2>1. CommandOK(i) /\ cmds[i].call \in Calls /\ cmds[i].call # t.call
    BY <1>2, Types, CommandTypes DEF RegInv, PlaceInv, CommandOK
  <2> QED
    BY <2>1 DEF CommandOK, Expects
<1>3. ASSUME NEW u \in tasks' PROVE u.call <= made' /\ Expects(u.call, u.op)'
  <2>1. u \in tasks /\ u.call # t.call /\ u.call \in Calls
    BY <1>3 DEF RegInv, TypeOK, PlaceInv
  <2> QED
    BY <2>1 DEF RegInv, PlaceInv, Expects
<1> QED
  BY <1>1, <1>2, <1>3 DEF RegInv, PlaceInv

\* A new capability, under an id of its own, for call n or for nobody; the
\* command that asked for it may have left the queue.
LEMMA Stored ==
  ASSUME RegInv, NEW n \in Calls, NEW kind \in Kinds, NEW phase \in {"resolving", "waiting"},
         NEW next \in {"named", "ready"}, Store(n, kind, phase, next),
         FreshId \in Ids, nextId + 1 \in 1 .. 2 * MaxCalls + 1,
         phase = "resolving" <=> next = "named",
         fut[n].phase = "resolving" /\ phase = "resolving" => kind = "connector",
         fut[n].phase = "waiting" /\ phase = "waiting" =>
           kind = Products[fut[n].op] /\ fut[n].op # "configure",
         actor # "stopped",
         NEW d \in {0, 1}, cmds' \in Seq(Command), Len(cmds') = Len(cmds) - d,
         \A i \in 1 .. Len(cmds') : cmds'[i] = cmds[i + d],
         d = 1 => cmds[1].op # "release",
         tasks' \subseteq tasks,
         UNCHANGED <<handles, cell, made, actor, conn, lost>>
  PROVE  /\ TypeOK' /\ CallInv' /\ OwnInv' /\ KnownInv' /\ CapsInv' /\ LeakInv'
         /\ nextId' = nextId + 1 /\ (fut[n].phase # phase => fut' = fut)
         /\ fut[n].phase = phase => fut'[n].phase = next
         /\ \A m \in Calls : m # n => fut'[m] = fut[m]
<1> DEFINE new == FreshId
<1>1. /\ caps' = [caps EXCEPT ![new] = kind] /\ nextId' = nextId + 1 /\ new = nextId
      /\ new \in Ids /\ new # 0 /\ new # Bootstrap /\ nextId \in Nat /\ nextId >= 1
      /\ UNCHANGED <<transport, connectors, listeners, channels, cell, made, actor, conn, lost>>
      /\ fut \in [Calls -> CallRecord]
  BY Types, Constants DEF Store, FreshId, RegInv, handles
<1>2. \/ /\ fut[n].phase = phase
         /\ fut' = [fut EXCEPT ![n].phase = next, ![n].id = new]
         /\ UNCHANGED orphans
      \/ fut[n].phase # phase /\ fut' = fut /\ orphans' = orphans \cup {new}
  BY DEF Store
<1> HIDE DEF new
<1>3. /\ fut' \in [Calls -> CallRecord]
      /\ \A m \in Calls : m # n => fut'[m] = fut[m]
      /\ fut'[n].op = fut[n].op /\ fut'[n].by = fut[n].by /\ fut'[n].on = fut[n].on
      /\ \/ fut[n].phase = phase /\ fut'[n].phase = next /\ fut'[n].id = new
         \/ fut[n].phase # phase /\ fut'[n] = fut[n]
      /\ fut[n].phase = phase => fut[n].id = 0
  <2>1. fut[n].phase = phase => fut[n].id = 0
    BY DEF RegInv, CallInv, CallOK
  <2> QED
    BY <1>1, <1>2, <2>1 DEF CallRecord, Pending, Initializing
<1>4. /\ Len(cmds) \in Nat /\ Len(cmds') \in Nat
      /\ \A i \in 1 .. Len(cmds') : i + d \in 1 .. Len(cmds)
  BY Types DEF RegInv
<1>5. /\ new \notin listeners \cup channels
      /\ \A m \in Calls : fut[m].id # new
      /\ \A h \in Connectors : cell[h] # new
      /\ \A i \in 1 .. Len(cmds) : cmds[i].on # new
  BY <1>1, Types DEF RegInv, KnownInv
<1>6. TypeOK'
  <2>1. Len(cmds') <= QueueDepth
    BY <1>4, Constants DEF RegInv, TypeOK
  <2>2. caps' \in [Ids \cup {Bootstrap} -> Kinds \cup {"none"}] /\ orphans' \subseteq Ids
    BY <1>1, <1>2 DEF RegInv, TypeOK
  <2> QED
    BY <1>1, <1>3, <2>1, <2>2 DEF RegInv, TypeOK, CallRecord
<1>7. CallInv'
  <2>1. ASSUME NEW m \in Calls PROVE CallOK(m)'
    <3>1. CASE m = n /\ fut[n].phase = phase
      <4>1. made \in Nat /\ n \in Nat /\ CallOK(n) /\ fut[n] \in CallRecord
        BY Types, Constants DEF RegInv, CallInv
      <4>2. phase = "resolving" => fut[n].op = "connect"
        BY <3>1, <4>1 DEF CallOK
      <4>3. CASE phase = "resolving" /\ next = "named"
        BY <1>1, <1>3, <3>1, <4>1, <4>2, <4>3 DEF CallOK, NoCall, Initializing
      <4>4. CASE phase = "waiting" /\ next = "ready"
        BY <1>1, <1>3, <3>1, <4>1, <4>4 DEF CallOK, NoCall, Initializing
      <4> QED
        BY <4>3, <4>4
    <3>2. CASE fut'[m] = fut[m]
      BY <1>1, <3>2 DEF RegInv, CallInv, CallOK
    <3> QED
      BY <1>3, <3>1, <3>2
  <2>2. \A m \in Calls : fut'[m].by = fut[m].by
                         /\ (fut'[m].phase \in Initializing => fut[m].phase \in Initializing)
    BY <1>3 DEF Initializing
  <2> QED
    BY <1>1, <2>1, <2>2 DEF RegInv, CallInv
<1>8. OwnInv'
  <2>1. /\ \A i, j \in 1 .. Len(cmds') :
             cmds'[i].op = "release" /\ cmds'[j].op = "release" /\ cmds'[i].on = cmds'[j].on
             => i = j
    <3>1. ASSUME NEW i \in 1 .. Len(cmds'), NEW j \in 1 .. Len(cmds'),
                 cmds'[i].op = "release", cmds'[j].op = "release", cmds'[i].on = cmds'[j].on
          PROVE  i = j
      <4>1. /\ cmds'[i] = cmds[i + d] /\ i + d \in 1 .. Len(cmds)
            /\ cmds'[j] = cmds[j + d] /\ j + d \in 1 .. Len(cmds)
        BY <1>4
      <4>2. i + d = j + d
        BY <3>1, <4>1 DEF RegInv, OwnInv
      <4> QED
        BY <4>2
    <3> QED
      BY <3>1
  <2>2. ASSUME NEW i \in 1 .. Len(cmds'), cmds'[i].op = "release"
        PROVE  /\ cmds'[i].on \notin listeners \cup channels
               /\ \A m \in Calls : fut'[m].id # cmds'[i].on
               /\ \A h \in Connectors : cell[h] # cmds'[i].on
    <3>1. /\ cmds'[i] = cmds[i + d] /\ i + d \in 1 .. Len(cmds)
          /\ cmds[i + d].op = "release" /\ cmds[i + d].on # new
      BY <1>4, <1>5, <2>2
    <3>2. /\ cmds[i + d].on \notin listeners \cup channels
          /\ \A m \in Calls : fut[m].id # cmds[i + d].on
          /\ \A h \in Connectors : cell[h] # cmds[i + d].on
      BY <3>1 DEF RegInv, OwnInv
    <3> QED
      BY <1>3, <3>1, <3>2
  <2>3. /\ \A m, k \in Calls : fut'[m].id = fut'[k].id /\ fut'[m].id # 0 => m = k
        /\ \A m \in Calls : fut'[m].id \notin listeners \cup channels
        /\ \A m \in Calls, h \in Connectors : fut'[m].id = cell[h] => fut'[m].id = 0
    BY <1>3, <1>5 DEF RegInv, OwnInv
  <2> QED
    BY <1>1, <2>1, <2>2, <2>3 DEF RegInv, OwnInv
<1>9. KnownInv'
  <2>0. \A id \in Ids \cup {0, Bootstrap} : id < nextId => id < nextId + 1
    <3>1. \A id \in Ids \cup {0, Bootstrap} : id \in Nat
      BY Constants
    <3>2. PICK k \in Nat : k = nextId
      BY <1>1
    <3>3. \A id \in Nat : id < k => id < k + 1
      OBVIOUS
    <3> QED
      BY <3>1, <3>2, <3>3
  <2>1. /\ \A id \in listeners \cup channels : id < nextId + 1
        /\ \A h \in Connectors : cell[h] < nextId + 1
    BY <2>0, Types DEF RegInv, KnownInv
  <2>2. \A m \in Calls : fut'[m].id < nextId + 1
    <3>1. \A m \in Calls : fut[m].id < nextId + 1
      BY <2>0, Types DEF RegInv, KnownInv, CallRecord
    <3>2. new < nextId + 1
      BY <1>1
    <3> QED
      BY <1>3, <3>1, <3>2
  <2>3. \A i \in 1 .. Len(cmds') : cmds'[i].on < nextId + 1
    <3>1. \A i \in 1 .. Len(cmds) : cmds[i].on < nextId + 1
      BY <2>0, Types, CommandTypes DEF RegInv, KnownInv
    <3> QED
      BY <1>4, <3>1
  <2> QED
    BY <1>1, <2>1, <2>2, <2>3 DEF KnownInv
<1>10. CapsInv'
  <2>1. /\ caps'[new] = kind
        /\ \A id \in Ids \cup {Bootstrap} : id # new => caps'[id] = caps[id]
    BY <1>1 DEF RegInv, TypeOK
  <2>2. ASSUME NEW i \in 1 .. Len(cmds'), cmds'[i].op # "release"
        PROVE  /\ caps'[cmds'[i].on] = Targets[cmds'[i].op]
               /\ \A j \in 1 .. i - 1 : ~(cmds'[j].op = "release" /\ cmds'[j].on = cmds'[i].on)
    <3>1. /\ cmds'[i] = cmds[i + d] /\ i + d \in 1 .. Len(cmds)
          /\ \A j \in 1 .. i - 1 : cmds'[j] = cmds[j + d] /\ j + d \in 1 .. i + d - 1
      BY <1>4
    <3>2. cmds[i + d].on \in Ids \cup {Bootstrap} /\ cmds[i + d].on # new
      BY <1>5, <3>1, Types, CommandTypes DEF RegInv
    <3>3. /\ caps[cmds[i + d].on] = Targets[cmds[i + d].op]
          /\ \A j \in 1 .. i + d - 1 :
               ~(cmds[j].op = "release" /\ cmds[j].on = cmds[i + d].on)
      BY <2>2, <3>1 DEF RegInv, CapsInv
    <3> QED
      BY <2>1, <3>1, <3>2, <3>3
  <2>3. ASSUME NEW m \in Calls, fut'[m].id # 0 PROVE caps'[fut'[m].id] = AnswerKind(m)'
    <3>1. CASE m = n /\ fut[n].phase = phase
      <4>1. caps'[fut'[m].id] = kind /\ fut'[m].phase = next /\ fut'[m].op = fut[n].op
        BY <1>3, <2>1, <3>1
      <4> QED
        BY <3>1, <4>1 DEF AnswerKind
    <3>2. CASE fut'[m] = fut[m]
      <4>1. fut[m].id \in Ids /\ fut[m].id # new
        BY <1>1, <1>5, <2>3, <3>2 DEF CallRecord
      <4> QED
        BY <2>1, <2>3, <3>2, <4>1 DEF RegInv, CapsInv, AnswerKind
    <3> QED
      BY <1>3, <3>1, <3>2
  <2>4. /\ caps'[Bootstrap] = "transport"
        /\ \A l \in listeners : caps'[l] = "listener"
        /\ \A c \in channels : caps'[c] = "channel"
    BY <1>1, <1>5, <2>1, Types DEF RegInv, CapsInv
  <2>5. \A h \in Connectors : cell[h] # 0 => caps'[cell[h]] = "connector"
    BY <1>5, <2>1, Types DEF RegInv, CapsInv
  <2> QED
    BY <1>1, <2>2, <2>3, <2>4, <2>5 DEF CapsInv
<1>11. LeakInv'
  <2>1. ASSUME NEW id \in Ids, caps'[id] # "none"
        PROVE  \/ id \in listeners \cup channels \cup lost \cup orphans'
               \/ \E m \in Calls : fut'[m].id = id
               \/ \E h \in Connectors : cell[h] = id
               \/ Released(id)'
    <3>1. CASE id = new
      BY <1>2, <1>3, <3>1
    <3>2. CASE id # new
      <4>1. caps[id] # "none" /\ orphans \subseteq orphans'
        BY <1>1, <1>2, <2>1, <3>2 DEF RegInv, TypeOK
      <4>2. ASSUME NEW m \in Calls, fut[m].id = id PROVE fut'[m].id = id
        BY <1>3, <4>2, Constants
      <4>3. Released(id) => Released(id)'
        <5>1. ASSUME NEW i \in 1 .. Len(cmds), cmds[i].op = "release", cmds[i].on = id
              PROVE  Released(id)'
          <6>1. i - d \in 1 .. Len(cmds') /\ (i - d) + d = i
            BY <1>4, <5>1
          <6>2. cmds'[i - d] = cmds[i]
            BY <6>1
          <6> QED
            BY <5>1, <6>1, <6>2 DEF Released
        <5> QED
          BY <5>1 DEF Released
      <4> QED
        BY <4>1, <4>2, <4>3 DEF RegInv, LeakInv
    <3> QED
      BY <3>1, <3>2
  <2> QED
    BY <1>1, <2>1 DEF LeakInv
<1> QED
  BY <1>1, <1>2, <1>3, <1>6, <1>7, <1>8, <1>9, <1>10, <1>11

\* The actor makes a connector, and answers with its id.
LEMMA ServeConnectorStep ==
  ASSUME RegInv, ServeConnector PROVE RegInv'
<1>0. PICK n : n = Head(cmds).call
  OBVIOUS
<1>1. /\ actor = "running" /\ cmds # <<>> /\ Head(cmds).op = "connector" /\ cmds' = Tail(cmds)
      /\ Store(n, "connector", "resolving", "named")
      /\ UNCHANGED <<handles, cell, made, actor, conn, tasks, lost>>
  BY <1>0 DEF ServeConnector, Serve
<1>2. /\ cmds' \in Seq(Command) /\ Len(cmds) \in Nat \ {0} /\ Len(cmds') = Len(cmds) - 1
      /\ \A i \in 1 .. Len(cmds') : cmds'[i] = cmds[i + 1] /\ i + 1 \in 1 .. Len(cmds)
      /\ Head(cmds) = cmds[1] /\ 1 \in 1 .. Len(cmds) /\ Head(cmds) \in Command
  <2>1. cmds \in Seq(Command)
    BY Types DEF RegInv
  <2> QED
    BY <1>1, <2>1, Removed
<1>3. /\ n \in Calls /\ n <= made /\ CommandOK(1) /\ cmds[1].call = n
      /\ made \in Nat /\ n \in Nat
  BY <1>0, <1>1, <1>2, CommandTypes, Types, Constants DEF RegInv, PlaceInv, CommandOK
<1>4. MayAsk(n)
  BY <1>1, <1>2, <1>3 DEF MayAsk
<1>5. FreshId \in Ids /\ nextId + 1 \in 1 .. 2 * MaxCalls + 1
  BY <1>3, <1>4, FreshIsId DEF RegInv
<1>6. /\ TypeOK' /\ CallInv' /\ OwnInv' /\ KnownInv' /\ CapsInv' /\ LeakInv'
      /\ nextId' = nextId + 1
      /\ fut[n].phase # "resolving" => fut' = fut
      /\ fut[n].phase = "resolving" => fut'[n].phase = "named"
      /\ \A m \in Calls : m # n => fut'[m] = fut[m]
  <2>1. "connector" \in Kinds
    BY DEF Kinds
  <2>2. cmds[1].op # "release" /\ actor # "stopped"
    BY <1>1, <1>2
  <2>3. 1 \in {0, 1} /\ tasks' \subseteq tasks
        /\ UNCHANGED <<handles, cell, made, actor, conn, lost>>
    BY <1>1
  <2>4. \A i \in 1 .. Len(cmds') : cmds'[i] = cmds[i + 1]
    BY <1>2
  <2> QED
    BY <1>1, <1>2, <1>3, <1>5, <2>1, <2>2, <2>3, <2>4, Stored
<1>7. PlaceInv'
  <2>1. \A m \in Calls : m # Head(cmds).call => fut'[m] = fut[m]
    BY <1>0, <1>6
  <2>2. tasks' \ tasks = {} /\ UNCHANGED <<actor, made>>
    BY <1>1
  <2> QED
    BY <1>1, <2>1, <2>2, ServedPlace
<1>8. CountInv'
  <2>1. fut[n].phase \in {"resolving", "done"}
    BY <1>1, <1>2, <1>3 DEF CommandOK
  <2>2. ASSUME NEW m \in Calls
        PROVE  (MayAsk(m)' => MayAsk(m)) /\ (MayMake(m)' => MayMake(m))
    <3>1. /\ fut'[m].phase \in {"ensuring", "asking"} => fut[m].phase \in {"ensuring", "asking"}
          /\ fut'[m].phase \in {"ensuring", "sending"} \cup Initializing =>
               fut[m].phase \in {"ensuring", "sending"} \cup Initializing
      BY <1>6, <2>1 DEF Initializing
    <3> QED
      BY <1>1, <1>2, <3>1 DEF MayAsk, MayMake
  <2>3. ~MayAsk(n)'
    <3>1. fut'[n].phase \notin {"ensuring", "asking"}
      BY <1>6, <2>1
    <3>2. \A i \in 1 .. Len(cmds') : cmds'[i].call # n
      BY <1>2, <1>3 DEF CommandOK
    <3>3. made' = made
      BY <1>1
    <3> QED
      BY <1>3, <3>1, <3>2, <3>3 DEF MayAsk
  <2> QED
    BY <1>3, <1>4, <1>6, <2>2, <2>3, CountSpent DEF RegInv
<1> QED
  BY <1>6, <1>7, <1>8 DEF RegInv

\* A task registers what its call was for.
LEMMA TaskSucceedsStep ==
  ASSUME RegInv, TaskSucceeds PROVE RegInv'
<1>1. PICK t \in tasks :
        /\ conn = "up" /\ t.op \in Factories /\ tasks' = tasks \ {t}
        /\ Store(t.call, Products[t.op], "waiting", "ready")
        /\ UNCHANGED <<handles, cell, made, cmds, actor, conn, lost>>
  BY DEF TaskSucceeds
<1> DEFINE n == t.call
<1>2. /\ n \in Calls /\ n <= made /\ made \in Nat /\ n \in Nat
      /\ Expects(n, t.op) /\ \A u \in tasks : u.call = n => u = t
      /\ \A i \in 1 .. Len(cmds) : cmds[i].op # "release" => cmds[i].call # n
  BY Types, Constants DEF RegInv, TypeOK, PlaceInv, CommandOK
<1>3. MayMake(n)
  BY DEF MayMake
<1>4. FreshId \in Ids /\ nextId + 1 \in 1 .. 2 * MaxCalls + 1
  BY <1>2, <1>3, FreshIsId DEF RegInv
<1>5. Store(n, Products[t.op], "waiting", "ready")
  BY <1>1
<1> HIDE DEF n
<1>6. /\ TypeOK' /\ CallInv' /\ OwnInv' /\ KnownInv' /\ CapsInv' /\ LeakInv'
      /\ nextId' = nextId + 1
      /\ fut[n].phase # "waiting" => fut' = fut
      /\ fut[n].phase = "waiting" => fut'[n].phase = "ready"
      /\ \A m \in Calls : m # n => fut'[m] = fut[m]
  <2>1. Products[t.op] \in Kinds
    BY <1>1 DEF Kinds, Factories, Products
  <2>2. actor # "stopped"
    BY DEF RegInv, PlaceInv
  <2>3. /\ 0 \in {0, 1} /\ tasks' \subseteq tasks
        /\ UNCHANGED <<handles, cell, made, actor, conn, lost>>
    BY <1>1
  <2>4. /\ cmds' \in Seq(Command) /\ Len(cmds') = Len(cmds) - 0
        /\ \A i \in 1 .. Len(cmds') : cmds'[i] = cmds[i + 0]
    <3>1. cmds' = cmds /\ cmds \in Seq(Command)
      BY <1>1, Types DEF RegInv
    <3> QED
      BY <3>1
  <2>5. fut[n].phase = "waiting" => Products[t.op] = Products[fut[n].op]
                                    /\ fut[n].op # "configure"
    BY <1>1, <1>2 DEF Expects, Factories
  <2>6. /\ "waiting" \in {"resolving", "waiting"} /\ "ready" \in {"named", "ready"}
        /\ ("waiting" = "resolving" <=> "ready" = "named") /\ ~(0 = 1)
        /\ "waiting" # "resolving"
    OBVIOUS
  <2> QED
    BY <1>2, <1>4, <1>5, <2>1, <2>2, <2>3, <2>4, <2>5, <2>6, Stored
<1>7. PlaceInv'
  <2>1. \A m \in Calls : m # t.call => fut'[m] = fut[m]
    BY <1>6 DEF n
  <2> QED
    BY <1>1, <2>1, TaskGone
<1>8. CountInv'
  <2>1. fut'[n].phase \in {"ready", "done"}
    BY <1>2, <1>6 DEF Expects
  <2>2. ASSUME NEW m \in Calls
        PROVE  (MayAsk(m)' => MayAsk(m)) /\ (MayMake(m)' => MayMake(m))
    <3>1. /\ fut'[m].phase \in {"ensuring", "asking"} => fut[m].phase \in {"ensuring", "asking"}
          /\ fut'[m].phase \in {"ensuring", "sending"} \cup Initializing =>
               fut[m].phase \in {"ensuring", "sending"} \cup Initializing
      BY <1>6, <2>1 DEF Initializing
    <3> QED
      BY <1>1, <3>1 DEF MayAsk, MayMake
  <2>3. ~MayMake(n)'
    <3>1. \A u \in tasks' : u.call # n
      BY <1>1, <1>2
    <3>2. \A i \in 1 .. Len(cmds') : cmds'[i].op \in Requests => cmds'[i].call # n
      BY <1>1, <1>2 DEF Requests, Factories
    <3>3. made' = made
      BY <1>1
    <3> QED
      BY <1>2, <2>1, <3>1, <3>2, <3>3 DEF MayMake, Initializing
  <2> QED
    BY <1>2, <1>3, <1>6, <2>2, <2>3, CountSpent DEF RegInv
<1> QED
  BY <1>6, <1>7, <1>8 DEF RegInv

\* The queue without its head, where that was not a Release: ids stay as they are.
LEMMA HeadServed ==
  ASSUME RegInv, cmds # <<>>, cmds' = Tail(cmds), Head(cmds).op # "release",
         UNCHANGED <<handles, cell, made, fut, actor, conn, caps, nextId, lost, orphans>>
  PROVE  /\ CallInv' /\ OwnInv' /\ KnownInv' /\ CapsInv' /\ LeakInv'
         /\ cmds' \in Seq(Command) /\ Len(cmds') <= QueueDepth
<1>1. /\ cmds' \in Seq(Command) /\ Len(cmds) \in Nat \ {0} /\ Len(cmds') = Len(cmds) - 1
      /\ \A i \in 1 .. Len(cmds') : cmds'[i] = cmds[i + 1] /\ i + 1 \in 1 .. Len(cmds)
      /\ Head(cmds) = cmds[1]
  <2>1. cmds \in Seq(Command)
    BY Types DEF RegInv
  <2> QED
    BY <2>1, Removed
<1>2. UNCHANGED <<transport, connectors, listeners, channels>>
  BY DEF handles
<1>3. CallInv'
  BY <1>2 DEF RegInv, CallInv, CallOK
<1>4. OwnInv'
  <2>1. ASSUME NEW i \in 1 .. Len(cmds'), NEW j \in 1 .. Len(cmds'),
               cmds'[i].op = "release", cmds'[j].op = "release", cmds'[i].on = cmds'[j].on
        PROVE  i = j
    <3>1. i + 1 = j + 1
      BY <1>1, <2>1 DEF RegInv, OwnInv
    <3> QED
      BY <3>1
  <2>2. ASSUME NEW i \in 1 .. Len(cmds'), cmds'[i].op = "release"
        PROVE  /\ cmds'[i].on \notin listeners \cup channels
               /\ \A m \in Calls : fut[m].id # cmds'[i].on
               /\ \A h \in Connectors : cell[h] # cmds'[i].on
    BY <1>1, <2>2 DEF RegInv, OwnInv
  <2> QED
    BY <1>2, <2>1, <2>2 DEF RegInv, OwnInv
<1>5. KnownInv'
  BY <1>1, <1>2 DEF RegInv, KnownInv
<1>6. CapsInv'
  <2>1. ASSUME NEW i \in 1 .. Len(cmds'), cmds'[i].op # "release"
        PROVE  /\ caps[cmds'[i].on] = Targets[cmds'[i].op]
               /\ \A j \in 1 .. i - 1 : ~(cmds'[j].op = "release" /\ cmds'[j].on = cmds'[i].on)
    <3>1. /\ cmds'[i] = cmds[i + 1] /\ i + 1 \in 1 .. Len(cmds)
          /\ \A j \in 1 .. i - 1 : cmds'[j] = cmds[j + 1] /\ j + 1 \in 1 .. i + 1 - 1
      BY <1>1
    <3>2. /\ caps[cmds[i + 1].on] = Targets[cmds[i + 1].op]
          /\ \A j \in 1 .. i + 1 - 1 :
               ~(cmds[j].op = "release" /\ cmds[j].on = cmds[i + 1].on)
      BY <2>1, <3>1 DEF RegInv, CapsInv
    <3> QED
      BY <3>1, <3>2
  <2> QED
    BY <1>2, <2>1 DEF RegInv, CapsInv, AnswerKind
<1>7. LeakInv'
  <2>1. ASSUME NEW id \in Ids, Released(id) PROVE Released(id)'
    <3>1. PICK i \in 1 .. Len(cmds) : cmds[i].op = "release" /\ cmds[i].on = id
      BY <2>1 DEF Released
    <3>2. i # 1 /\ i - 1 \in 1 .. Len(cmds') /\ (i - 1) + 1 = i
      BY <1>1, <3>1
    <3>3. cmds'[i - 1] = cmds[i]
      BY <1>1, <3>2
    <3> QED
      BY <3>1, <3>2, <3>3 DEF Released
  <2> QED
    BY <1>2, <2>1 DEF RegInv, LeakInv
<1>8. Len(cmds') <= QueueDepth
  BY <1>1, Constants DEF RegInv, TypeOK
<1> QED
  BY <1>1, <1>3, <1>4, <1>5, <1>6, <1>7, <1>8

\* A command of a factory call becomes its task.
LEMMA ServeFactoryStep ==
  ASSUME RegInv, ServeFactory PROVE RegInv'
<1>1. PICK op \in Requests :
        /\ actor = "running" /\ cmds # <<>> /\ Head(cmds).op = op /\ cmds' = Tail(cmds)
        /\ tasks' = tasks \cup {[op |-> op, call |-> Head(cmds).call,
                                 found |-> caps[Head(cmds).on] = Targets[op]]}
        /\ UNCHANGED <<handles, cell, made, fut, actor, conn, caps, nextId, lost, orphans>>
  BY DEF ServeFactory, Serve
<1>2. PICK n, b : n = Head(cmds).call /\ b = (caps[Head(cmds).on] = Targets[op])
  OBVIOUS
<1>3. PICK t : t = [op |-> op, call |-> n, found |-> b]
  OBVIOUS
<1>4. /\ Head(cmds) \in Command /\ Head(cmds) = cmds[1] /\ 1 \in 1 .. Len(cmds)
      /\ Len(cmds') = Len(cmds) - 1 /\ Len(cmds) \in Nat \ {0}
      /\ \A i \in 1 .. Len(cmds') : cmds'[i] = cmds[i + 1] /\ i + 1 \in 1 .. Len(cmds)
  <2>1. cmds \in Seq(Command)
    BY Types DEF RegInv
  <2> QED
    BY <1>1, <2>1, Removed
<1>5. Head(cmds).op # "release" /\ Head(cmds).op # "connector"
  BY <1>1 DEF Requests, Factories
<1>6. n \in Calls /\ b \in BOOLEAN /\ t.call = n /\ t.op = op /\ tasks' = tasks \cup {t}
  BY <1>1, <1>2, <1>3, <1>4, <1>5, CommandTypes
<1>7. Expects(n, op)
  BY <1>1, <1>2, <1>4, <1>5 DEF RegInv, PlaceInv, CommandOK
<1>8. /\ CallInv' /\ OwnInv' /\ KnownInv' /\ CapsInv' /\ LeakInv'
      /\ cmds' \in Seq(Command) /\ Len(cmds') <= QueueDepth
  BY <1>1, <1>5, HeadServed
<1>9. TypeOK'
  <2>1. t \in [op : Requests, call : Calls, found : BOOLEAN]
    BY <1>3, <1>6
  <2> QED
    BY <1>1, <1>6, <1>8, <2>1 DEF RegInv, TypeOK, handles
<1>10. PlaceInv'
  <2>1. /\ \A u \in tasks' \ tasks : u = t
        /\ Expects(t.call, t.op)'
    BY <1>1, <1>6, <1>7 DEF Expects
  <2>2. \A u \in tasks' \ tasks : /\ u.call = Head(cmds).call /\ Head(cmds).op # "release"
                                  /\ Expects(u.call, u.op)'
    BY <1>2, <1>5, <1>6, <2>1
  <2>3. /\ \A u, v \in tasks' \ tasks : u = v
        /\ \A m \in Calls : m # Head(cmds).call => fut'[m] = fut[m]
        /\ UNCHANGED <<actor, made>>
    BY <1>1, <2>1
  <2> QED
    BY <1>1, <2>2, <2>3, ServedPlace
<1>11. CountInv'
  <2>1. ASSUME NEW m \in Calls
        PROVE  (MayAsk(m)' => MayAsk(m)) /\ (MayMake(m)' => MayMake(m))
    <3>1. m = n => MayMake(m)
      BY <1>1, <1>2, <1>4 DEF MayMake
    <3>2. m # n => \A u \in tasks' : u.call = m => u \in tasks
      BY <1>6
    <3> QED
      BY <1>1, <1>4, <3>1, <3>2 DEF MayAsk, MayMake
  <2> QED
    BY <1>1, <2>1, CountShrinks DEF RegInv
<1> QED
  BY <1>8, <1>9, <1>10, <1>11 DEF RegInv

\* The capability named by a Release goes.
LEMMA ServeReleaseStep ==
  ASSUME RegInv, ServeRelease PROVE RegInv'
<1>0. PICK id : id = Head(cmds).on
  OBVIOUS
<1>1. /\ actor = "running" /\ cmds # <<>> /\ Head(cmds).op = "release" /\ cmds' = Tail(cmds)
      /\ caps' = [caps EXCEPT ![id] = "none"]
      /\ UNCHANGED <<transport, connectors, listeners, channels, cell, made, fut, actor, conn,
                     nextId, tasks, lost, orphans>>
  BY <1>0 DEF ServeRelease, Serve, Removes, handles
<1>2. /\ cmds' \in Seq(Command) /\ Len(cmds) \in Nat \ {0} /\ Len(cmds') = Len(cmds) - 1
      /\ \A i \in 1 .. Len(cmds') : cmds'[i] = cmds[i + 1] /\ i + 1 \in 1 .. Len(cmds)
      /\ Head(cmds) = cmds[1] /\ 1 \in 1 .. Len(cmds) /\ Head(cmds) \in Command
  <2>1. cmds \in Seq(Command)
    BY Types DEF RegInv
  <2> QED
    BY <1>1, <2>1, Removed
\* Nobody has the id that is released, and no later command names it.
<1>3. /\ id \in Ids /\ id # Bootstrap /\ id \notin listeners \cup channels
      /\ \A m \in Calls : fut[m].id # id
      /\ \A h \in Connectors : cell[h] # id
      /\ \A i \in 1 .. Len(cmds') : cmds'[i].on # id
  <2>1. cmds[1].op = "release" /\ cmds[1].on = id /\ id \in Ids
    BY <1>0, <1>1, <1>2, CommandTypes
  <2>2. ASSUME NEW i \in 1 .. Len(cmds'), cmds'[i].on = id PROVE FALSE
    <3>1. cmds'[i] = cmds[i + 1] /\ i + 1 \in 1 .. Len(cmds) /\ 1 \in 1 .. i + 1 - 1
      BY <1>2
    <3>2. CASE cmds[i + 1].op = "release"
      <4>1. i + 1 = 1
        BY <1>2, <2>1, <2>2, <3>1, <3>2 DEF RegInv, OwnInv
      <4> QED
        BY <4>1
    <3>3. CASE cmds[i + 1].op # "release"
      BY <2>1, <2>2, <3>1, <3>3 DEF RegInv, CapsInv
    <3> QED
      BY <3>2, <3>3
  <2> QED
    BY <1>2, <2>1, <2>2, Constants DEF RegInv, OwnInv
<1>4. /\ caps'[id] = "none"
      /\ caps' \in [Ids \cup {Bootstrap} -> Kinds \cup {"none"}]
      /\ \A k \in Ids \cup {Bootstrap} : k # id => caps'[k] = caps[k]
  BY <1>1, <1>3 DEF RegInv, TypeOK
<1>5. TypeOK'
  <2>1. Len(cmds') <= QueueDepth
    BY <1>2, Constants DEF RegInv, TypeOK
  <2> QED
    BY <1>1, <1>2, <1>4, <2>1 DEF RegInv, TypeOK
<1>6. CallInv'
  BY <1>1 DEF RegInv, CallInv, CallOK
<1>7. PlaceInv'
  <2>1. /\ tasks' \ tasks = {} /\ UNCHANGED <<actor, made>>
        /\ \A m \in Calls : m # Head(cmds).call => fut'[m] = fut[m]
    BY <1>1
  <2> QED
    BY <1>1, <2>1, ServedPlace
<1>8. CountInv'
  <2>1. ASSUME NEW m \in Calls
        PROVE  (MayAsk(m)' => MayAsk(m)) /\ (MayMake(m)' => MayMake(m))
    BY <1>1, <1>2 DEF MayAsk, MayMake
  <2> QED
    BY <1>1, <2>1, CountShrinks DEF RegInv
<1>9. OwnInv'
  <2>1. ASSUME NEW i \in 1 .. Len(cmds'), NEW j \in 1 .. Len(cmds'),
               cmds'[i].op = "release", cmds'[j].op = "release", cmds'[i].on = cmds'[j].on
        PROVE  i = j
    <3>1. /\ cmds'[i] = cmds[i + 1] /\ i + 1 \in 1 .. Len(cmds)
          /\ cmds'[j] = cmds[j + 1] /\ j + 1 \in 1 .. Len(cmds)
      BY <1>2
    <3>2. i + 1 = j + 1
      BY <2>1, <3>1 DEF RegInv, OwnInv
    <3> QED
      BY <3>2
  <2>2. ASSUME NEW i \in 1 .. Len(cmds'), cmds'[i].op = "release"
        PROVE  /\ cmds'[i].on \notin listeners \cup channels
               /\ \A m \in Calls : fut[m].id # cmds'[i].on
               /\ \A h \in Connectors : cell[h] # cmds'[i].on
    BY <1>2, <2>2 DEF RegInv, OwnInv
  <2> QED
    BY <1>1, <2>1, <2>2 DEF RegInv, OwnInv
<1>10. KnownInv'
  BY <1>1, <1>2 DEF RegInv, KnownInv
<1>11. CapsInv'
  <2>1. ASSUME NEW i \in 1 .. Len(cmds'), cmds'[i].op # "release"
        PROVE  /\ caps'[cmds'[i].on] = Targets[cmds'[i].op]
               /\ \A j \in 1 .. i - 1 : ~(cmds'[j].op = "release" /\ cmds'[j].on = cmds'[i].on)
    <3>1. /\ cmds'[i] = cmds[i + 1] /\ i + 1 \in 1 .. Len(cmds)
          /\ \A j \in 1 .. i - 1 : cmds'[j] = cmds[j + 1] /\ j + 1 \in 1 .. i + 1 - 1
      BY <1>2
    <3>2. /\ caps[cmds[i + 1].on] = Targets[cmds[i + 1].op]
          /\ \A j \in 1 .. i + 1 - 1 :
               ~(cmds[j].op = "release" /\ cmds[j].on = cmds[i + 1].on)
      BY <2>1, <3>1 DEF RegInv, CapsInv
    <3>3. cmds[i + 1].on \in Ids \cup {Bootstrap} /\ cmds[i + 1].on # id
      BY <1>3, <3>1, Types, CommandTypes DEF RegInv
    <3>4. caps'[cmds[i + 1].on] = caps[cmds[i + 1].on]
      BY <1>4, <3>3
    <3>5. ASSUME NEW j \in 1 .. i - 1
          PROVE  ~(cmds'[j].op = "release" /\ cmds'[j].on = cmds'[i].on)
      BY <3>1, <3>2
    <3> QED
      BY <3>1, <3>2, <3>4, <3>5
  <2>2. /\ caps'[Bootstrap] = caps[Bootstrap]
        /\ \A l \in listeners \cup channels : caps'[l] = caps[l]
        /\ \A h \in Connectors : cell[h] # 0 => caps'[cell[h]] = caps[cell[h]]
        /\ \A m \in Calls : fut[m].id # 0 => caps'[fut[m].id] = caps[fut[m].id]
    BY <1>3, <1>4, Types, Constants DEF RegInv, CallRecord
  <2> QED
    BY <1>1, <2>1, <2>2 DEF RegInv, CapsInv, AnswerKind
<1>12. LeakInv'
  <2>1. ASSUME NEW k \in Ids, Released(k), k # id PROVE Released(k)'
    <3>1. PICK i \in 1 .. Len(cmds) : cmds[i].op = "release" /\ cmds[i].on = k
      BY <2>1 DEF Released
    <3>2. i # 1 /\ i - 1 \in 1 .. Len(cmds') /\ (i - 1) + 1 = i
      BY <1>0, <1>2, <2>1, <3>1
    <3>3. cmds'[i - 1] = cmds[i]
      BY <1>2, <3>2
    <3> QED
      BY <3>1, <3>2, <3>3 DEF Released
  <2> QED
    BY <1>1, <1>4, <2>1 DEF RegInv, LeakInv
<1> QED
  BY <1>5, <1>6, <1>7, <1>8, <1>9, <1>10, <1>11, <1>12 DEF RegInv

\* A task that fails registers nothing.
LEMMA TaskFailsStep ==
  ASSUME RegInv, NEW n \in Calls, TaskFails(n) PROVE RegInv'
<1>1. PICK t \in tasks :
        /\ t.call = n /\ tasks' = tasks \ {t}
        /\ fut' = IF fut[n].phase = "waiting" THEN [fut EXCEPT ![n].phase = "ready"] ELSE fut
        /\ UNCHANGED <<transport, connectors, listeners, channels, cell, made, cmds, actor,
                       conn, caps, nextId, lost, orphans>>
  BY DEF TaskFails, handles
<1>2. /\ fut \in [Calls -> CallRecord] /\ fut' \in [Calls -> CallRecord]
      /\ \A m \in Calls : m # n => fut'[m] = fut[m]
      /\ fut'[n].op = fut[n].op /\ fut'[n].by = fut[n].by /\ fut'[n].on = fut[n].on
      /\ fut'[n].id = fut[n].id
      /\ \/ fut[n].phase = "waiting" /\ fut'[n].phase = "ready"
         \/ fut[n].phase # "waiting" /\ fut'[n] = fut[n]
  <2>1. fut \in [Calls -> CallRecord]
    BY Types DEF RegInv
  <2>2. CASE fut[n].phase = "waiting"
    BY <1>1, <2>1, <2>2 DEF CallRecord, Pending
  <2>3. CASE fut[n].phase # "waiting"
    BY <1>1, <2>1, <2>3
  <2> QED
    BY <2>2, <2>3
<1>3. fut[n].phase = "waiting" => fut[n].id = 0
  BY DEF RegInv, CallInv, CallOK
<1>4. TypeOK'
  BY <1>1, <1>2 DEF RegInv, TypeOK, CallRecord
<1>5. CallInv'
  <2>1. ASSUME NEW m \in Calls PROVE CallOK(m)'
    <3>1. CASE m = n /\ fut[n].phase = "waiting"
      <4>1. made \in Nat /\ n \in Nat /\ CallOK(n)
        BY Types, Constants DEF RegInv, CallInv
      <4> QED
        BY <1>1, <1>2, <1>3, <3>1, <4>1 DEF CallOK, NoCall, Initializing
    <3>2. CASE fut'[m] = fut[m]
      <4>1. CallOK(m) /\ UNCHANGED <<made, connectors, listeners, cell>>
        BY <1>1 DEF RegInv, CallInv
      <4> QED
        BY <3>2, <4>1 DEF CallOK
    <3> QED
      BY <1>2, <3>1, <3>2
  <2>2. \A m \in Calls : fut'[m].by = fut[m].by
                         /\ (fut'[m].phase \in Initializing => fut[m].phase \in Initializing)
    BY <1>2 DEF Initializing
  <2> QED
    BY <1>1, <2>1, <2>2 DEF RegInv, CallInv
<1>6. PlaceInv'
  BY <1>1, <1>2, TaskGone
<1>7. CountInv'
  <2>1. ASSUME NEW m \in Calls
        PROVE  (MayAsk(m)' => MayAsk(m)) /\ (MayMake(m)' => MayMake(m))
    BY <1>1, <1>2 DEF MayAsk, MayMake, Initializing
  <2> QED
    BY <1>1, <2>1, CountShrinks DEF RegInv
<1>8. OwnInv'
  BY <1>1, <1>2 DEF RegInv, OwnInv
<1>9. KnownInv'
  BY <1>1, <1>2 DEF RegInv, KnownInv
<1>10. CapsInv'
  BY <1>1, <1>2, <1>3 DEF RegInv, CapsInv, AnswerKind
<1>11. LeakInv'
  BY <1>1, <1>2 DEF RegInv, LeakInv, Released
<1> QED
  BY <1>4, <1>5, <1>6, <1>7, <1>8, <1>9, <1>10, <1>11 DEF RegInv

(***************************************************************************)
(* The theorems.                                                           *)
(***************************************************************************)
LEMMA InitReg == Init => RegInv
<1> SUFFICES ASSUME Init PROVE RegInv
  OBVIOUS
<1>1. /\ connectors = Connectors /\ listeners = {} /\ channels = {}
      /\ \A h \in Connectors : cell[h] = 0
      /\ made = 0 /\ fut = [n \in Calls |-> NoCall] /\ cmds = <<>> /\ Len(cmds) = 0
      /\ actor = "starting" /\ tasks = {} /\ nextId = 1
      /\ \A id \in Ids : caps[id] = "none"
      /\ caps[Bootstrap] = "transport"
  BY Constants DEF Init, Bootstrap
<1>2. TypeOK
  <2>1. fut \in [Calls -> CallRecord]
    BY <1>1, Constants
  <2>2. caps \in [Ids \cup {Bootstrap} -> Kinds \cup {"none"}]
    BY DEF Init, Kinds
  <2>3. nextId \in 1 .. 2 * MaxCalls + 1 /\ made \in 0 .. MaxCalls /\ Len(cmds) <= QueueDepth
    BY <1>1, Constants
  <2>4. cmds \in Seq(Command)
    BY <1>1
  <2> QED
    BY <2>1, <2>2, <2>3, <2>4 DEF Init, TypeOK, CallRecord
<1>3. CallInv
  BY <1>1, Constants DEF CallInv, CallOK, NoCall, Initializing
<1>4. PlaceInv
  BY <1>1 DEF PlaceInv
<1>5. CountInv
  <2>1. IsFiniteSet(Calls) /\ Cardinality(Calls) = MaxCalls
    BY Constants, FS_Interval DEF Calls
  <2>2. \A n \in Calls : n > made
    BY <1>1, Constants
  <2>3. Asking = Calls /\ Making = Calls
    BY <2>2 DEF Asking, Making, MayAsk, MayMake
  <2> QED
    BY <1>1, <2>1, <2>3, Constants DEF CountInv
<1>6. OwnInv
  BY <1>1 DEF OwnInv, NoCall
<1>7. KnownInv
  BY <1>1 DEF KnownInv, NoCall
<1>8. CapsInv
  BY <1>1 DEF CapsInv, NoCall
<1>9. LeakInv
  BY <1>1 DEF LeakInv
<1> QED
  BY <1>2, <1>3, <1>4, <1>5, <1>6, <1>7, <1>8, <1>9 DEF RegInv

\* Every step keeps the invariant.
LEMMA NextReg == RegInv /\ [Next]_vars => RegInv'
<1> SUFFICES ASSUME RegInv, [Next]_vars PROVE RegInv'
  OBVIOUS
<1> USE DEF Bootstrap
<1>1. ASSUME Listen PROVE RegInv'
  BY <1>1, CreateStep DEF Listen, Requests, Factories
<1>2. ASSUME Configure PROVE RegInv'
  BY <1>2, CreateStep DEF Configure, Requests, Factories
<1>3. ASSUME Connect PROVE RegInv'
  <2>1. PICK h \in connectors : Create("connect", h, Bootstrap, "ensuring")
    BY <1>3 DEF Connect
  <2>2. h \in Connectors /\ "connect" \in Requests
    BY DEF RegInv, TypeOK, Requests, Factories
  <2> QED
    BY <2>1, <2>2, CreateStep
<1>4. ASSUME Accept PROVE RegInv'
  <2>1. PICK l \in listeners : Create("accept", NoConnector, l, "sending")
    BY <1>4 DEF Accept
  <2>2. l \in Ids /\ "accept" \in Requests
    BY DEF RegInv, TypeOK, Requests, Factories
  <2> QED
    BY <2>1, <2>2, CreateStep
<1>5. ASSUME NEW n \in Calls,
             Ensure(n) \/ Enqueue(n) \/ FillCell(n) \/ Poll(n) \/ Abandon(n) \/ TaskFails(n)
      PROVE  RegInv'
  BY <1>5, EnsureStep, EnqueuedStep, RefusedStep, FillCellStep, PollStep, AbandonStep,
     TaskFailsStep
<1>6. ASSUME DropConnector \/ DropListener \/ DropChannel \/ DropTransport PROVE RegInv'
  BY <1>6, DropConnectorStep, DropListenerStep, DropChannelStep, DropTransportStep
<1>7. ASSUME Start \/ SpawnFails \/ Disconnect \/ ActorStops PROVE RegInv'
  BY <1>7, LifeStep, SpawnFailsStep, ActorStopsStep
<1>8. ASSUME ServeCommand \/ TaskSucceeds PROVE RegInv'
  BY <1>8, ServeConnectorStep, ServeFactoryStep, ServeReleaseStep, TaskSucceedsStep
     DEF ServeCommand
<1>9. ASSUME UNCHANGED vars PROVE RegInv'
  <2>1. UNCHANGED <<transport, connectors, listeners, channels, cell, made, fut, cmds, actor,
                    conn, caps, nextId, tasks, lost, orphans>>
    BY <1>9 DEF vars, handles
  <2>2. CountInv'
    <3>1. \A m \in Calls : (MayAsk(m)' => MayAsk(m)) /\ (MayMake(m)' => MayMake(m))
      BY <2>1 DEF MayAsk, MayMake
    <3> QED
      BY <2>1, <3>1, CountShrinks DEF RegInv
  <2>3. TypeOK' /\ CallInv'
    BY <2>1 DEF RegInv, TypeOK, CallInv, CallOK
  <2>4. PlaceInv'
    <3>1. \A i \in 1 .. Len(cmds) : CommandOK(i) => CommandOK(i)'
      BY <2>1 DEF CommandOK, Expects
    <3> QED
      BY <2>1, <3>1 DEF RegInv, PlaceInv, Expects
  <2>5. OwnInv' /\ KnownInv' /\ CapsInv' /\ LeakInv'
    BY <2>1 DEF RegInv, OwnInv, KnownInv, CapsInv, AnswerKind, LeakInv, Released
  <2> QED
    BY <2>2, <2>3, <2>4, <2>5 DEF RegInv
<1> QED
  BY <1>1, <1>2, <1>3, <1>4, <1>5, <1>6, <1>7, <1>8, <1>9 DEF Next

\* The strengthening of the registry's properties holds in every state.
THEOREM RegistryInvariant == Spec => []RegInv
  BY InitReg, NextReg, PTL DEF Spec

\* Every variable keeps its type, ids stay within two for each call, and the
\* command queue its capacity, however many handles and calls there are.
THEOREM TypeCorrect == Spec => []TypeOK
<1>1. RegInv => TypeOK
  BY DEF RegInv
<1> QED
  BY <1>1, RegistryInvariant, PTL

\* No capability ever has two owners: an id that Registry::alloc_id gave out is
\* in one answer, one handle or one queued Release, and in no second one.
THEOREM OneOwnerHolds == Spec => []OneOwner
<1>1. RegInv => OneOwner
  <2> SUFFICES ASSUME RegInv, NEW id \in Ids, NEW o \in Owners(id), NEW p \in Owners(id)
               PROVE  o = p
    BY DEF OneOwner
  <2>1. DOMAIN cmds = 1 .. Len(cmds) /\ id # 0
    BY Types, Constants DEF RegInv
  <2>2. \A i, j \in DOMAIN cmds :
          /\ cmds[i].op = "release" /\ cmds[i].on = id
          /\ cmds[j].op = "release" /\ cmds[j].on = id
          => i = j
    BY <2>1 DEF RegInv, OwnInv
  <2>3. \A h \in connectors : h \in Connectors
    BY DEF RegInv, TypeOK
  <2>4. o[1] \in {"listener", "channel", "connector", "answer", "release"}
        /\ p[1] \in {"listener", "channel", "connector", "answer", "release"}
        /\ o = <<o[1], o[2]>> /\ p = <<p[1], p[2]>>
    BY DEF Owners
  <2>5. /\ o[1] = "listener" => id \in listeners /\ o[2] = id
        /\ o[1] = "channel" => id \in channels /\ o[2] = id
        /\ o[1] = "connector" => o[2] \in connectors /\ cell[o[2]] = id
        /\ o[1] = "answer" => o[2] \in Calls /\ fut[o[2]].id = id
        /\ o[1] = "release" => /\ o[2] \in DOMAIN cmds /\ cmds[o[2]].op = "release"
                               /\ cmds[o[2]].on = id
    BY DEF Owners
  <2>6. /\ p[1] = "listener" => id \in listeners /\ p[2] = id
        /\ p[1] = "channel" => id \in channels /\ p[2] = id
        /\ p[1] = "connector" => p[2] \in connectors /\ cell[p[2]] = id
        /\ p[1] = "answer" => p[2] \in Calls /\ fut[p[2]].id = id
        /\ p[1] = "release" => /\ p[2] \in DOMAIN cmds /\ cmds[p[2]].op = "release"
                               /\ cmds[p[2]].on = id
    BY DEF Owners
  <2>7. o[1] = p[1]
    BY <2>1, <2>3, <2>4, <2>5, <2>6 DEF RegInv, OwnInv
  <2>8. o[2] = p[2]
    BY <2>1, <2>2, <2>3, <2>4, <2>5, <2>6, <2>7 DEF RegInv, OwnInv
  <2> QED
    BY <2>4, <2>7, <2>8
<1> QED
  BY <1>1, RegistryInvariant, PTL

\* While the actor lives, the capability of every open handle is in the
\* registry and of the right kind: no Release of another handle removes it.
THEOREM HandlesBackedHolds == Spec => []HandlesBacked
<1>1. RegInv => HandlesBacked
  BY DEF RegInv, TypeOK, CapsInv, HandlesBacked
<1> QED
  BY <1>1, RegistryInvariant, PTL

\* A queued command finds its target when the actor comes to it, whatever was
\* released in front of it.
THEOREM CommandsFindTargetHolds == Spec => []CommandsFindTarget
<1>1. RegInv => CommandsFindTarget
  <2>1. RegInv => DOMAIN cmds = 1 .. Len(cmds)
    BY Types DEF RegInv
  <2> QED
    BY <2>1 DEF RegInv, CapsInv, CommandsFindTarget
<1> QED
  BY <1>1, RegistryInvariant, PTL

\* A capability outlives its owner only where a Release met a full or closed
\* queue or the caller of the factory was gone; nothing else leaks.
THEOREM LeaksAccountedHolds == Spec => []LeaksAccounted
<1>1. RegInv => LeaksAccounted
  <2> SUFFICES ASSUME RegInv, NEW id \in Ids, caps[id] # "none"
               PROVE  Owners(id) # {} \/ id \in lost \cup orphans
    BY DEF LeaksAccounted
  <2>1. DOMAIN cmds = 1 .. Len(cmds) /\ id # 0
    BY Types, Constants DEF RegInv
  <2>2. CASE id \in listeners \cup channels \cup lost \cup orphans
    <3>1. CASE id \in listeners
      <4>1. <<"listener", id>> \in Owners(id)
        BY <3>1 DEF Owners
      <4> QED
        BY <4>1
    <3>2. CASE id \in channels
      <4>1. <<"channel", id>> \in Owners(id)
        BY <3>2 DEF Owners
      <4> QED
        BY <4>1
    <3> QED
      BY <2>2, <3>1, <3>2
  <2>3. CASE \E n \in Calls : fut[n].id = id
    BY <2>3 DEF Owners
  <2>4. CASE \E h \in Connectors : cell[h] = id
    <3>1. PICK h \in connectors : cell[h] = id
      BY <2>1, <2>4 DEF RegInv, CallInv
    <3> QED
      BY <3>1 DEF Owners
  <2>5. CASE Released(id)
    <3>1. PICK i \in DOMAIN cmds : cmds[i].op = "release" /\ cmds[i].on = id
      BY <2>1, <2>5 DEF Released
    <3> QED
      BY <3>1 DEF Owners
  <2> QED
    BY <2>2, <2>3, <2>4, <2>5 DEF RegInv, LeakInv
<1> QED
  BY <1>1, RegistryInvariant, PTL

\* All connects of one CapnpConnector name the same remote connector, also when
\* the connect that was resolving it is dropped and another takes over.
THEOREM ConnectorSharedHolds == Spec => []ConnectorShared
<1>1. RegInv => ConnectorShared
  <2> SUFFICES ASSUME RegInv, NEW n \in Calls, NEW m \in Calls,
                      fut[n].by = fut[m].by, fut[n].by # NoConnector,
                      fut[n].on # Bootstrap, fut[m].on # Bootstrap
               PROVE  fut[n].on = fut[m].on
    BY DEF ConnectorShared
  <2>1. ASSUME NEW k \in Calls, fut[k].by # NoConnector, fut[k].on # Bootstrap
        PROVE  fut[k].on = cell[fut[k].by]
    BY <2>1 DEF RegInv, CallInv, CallOK, NoCall
  <2> QED
    BY <2>1
<1> QED
  BY <1>1, RegistryInvariant, PTL
=============================================================================
