------------------------------ MODULE LazyArti ------------------------------
(***************************************************************************)
(* The deferred bootstrap of fungi-transport-arti (lazy.rs): every         *)
(* `listen` and `connect` first awaits LazyInner::get, which bootstraps    *)
(* arti at most once, on the network that configure_private_net left in    *)
(* `pending`, while that call may come at any time from the fixtures       *)
(* capability of the plugin.                                               *)
(*                                                                         *)
(* The OnceCell is tokio's: a fair semaphore with one permit, held by the  *)
(* caller that runs the initializer, passed to the first caller in the     *)
(* queue when that one fails or is dropped, and closed by success.         *)
(***************************************************************************)
EXTENDS Naturals, Sequences

CONSTANTS
  Callers,      \* transport operations that call LazyInner::get
  Buildable,    \* descriptors parse and build_config both accept
  Unbuildable,  \* descriptors parse accepts and build_config rejects
  Public,       \* the network without a descriptor (`pending` is None)
  NoNet,        \* `booted` before the bootstrap
  NoOne         \* the permit is free

ASSUME InputsAssumption ==
  /\ Public \notin Buildable \cup Unbuildable
  /\ NoNet \notin Buildable \cup Unbuildable \cup {Public}
  /\ Buildable \cap Unbuildable = {}
  /\ NoOne \notin Callers

VARIABLES
  pc,        \* where each caller is in LazyInner::get
  queue,     \* callers waiting for the permit, in order
  holder,    \* the caller the permit belongs to, or NoOne
  pending,   \* LazyInner.pending
  attempt,   \* the network the running initializer read from `pending`
  booted,    \* LazyInner.booted
  raced      \* history: a descriptor was installed while the last bootstrap ran

vars == <<pc, queue, holder, pending, attempt, booted, raced>>

Nets == Buildable \cup {Public}
Busy == {"queued", "granted", "booting"}
Done == {"idle", "ready", "failed", "rejected"}

Init ==
  /\ pc = [c \in Callers |-> "idle"] /\ queue = <<>> /\ holder = NoOne
  /\ pending = Public /\ attempt = Public /\ booted = NoNet
  /\ raced = FALSE

\* The future is woken and returns the client in the cell.
Served(c) ==
  /\ pc' = [pc EXCEPT ![c] = "ready"]
  /\ UNCHANGED <<queue, holder, pending, attempt, booted, raced>>

\* Seeded fault: the permit goes with the caller that held it.
LosePermit(c, outcome) ==
  /\ pc' = [pc EXCEPT ![c] = outcome]
  /\ UNCHANGED <<queue, holder>>

\* Caller c gives the permit up: it passes to the first in the queue, if any.
PassPermit(c, outcome) ==
  IF queue = <<>>
    THEN /\ holder' = NoOne
         /\ pc' = [pc EXCEPT ![c] = outcome]
         /\ UNCHANGED queue
    ELSE /\ holder' = Head(queue)
         /\ queue' = Tail(queue)
         /\ pc' = [pc EXCEPT ![c] = outcome, ![Head(queue)] = "granted"]

\* build_config refuses the descriptor: its lengths, its keys, its ports.
Rejected == pending \in Unbuildable

\* The initializer of caller c starts: it clones `pending` before its first
\* await.  A descriptor build_config rejects ends it there.
Initialize(c) ==
  /\ IF Rejected
       THEN /\ PassPermit(c, "rejected")
            /\ UNCHANGED <<attempt, raced>>
       ELSE /\ pc' = [pc EXCEPT ![c] = "booting"]
            /\ holder' = c
            /\ attempt' = pending
            /\ raced' = FALSE
            /\ UNCHANGED queue
  /\ UNCHANGED <<pending, booted>>

\* Seeded fault: whoever finds the cell empty bootstraps.
PermitIgnored == TRUE

PermitFree == holder = NoOne

CellEmpty == booted = NoNet

\* The first poll of get_or_try_init.
Call(c) ==
  /\ pc[c] \in Done
  /\ \/ ~CellEmpty /\ Served(c)
     \/ CellEmpty /\ PermitFree /\ Initialize(c)
     \/ /\ CellEmpty /\ ~PermitFree
        /\ pc' = [pc EXCEPT ![c] = "queued"]
        /\ queue' = Append(queue, c)
        /\ UNCHANGED <<holder, pending, attempt, booted, raced>>

\* A caller that was passed the permit is polled.
Enter(c) == pc[c] = "granted" /\ Initialize(c)

\* Success closes the semaphore; those still waiting find the cell full.
BootOk(c) ==
  /\ pc[c] = "booting"
  /\ booted' = attempt
  /\ pc' = [pc EXCEPT ![c] = "ready"]
  /\ holder' = NoOne /\ queue' = <<>>
  /\ UNCHANGED <<pending, attempt, raced>>

Join(c) == pc[c] = "queued" /\ booted # NoNet /\ Served(c)

\* arti's bootstrap fails, for reasons of the network.
BootFail(c) ==
  /\ pc[c] = "booting"
  /\ PassPermit(c, "failed")
  /\ UNCHANGED <<pending, attempt, booted, raced>>

\* The caller drops its future: out of the queue, or the permit is passed on
\* and an attempt under way is thrown away.
Without(c) ==
  LET at == {i \in 1 .. Len(queue) : queue[i] = c}
  IN  IF at = {} THEN queue
      ELSE LET i == CHOOSE j \in at : TRUE
           IN  SubSeq(queue, 1, i - 1) \o SubSeq(queue, i + 1, Len(queue))

Cancel(c) ==
  /\ \/ pc[c] \in {"granted", "booting"} /\ PassPermit(c, "idle")
     \/ /\ pc[c] = "queued"
        /\ pc' = [pc EXCEPT ![c] = "idle"]
        /\ queue' = Without(c)
        /\ UNCHANGED holder
  /\ UNCHANGED <<pending, attempt, booted, raced>>

\* Seeded fault: the check that arti has not booted is gone.
ConfigurableAlways == TRUE

Configurable == booted = NoNet

\* configure_private_net returns Ok: the descriptor waits for the next initializer.
\* (It returns Err and changes nothing for input that is not UTF-8 or that
\* parse rejects, and once arti has booted.)
Configure(d) ==
  /\ Configurable
  /\ pending' = d
  /\ raced' = (raced \/ \E c \in Callers : pc[c] = "booting")
  /\ UNCHANGED <<pc, queue, holder, attempt, booted>>

Next ==
  \/ \E c \in Callers :
       Call(c) \/ Enter(c) \/ BootOk(c) \/ Join(c) \/ BootFail(c) \/ Cancel(c)
  \/ \E d \in Buildable \cup Unbuildable : Configure(d)

Spec == Init /\ [][Next]_vars

\* Callers keep polling what they hold, and a bootstrap ends one way or the other.
Fairness == \A c \in Callers :
  WF_vars(Enter(c)) /\ WF_vars(Join(c)) /\ WF_vars(BootOk(c) \/ BootFail(c))

FairSpec == Spec /\ Fairness

(***************************************************************************)
(* Properties.                                                             *)
(***************************************************************************)
\* Every variable keeps its type: arti never starts on a descriptor that does
\* not build.
TypeOK ==
  /\ pc \in [Callers -> Busy \cup Done]
  /\ queue \in Seq(Callers) /\ holder \in Callers \cup {NoOne}
  /\ pending \in Nets \cup Unbuildable
  /\ attempt \in Nets /\ booted \in Nets \cup {NoNet}
  /\ raced \in BOOLEAN

\* Arti is bootstrapped by one caller at a time, and never again once it has
\* booted, however callers fail, drop their futures and try again: everyone that
\* is ever given a client is given the same one (LazyInner.booted: "built at most
\* once on first use").
OneBootstrap ==
  /\ \A c, d \in Callers : pc[c] = "booting" /\ pc[d] = "booting" => c = d
  /\ booted # NoNet => \A c \in Callers : pc[c] # "booting"

\* The network arti runs on is the last one configure_private_net accepted,
\* through failed and dropped attempts, unless it was installed while the
\* bootstrap that succeeded was already running.
ConfigureApplies == booted # NoNet /\ ~raced => booted = pending

\* A caller that keeps its future is answered: a caller that fails, or is
\* dropped in the middle of the bootstrap, hands over to the next.
CallersServed == \A c \in Callers : (pc[c] \in Busy) ~> (pc[c] \in Done)
=============================================================================
