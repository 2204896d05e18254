------------------------------ MODULE DriverWake ------------------------------
(***************************************************************************)
(* How the loop of one shard is woken (src/src/driver.rs): the wait of     *)
(* `drive` on two eventfds and a heartbeat, the drains behind it, the      *)
(* bounded phases of a turn and `TurnBudget::continue_without_wait`,       *)
(* against producers that send and then signal -- single reads, deferred   *)
(* reads, cancels and shutdown, and batches that signal once at the end    *)
(* or unwind before it -- and a kernel that posts and then signals.        *)
(*                                                                         *)
(* Messages, SQEs and completions are counted, not told apart: what a turn *)
(* does with each is the subject of UringShard.                            *)
(***************************************************************************)
EXTENDS Integers, FiniteSets

CONSTANTS
    Producers,        \* threads that send messages to this shard
    MaxMessages,      \* bound: messages sent
    MaxSqes,          \* bound: SQEs created, continuations included
    SqEntries,        \* size of the submission queue
    TURN_MESSAGES, TURN_COMPLETIONS,
    Environments      \* the system calls that may fail, and whether the heartbeat comes

ASSUME WakeAssumption ==
  /\ {MaxMessages, MaxSqes, SqEntries, TURN_MESSAGES, TURN_COMPLETIONS} \subseteq Nat \ {0}
  /\ Environments \subseteq [refuses : BOOLEAN, efd_faults : BOOLEAN, beats : BOOLEAN]

VARIABLES
    env,              \* the environment: may it refuse SQEs (EBUSY, EINTR, errors), fail eventfd calls
    batch,            \* producers that are building a batch
    owes,             \* producers that have sent to this shard and not signalled it
    sent, made,       \* messages and SQEs so far, for the bounds
    chan,             \* messages in the channel
    sqes,             \* SQEs in the backlog and the SQ
    kernel, cq,       \* operations the kernel runs, completions in the CQ
    cq_owed,          \* the kernel has posted and not signalled yet
    cq_efd, wake_efd, \* is the eventfd readable
    failed,           \* a signal of wake_efd has failed
    pc,               \* where the driver's turn is
    budget,           \* TurnBudget
    submitted,        \* SQEs accepted this turn
    continue          \* continue_without_wait

producers == <<batch, owes, sent>>
work == <<chan, sqes, kernel, cq, made>>
events == <<cq_owed, cq_efd, wake_efd, failed>>
turn == <<pc, budget, submitted, continue>>
vars == <<env, producers, work, events, turn>>

FreshBudget == [messages |-> 0, completions |-> 0, large |-> FALSE]

Init ==
  /\ env \in Environments
  /\ batch = {} /\ owes = {} /\ sent = 0 /\ made = 0
  /\ chan = 0 /\ sqes = 0 /\ kernel = 0 /\ cq = 0
  /\ cq_owed = FALSE /\ cq_efd = FALSE /\ wake_efd = FALSE /\ failed = FALSE
  /\ pc = "wait" /\ budget = FreshBudget /\ submitted = 0 /\ continue = FALSE

-------------------------------------------------------------------------------
(* Producers.  A message is sent first and signalled in a later step.      *)

SendMessage == sent < MaxMessages /\ chan' = chan + 1 /\ sent' = sent + 1

\* submit with notify_now, poll of a deferred read, drop, request_shutdown, join.
Send(p) ==
  /\ p \notin batch \cup owes
  /\ SendMessage
  /\ owes' = owes \cup {p}
  /\ UNCHANGED <<batch, sqes, kernel, cq, made, events, turn>>

BatchBegin(p) ==
  /\ p \notin batch \cup owes
  /\ batch' = batch \cup {p}
  /\ UNCHANGED <<owes, sent, work, events, turn>>

\* A read of the batch is accepted here; others go elsewhere, wait or are refused.
BatchSubmit(p) ==
  /\ p \in batch
  /\ SendMessage
  /\ owes' = owes \cup {p}
  /\ UNCHANGED <<batch, sqes, kernel, cq, made, events, turn>>

\* Defect: the batch waits for its reads to be taken before it signals.
BatchEnd_waiting(p) ==
  /\ p \in batch /\ chan = 0
  /\ batch' = batch \ {p}
  /\ UNCHANGED <<owes, sent, work, events, turn>>

\* All handles are built; the signals follow.
BatchEnd(p) ==
  /\ p \in batch
  /\ batch' = batch \ {p}
  /\ UNCHANGED <<owes, sent, work, events, turn>>

\* The construction unwinds: the handles built so far are dropped, each cancels its
\* read and signals, so this shard is signalled if it was given one.
BatchUnwind(p) ==
  /\ p \in batch \cap owes
  /\ SendMessage
  /\ batch' = batch \ {p}
  /\ UNCHANGED <<owes, sqes, kernel, cq, made, events, turn>>

\* EventFd::signal: EINTR is retried, EAGAIN means readable already; any other failure
\* is only logged.
Signal(p) ==
  /\ p \in owes \ batch
  /\ \/ wake_efd' = TRUE /\ UNCHANGED failed
     \/ env.efd_faults /\ failed' = TRUE /\ UNCHANGED wake_efd
  /\ owes' = owes \ {p}
  /\ UNCHANGED <<batch, sent, work, cq_owed, cq_efd, turn>>

-------------------------------------------------------------------------------
(* External: the kernel completes operations, posts, then signals.         *)

KernelPosts ==
  /\ kernel > 0
  /\ kernel' = kernel - 1 /\ cq' = cq + 1 /\ cq_owed' = TRUE
  /\ UNCHANGED <<producers, chan, sqes, made, cq_efd, wake_efd, failed, turn>>

KernelSignals ==
  /\ cq_owed
  /\ cq_owed' = FALSE /\ cq_efd' = TRUE
  /\ UNCHANGED <<producers, work, wake_efd, failed, turn>>

-------------------------------------------------------------------------------
(* The turn.                                                               *)

\* wait_for_events returns because an eventfd is readable, or is not called at all.
Wake ==
  /\ pc = "wait" /\ (continue \/ cq_efd \/ wake_efd)
  /\ pc' = "drain_cq"
  /\ UNCHANGED <<producers, work, events, budget, submitted, continue>>

\* Defect: poll without a timeout.
Heartbeat_infinite == FALSE /\ UNCHANGED vars

\* wait_for_events returns because LOOP_HEARTBEAT or IDLE_HEARTBEAT has passed, or EINTR.
Heartbeat ==
  /\ pc = "wait" /\ ~continue
  /\ pc' = "drain_cq"
  /\ UNCHANGED <<producers, work, events, budget, submitted, continue>>

\* EventFd::drain: a failure leaves the counter as it is.
DrainCq ==
  /\ pc = "drain_cq"
  /\ cq_efd' = FALSE \/ (env.efd_faults /\ UNCHANGED cq_efd)
  /\ pc' = "drain_wake"
  /\ UNCHANGED <<producers, work, cq_owed, wake_efd, failed, budget, submitted, continue>>

DrainWake ==
  /\ pc = "drain_wake"
  /\ wake_efd' = FALSE \/ (env.efd_faults /\ UNCHANGED wake_efd)
  /\ pc' = "intake" /\ budget' = FreshBudget /\ submitted' = 0
  /\ UNCHANGED <<producers, work, cq_owed, cq_efd, failed, continue>>

can_take_message == budget.messages < TURN_MESSAGES /\ ~budget.large
can_reap == budget.completions < TURN_COMPLETIONS

\* A message or a completion leads to a new SQE (a read, a cancel, a continuation) or not.
MakeSqe ==
  \/ made < MaxSqes /\ sqes' = sqes + 1 /\ made' = made + 1
  \/ UNCHANGED <<sqes, made>>

\* One message; a large read spends the allocation budget.
Intake ==
  /\ pc = "intake" /\ can_take_message /\ chan > 0
  /\ chan' = chan - 1
  /\ MakeSqe
  /\ \E large \in BOOLEAN : budget' = [budget EXCEPT !.messages = @ + 1, !.large = large]
  /\ UNCHANGED <<producers, kernel, cq, events, pc, submitted, continue>>

EndIntake ==
  /\ pc = "intake" /\ (chan = 0 \/ ~can_take_message)
  /\ pc' = "submit"
  /\ UNCHANGED <<producers, work, events, budget, submitted, continue>>

\* submit_ring: the kernel takes what fits the SQ, or fewer, or none.
Submit ==
  /\ pc \in {"submit", "resubmit"}
  /\ \E k \in 0..sqes :
       /\ k <= SqEntries
       /\ env.refuses \/ k = sqes \/ k = SqEntries
       /\ sqes' = sqes - k /\ kernel' = kernel + k /\ submitted' = submitted + k
  /\ pc' = IF pc = "submit" THEN "reap" ELSE "decide"
  /\ UNCHANGED <<producers, chan, cq, made, events, budget, continue>>

Reap ==
  /\ pc = "reap" /\ can_reap /\ cq > 0
  /\ cq' = cq - 1
  /\ MakeSqe
  /\ budget' = [budget EXCEPT !.completions = @ + 1]
  /\ UNCHANGED <<producers, chan, kernel, events, pc, submitted, continue>>

EndReap ==
  /\ pc = "reap" /\ (cq = 0 \/ ~can_reap)
  /\ pc' = "resubmit"
  /\ UNCHANGED <<producers, work, events, budget, submitted, continue>>

\* Defect: a spent budget does not count.
continue_without_wait_unspent(ready_cqe) == ready_cqe \/ (sqes > 0 /\ submitted > 0)

\* Defect: queued SQEs count even if the kernel accepts none of them.
continue_without_wait_spinning(ready_cqe) ==
  ~can_take_message \/ ~can_reap \/ ready_cqe \/ sqes > 0

continue_without_wait(ready_cqe) ==
  ~can_take_message \/ ~can_reap \/ ready_cqe \/ (sqes > 0 /\ submitted > 0)

EndTurn ==
  /\ pc = "decide"
  /\ continue' = continue_without_wait(cq > 0)
  /\ pc' = "wait"
  /\ UNCHANGED <<producers, work, events, budget, submitted>>

-------------------------------------------------------------------------------
ProducerStep(p) == BatchSubmit(p) \/ BatchEnd(p) \/ BatchUnwind(p) \/ Signal(p)
DriverStep == \/ Wake \/ DrainCq \/ DrainWake \/ Intake \/ EndIntake \/ Submit
              \/ Reap \/ EndReap \/ EndTurn

Step ==
  \/ \E p \in Producers : Send(p) \/ BatchBegin(p) \/ ProducerStep(p)
  \/ KernelPosts \/ KernelSignals
  \/ DriverStep \/ Heartbeat

Next == Step /\ UNCHANGED env

Spec == Init /\ [][Next]_vars

\* Producers finish what they began, the kernel signals what it posts, the thread runs;
\* the heartbeat may never come, unless it is part of the environment.
FairSpec ==
  /\ Spec
  /\ \A p \in Producers : WF_vars(ProducerStep(p) /\ UNCHANGED env)
  /\ WF_vars((KernelPosts \/ KernelSignals) /\ UNCHANGED env)
  /\ WF_vars(DriverStep /\ UNCHANGED env)
  /\ WF_vars(env.beats /\ Heartbeat /\ UNCHANGED env)

-------------------------------------------------------------------------------
\* Every variable has its type.
TypeOK ==
  /\ batch \subseteq Producers /\ owes \subseteq Producers
  /\ {sent, made, chan, sqes, kernel, cq, submitted} \subseteq Nat
  /\ {cq_owed, cq_efd, wake_efd, failed, continue} \subseteq BOOLEAN
  /\ pc \in {"wait", "drain_cq", "drain_wake", "intake", "submit", "reap", "resubmit", "decide"}
  /\ budget \in [messages : Nat, completions : Nat, large : BOOLEAN]

Parked == pc = "wait" /\ ~continue /\ ~cq_efd /\ ~wake_efd

\* No wake-up is lost: a driver that sleeps has no message that nobody is about to
\* announce, no completion the kernel is not about to announce, and no SQE but those
\* the kernel has just refused (the drains and continue_without_wait of `drive`).
NoLostWakeup ==
  Parked => /\ chan > 0 => owes # {} \/ failed
            /\ cq > 0 => cq_owed
            /\ sqes > 0 => submitted = 0

\* Without any heartbeat all messages are taken, all SQEs submitted and all completions
\* reaped, if the kernel refuses nothing: the heartbeat is only a fallback.
AllHandled ==
  ~env.refuses /\ ~env.efd_faults => <>[](chan = 0 /\ sqes = 0 /\ kernel = 0 /\ cq = 0)

\* The loop never spins: again and again it reaches its wait, although the kernel may
\* refuse its SQEs for ever ("must not spin after EBUSY, EINTR, errors or Ok(0)").
NoSpin == []<>(pc = "wait" /\ ~continue)

\* With eventfds that fail the heartbeat still gets every message taken and every
\* completion reaped ("heartbeat remains active").
HeartbeatSuffices == env.beats => (chan > 0 ~> chan = 0) /\ (cq > 0 ~> cq = 0)
===============================================================================
