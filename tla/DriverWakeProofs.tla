--------------------------- MODULE DriverWakeProofs ---------------------------
(***************************************************************************)
(* The loop of a shard loses no wake-up, for every number of producers,    *)
(* messages and SQEs, every turn budget and queue size, with submissions   *)
(* that are refused and eventfds that fail.                                *)
(***************************************************************************)
EXTENDS DriverWake, TLAPS

\* A message everybody has announced makes the loop go round: the eventfd is readable, the
\* intake is still to come, or the intake left it there and the loop will not wait.
Announced ==
  chan > 0 /\ owes = {} /\ ~failed =>
    \/ wake_efd
    \/ pc \in {"drain_cq", "drain_wake", "intake"}
    \/ pc \in {"submit", "reap", "resubmit", "decide"} /\ ~can_take_message
    \/ pc = "wait" /\ continue

\* A loop about to wait has seen the CQ empty, and knows of what was posted since.
Posted == pc = "wait" /\ ~continue /\ cq > 0 /\ ~cq_owed => cq_efd

\* A loop about to wait leaves SQEs behind only if the kernel accepted none.
Refused == pc = "wait" /\ ~continue /\ sqes > 0 => submitted = 0

IInv == TypeOK /\ Announced /\ Posted /\ Refused

\* What the type invariant says of a producer's step and of the counters.
LEMMA WakeTypes ==
  ASSUME TypeOK
  PROVE  /\ sent \in Nat /\ made \in Nat /\ chan \in Nat /\ sqes \in Nat /\ kernel \in Nat
         /\ cq \in Nat /\ submitted \in Nat
         /\ cq_owed \in BOOLEAN /\ cq_efd \in BOOLEAN /\ wake_efd \in BOOLEAN
         /\ failed \in BOOLEAN /\ continue \in BOOLEAN
         /\ budget.messages \in Nat /\ budget.completions \in Nat /\ budget.large \in BOOLEAN
         /\ TURN_MESSAGES \in Nat /\ TURN_COMPLETIONS \in Nat
BY WakeAssumption DEF TypeOK

\* The loop starts waiting with nothing to do.
LEMMA WakeInit == Init => IInv
<1> SUFFICES ASSUME Init PROVE IInv
  OBVIOUS
<1>1. TypeOK
  <2>1. budget \in [messages : Nat, completions : Nat, large : BOOLEAN]
    BY DEF Init, FreshBudget
  <2>2. {sent, made, chan, sqes, kernel, cq, submitted} \subseteq Nat
    BY DEF Init
  <2>3. {cq_owed, cq_efd, wake_efd, failed, continue} \subseteq BOOLEAN
    BY DEF Init
  <2> QED
    BY <2>1, <2>2, <2>3 DEF Init, TypeOK
<1> QED
  BY <1>1 DEF Init, IInv, Announced, Posted, Refused

\* Every step keeps the types.
LEMMA WakeType == TypeOK /\ [Next]_vars => TypeOK'
<1> SUFFICES ASSUME TypeOK, [Next]_vars PROVE TypeOK'
  OBVIOUS
<1> USE DEF producers, work, events, turn
<1>1. /\ sent \in Nat /\ made \in Nat /\ chan \in Nat /\ sqes \in Nat /\ kernel \in Nat
      /\ cq \in Nat /\ submitted \in Nat
      /\ budget.messages \in Nat /\ budget.completions \in Nat /\ budget.large \in BOOLEAN
  BY WakeTypes
<1>2. ASSUME NEW p \in Producers, Send(p) \/ BatchBegin(p) \/ ProducerStep(p) PROVE TypeOK'
  <2>1. batch' \subseteq Producers /\ owes' \subseteq Producers
    BY <1>2 DEF TypeOK, Send, BatchBegin, ProducerStep, BatchSubmit, BatchEnd, BatchUnwind, Signal
  <2>2. sent' \in Nat /\ chan' \in Nat
    BY <1>1, <1>2 DEF Send, BatchBegin, ProducerStep, BatchSubmit, BatchEnd, BatchUnwind,
                      Signal, SendMessage
  <2>3. wake_efd' \in BOOLEAN /\ failed' \in BOOLEAN
    BY <1>2 DEF TypeOK, Send, BatchBegin, ProducerStep, BatchSubmit, BatchEnd, BatchUnwind, Signal
  <2>4. UNCHANGED <<sqes, kernel, cq, made, cq_owed, cq_efd, turn>>
    BY <1>2 DEF Send, BatchBegin, ProducerStep, BatchSubmit, BatchEnd, BatchUnwind, Signal
  <2> QED
    BY <2>1, <2>2, <2>3, <2>4 DEF TypeOK
<1>3. CASE KernelPosts \/ KernelSignals
  <2>1. kernel' \in Nat /\ cq' \in Nat
    BY <1>1, <1>3 DEF KernelPosts, KernelSignals
  <2>2. cq_owed' \in BOOLEAN /\ cq_efd' \in BOOLEAN
    BY <1>3, WakeTypes DEF KernelPosts, KernelSignals
  <2>3. UNCHANGED <<producers, chan, sqes, made, wake_efd, failed, turn>>
    BY <1>3 DEF KernelPosts, KernelSignals
  <2> QED
    BY <2>1, <2>2, <2>3 DEF TypeOK
<1>4. CASE Wake \/ Heartbeat \/ EndIntake \/ EndReap
  BY <1>4 DEF TypeOK, Wake, Heartbeat, EndIntake, EndReap
<1>5. CASE DrainCq \/ DrainWake
  <2>1. FreshBudget \in [messages : Nat, completions : Nat, large : BOOLEAN]
    BY DEF FreshBudget
  <2>2. cq_efd' \in BOOLEAN /\ wake_efd' \in BOOLEAN
    BY <1>5 DEF TypeOK, DrainCq, DrainWake
  <2>3. CASE DrainCq
    BY <2>2, <2>3 DEF TypeOK, DrainCq
  <2>4. CASE DrainWake
    BY <2>1, <2>2, <2>4 DEF TypeOK, DrainWake
  <2> QED
    BY <1>5, <2>3, <2>4
<1>6. CASE Intake
  <2>1. budget' \in [messages : Nat, completions : Nat, large : BOOLEAN]
    <3>1. PICK l \in BOOLEAN : budget' = [budget EXCEPT !.messages = @ + 1, !.large = l]
      BY <1>6 DEF Intake
    <3>2. budget.messages + 1 \in Nat
      BY <1>1
    <3> QED
      BY <3>1, <3>2 DEF TypeOK
  <2>2. sqes' \in Nat /\ made' \in Nat /\ chan' \in Nat
    BY <1>1, <1>6 DEF Intake, MakeSqe
  <2> QED
    BY <1>6, <2>1, <2>2 DEF TypeOK, Intake
<1>7. CASE Submit
  <2>1. sqes' \in Nat /\ kernel' \in Nat /\ submitted' \in Nat
    BY <1>1, <1>7 DEF Submit
  <2> QED
    BY <1>7, <2>1 DEF TypeOK, Submit
<1>8. CASE Reap
  <2>1. budget.completions + 1 \in Nat
    BY <1>1
  <2>2. budget' \in [messages : Nat, completions : Nat, large : BOOLEAN]
    BY <1>8, <2>1 DEF TypeOK, Reap
  <2>3. sqes' \in Nat /\ made' \in Nat /\ cq' \in Nat
    BY <1>1, <1>8 DEF Reap, MakeSqe
  <2> QED
    BY <1>8, <2>2, <2>3 DEF TypeOK, Reap
<1>9. CASE EndTurn
  <2>1. continue' \in BOOLEAN
    BY <1>9 DEF EndTurn, continue_without_wait
  <2> QED
    BY <1>9, <2>1 DEF TypeOK, EndTurn
<1>10. CASE UNCHANGED vars
  BY <1>10 DEF TypeOK, vars
<1> QED
  BY <1>2, <1>3, <1>4, <1>5, <1>6, <1>7, <1>8, <1>9, <1>10 DEF Next, Step, DriverStep

\* A producer that sends owes a signal, and its signal leaves the eventfd readable or failed.
LEMMA WakeProducer ==
  ASSUME IInv, NEW p \in Producers, Send(p) \/ BatchBegin(p) \/ ProducerStep(p)
  PROVE  Announced' /\ Posted' /\ Refused'
<1> USE DEF producers, work, events, turn
<1>1. UNCHANGED <<sqes, kernel, cq, made, cq_owed, cq_efd, turn>>
  BY DEF Send, BatchBegin, ProducerStep, BatchSubmit, BatchEnd, BatchUnwind, Signal
<1>2. Posted' /\ Refused'
  BY <1>1 DEF IInv, Posted, Refused
<1>3. \/ owes' # {}
      \/ wake_efd' \/ failed'
      \/ UNCHANGED <<owes, chan, wake_efd, failed>>
  BY DEF Send, BatchBegin, ProducerStep, BatchSubmit, BatchEnd, BatchUnwind, Signal
<1>4. Announced'
  BY <1>1, <1>3 DEF IInv, Announced, can_take_message
<1> QED
  BY <1>2, <1>4

\* The kernel's post and its signal, whatever the loop is doing between them.
LEMMA WakeKernel ==
  ASSUME IInv, KernelPosts \/ KernelSignals
  PROVE  Announced' /\ Posted' /\ Refused'
BY DEF producers, work, events, turn, KernelPosts, KernelSignals, IInv, Announced, Posted,
       Refused, can_take_message

\* The loop drains the eventfd before the intake and stops the intake only when the channel
\* is empty or its budget is spent; a spent budget, a completion or progress of the
\* submissions keeps it from waiting.
LEMMA WakeDriver ==
  ASSUME IInv, DriverStep \/ Heartbeat
  PROVE  Announced' /\ Posted' /\ Refused'
<1> USE DEF producers, work, events, turn
<1>1. /\ chan \in Nat /\ cq \in Nat /\ sqes \in Nat /\ submitted \in Nat
      /\ continue \in BOOLEAN
  BY WakeTypes DEF IInv
<1>2. CASE Wake \/ Heartbeat \/ DrainCq \/ DrainWake
  BY <1>2 DEF Wake, Heartbeat, DrainCq, DrainWake, Announced, Posted, Refused
<1>3. CASE Intake
  BY <1>3 DEF Intake, Announced, Posted, Refused
<1>4. CASE EndIntake
  BY <1>1, <1>4 DEF EndIntake, Announced, Posted, Refused, can_take_message
<1>5. CASE Submit \/ EndReap
  BY <1>5 DEF Submit, EndReap, IInv, Announced, Posted, Refused, can_take_message
<1>6. CASE Reap
  <2>1. budget'.messages = budget.messages /\ budget'.large = budget.large
    BY <1>6 DEF Reap, IInv, TypeOK
  <2> QED
    BY <1>6, <2>1 DEF Reap, IInv, Announced, Posted, Refused, can_take_message
<1>7. CASE EndTurn
  <2>1. /\ pc = "decide" /\ pc' = "wait" /\ continue' = continue_without_wait(cq > 0)
        /\ UNCHANGED <<producers, work, events, budget, submitted>>
    BY <1>7 DEF EndTurn
  <2>2. ~continue' => can_take_message /\ cq = 0 /\ (sqes > 0 => submitted = 0)
    <3> SUFFICES ASSUME ~continue'
                 PROVE  can_take_message /\ cq = 0 /\ (sqes > 0 => submitted = 0)
      OBVIOUS
    <3>1. can_take_message /\ ~(cq > 0) /\ ~(sqes > 0 /\ submitted > 0)
      BY <2>1 DEF continue_without_wait
    <3> QED
      BY <1>1, <3>1
  <2> QED
    BY <1>1, <2>1, <2>2 DEF IInv, Announced, Posted, Refused, can_take_message
<1> QED
  BY <1>2, <1>3, <1>4, <1>5, <1>6, <1>7 DEF DriverStep

\* A loop that sleeps has no message, completion or SQE that nobody will tell it of, with any
\* number of producers and any budget.
THEOREM NoWakeupLost == Spec => []NoLostWakeup
<1>1. IInv /\ [Next]_vars => IInv'
  <2> SUFFICES ASSUME IInv, [Next]_vars PROVE IInv'
    OBVIOUS
  <2>1. TypeOK'
    BY WakeType DEF IInv
  <2>2. CASE UNCHANGED vars
    BY <2>1, <2>2 DEF vars, producers, work, events, turn, IInv, Announced, Posted, Refused,
                      can_take_message
  <2>3. CASE Next
    BY <2>1, <2>3, WakeProducer, WakeKernel, WakeDriver DEF Next, Step, IInv
  <2> QED
    BY <2>2, <2>3
<1>2. IInv => NoLostWakeup
  BY DEF IInv, Announced, Posted, Refused, NoLostWakeup, Parked
<1> QED
  BY <1>1, <1>2, WakeInit, PTL DEF Spec
===============================================================================
