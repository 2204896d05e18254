--------------------------- MODULE UringTypeProofs ----------------------------
(***************************************************************************)
(* Type correctness of UringShard, for any number of reads, any depth of   *)
(* the ring, any turn budget and any behaviour of the kernel and the       *)
(* callers that the specification allows.                                  *)
(***************************************************************************)
EXTENDS UringShard, TLAPS

-------------------------------------------------------------------------------
(* Sequences and sets of reads.                                            *)

\* What a queue holds after a send.
LEMMA Appended ==
  ASSUME NEW S, NEW q \in Seq(S), NEW m \in S
  PROVE  /\ Append(q, m) \in Seq(S) /\ Len(Append(q, m)) = Len(q) + 1
         /\ DOMAIN Append(q, m) = 1..(Len(q) + 1) /\ DOMAIN q = 1..Len(q) /\ Len(q) \in Nat
         /\ \A i \in 1..Len(q) : Append(q, m)[i] = q[i]
         /\ Append(q, m)[Len(q) + 1] = m
OBVIOUS

\* What a queue holds after a receive.
LEMMA Received ==
  ASSUME NEW S, NEW q \in Seq(S), q # <<>>
  PROVE  /\ Head(q) \in S /\ Tail(q) \in Seq(S) /\ Len(Tail(q)) = Len(q) - 1
         /\ DOMAIN q = 1..Len(q) /\ Len(q) \in Nat /\ Len(q) # 0 /\ Head(q) = q[1]
         /\ DOMAIN Tail(q) = 1..(Len(q) - 1)
         /\ \A i \in 1..(Len(q) - 1) : Tail(q)[i] = q[i + 1]
OBVIOUS

\* What a queue holds after a batch is put behind it.
LEMMA Concatenated ==
  ASSUME NEW S, NEW q \in Seq(S), NEW c \in Seq(S)
  PROVE  /\ q \o c \in Seq(S) /\ Len(q \o c) = Len(q) + Len(c)
         /\ \A i \in 1..(Len(q) + Len(c)) : (q \o c)[i] = IF i <= Len(q) THEN q[i] ELSE c[i - Len(q)]
OBVIOUS

\* Sets of reads can be counted.  UringShardProofs has it from the finiteness of Reads;
\* the lemmas that need it assume it, which keeps the theory of finite sets out of them.
Countable ==
  \A S \in SUBSET Reads : Cardinality(S) \in Nat /\ (Cardinality(S) = 0 => S = {})

-------------------------------------------------------------------------------
(* Lemmas about the operators of the model.                                *)

\* reap_read keeps an entry an entry when it asks for another kernel read.
LEMMA ReapReadType ==
  ASSUME NEW p \in Pending, NEW res \in Int, NEW stop \in BOOLEAN, NEW closed \in BOOLEAN,
         reap_read(p, res, stop, 0, closed).step = "resubmit"
  PROVE  reap_read(p, res, stop, 0, closed).p \in Pending
<1> DEFINE q == [p EXCEPT !.nread = @ + res, !.transient_retries = 0]
<1>1. CASE res < 0
  BY <1>1, ReapAssumption
     DEF reap_read, reap_error, Retry, Finish, Resubmit, Pending
<1>2. CASE res = 0
  BY <1>2 DEF reap_read, Finish
<1>3. CASE res > 0
  <2>1. p.nread + res \in Nat
    BY <1>3 DEF Pending
  <2>1a. q \in Pending
    BY <2>1 DEF Pending
  <2>2. reap_read(p, res, stop, 0, closed) = reap_progress(q, Stopped(p, stop), 0, closed)
    BY <1>3 DEF reap_read
  <2> HIDE DEF q
  <2> QED
    BY <2>1a, <2>2 DEF reap_progress, Finish, Resubmit
<1> QED
  BY <1>1, <1>2, <1>3

\* Removing a dropped waiter leaves the others, each once, in a sequence.
LEMMA WithoutProperties ==
  ASSUME NEW S, NEW q \in Seq(S), NEW r \in S,
         \A i, j \in DOMAIN q : q[j] = q[i] => j = i
  PROVE  /\ Without(q, r) \in Seq(S)
         /\ \A i \in DOMAIN Without(q, r) :
              \E k \in DOMAIN q : Without(q, r)[i] = q[k] /\ q[k] # r
         /\ \A i, j \in DOMAIN Without(q, r) : Without(q, r)[j] = Without(q, r)[i] => j = i
         /\ q = <<>> => Without(q, r) = <<>>
<1>1. CASE \A i \in DOMAIN q : q[i] # r
  BY <1>1 DEF Without
<1>2. CASE ~\A i \in DOMAIN q : q[i] # r
  <2> DEFINE at == CHOOSE i \in DOMAIN q : q[i] = r
             w == [i \in 1..(Len(q) - 1) |-> q[IF i < at THEN i ELSE i + 1]]
  <2>1. at \in 1..Len(q) /\ q[at] = r
    BY <1>2
  <2>2. Without(q, r) = w
    BY <1>2 DEF Without
  <2> HIDE DEF at
  <2>3. \A i \in 1..(Len(q) - 1) :
          /\ (IF i < at THEN i ELSE i + 1) \in 1..Len(q)
          /\ (IF i < at THEN i ELSE i + 1) # at
    BY <2>1
  <2>4. w \in [1..(Len(q) - 1) -> S]
    BY <2>3
  <2>5. w \in Seq(S)
    BY <2>1, <2>4
  <2>6. \A i \in 1..(Len(q) - 1) : q[IF i < at THEN i ELSE i + 1] # r
    BY <2>1, <2>3
  <2>7. \A i, j \in 1..(Len(q) - 1) :
          (IF i < at THEN i ELSE i + 1) = (IF j < at THEN j ELSE j + 1) => j = i
    BY <2>1
  <2>8. \A i, j \in 1..(Len(q) - 1) : w[j] = w[i] => j = i
    BY <2>3, <2>7
  <2>9. q # <<>>
    BY <1>2
  <2> QED
    BY <2>2, <2>3, <2>5, <2>6, <2>8, <2>9
<1> QED
  BY <1>1, <1>2

\* queue_cancels appends cancels, one for each read of S that has none queued, and
\* leaves what was queued where it is.
LEMMA QueueCancels ==
  ASSUME Countable, sqes \in Seq(Sqe), queued_cancels \subseteq Reads,
         NEW S, S \subseteq Reads, queue_cancels(S)
  PROVE  /\ sqes' \in Seq(Sqe) /\ Len(sqes') >= Len(sqes)
         /\ \A i \in 1..Len(sqes) : sqes'[i] = sqes[i]
         /\ \A i \in 1..Len(sqes') : i > Len(sqes) => sqes'[i].op = "cancel"
         /\ queued_cancels' \subseteq Reads /\ queued_cancels' = queued_cancels \cup S
         /\ \A i \in 1..Len(sqes') : i > Len(sqes) => sqes'[i].id \in S \ queued_cancels
         /\ \A i, j \in 1..Len(sqes') :
              i > Len(sqes) /\ j > Len(sqes) /\ sqes'[i] = sqes'[j] => i = j
<1> DEFINE T == S \ queued_cancels
           n == Cardinality(T)
<1>2. n \in Nat
  BY DEF Countable
<1>3. PICK order \in Injection(1..n, T) :
        /\ sqes' = sqes \o [i \in DOMAIN order |-> CancelSqe(order[i])]
        /\ queued_cancels' = queued_cancels \cup S
  BY DEF queue_cancels
<1>4. order \in [1..n -> T] /\ \A i, j \in 1..n : order[i] = order[j] => i = j
  BY <1>3 DEF Injection, IsInjective
<1> DEFINE c == [i \in 1..n |-> CancelSqe(order[i])]
<1> HIDE DEF n
<1>5. \A i \in 1..n : c[i] \in Sqe /\ c[i].op = "cancel" /\ c[i].id = order[i]
  BY <1>4 DEF CancelSqe, Sqe
<1>6. c \in [1..n -> Sqe]
  BY <1>5
<1>7. c \in Seq(Sqe) /\ Len(c) = n
  BY <1>2, <1>6
<1>8. sqes' = sqes \o c
  BY <1>3, <1>4
<1> HIDE DEF c
<1>9. /\ sqes' \in Seq(Sqe) /\ Len(sqes') = Len(sqes) + n
      /\ \A i \in 1..(Len(sqes) + n) : sqes'[i] = IF i <= Len(sqes) THEN sqes[i] ELSE c[i - Len(sqes)]
  BY <1>7, <1>8, Concatenated
<1>10. \A i \in 1..Len(sqes') : i > Len(sqes) => i - Len(sqes) \in 1..n
  BY <1>2, <1>9
<1>11. Len(sqes) \in Nat
  OBVIOUS
<1>12. \A i \in 1..Len(sqes) : i \in 1..(Len(sqes) + n) /\ i <= Len(sqes)
  BY <1>2, <1>11
<1>13. \A i \in 1..Len(sqes') : i > Len(sqes) => sqes'[i] = c[i - Len(sqes)]
  BY <1>2, <1>9, <1>11
<1>14. Len(sqes') >= Len(sqes)
  BY <1>2, <1>9, <1>11
<1>15. queued_cancels' \subseteq Reads
  BY <1>3
<1>16. \A i \in 1..Len(sqes') : i > Len(sqes) => sqes'[i].op = "cancel"
  BY <1>5, <1>10, <1>13
<1>17. \A i \in 1..Len(sqes') : i > Len(sqes) => sqes'[i].id \in S \ queued_cancels
  BY <1>4, <1>5, <1>10, <1>13
<1>18. ASSUME NEW i \in 1..Len(sqes'), NEW j \in 1..Len(sqes'),
              i > Len(sqes), j > Len(sqes), sqes'[i] = sqes'[j]
       PROVE  i = j
  <2>1. i - Len(sqes) = j - Len(sqes)
    BY <1>4, <1>5, <1>10, <1>13, <1>18
  <2> QED
    BY <1>11, <2>1
<1> QED
  BY <1>3, <1>9, <1>12, <1>14, <1>15, <1>16, <1>17, <1>18

\* What TypeOK says of the queues and of the ring.
LEMMA QueueTypes ==
  ASSUME TypeOK
  PROVE  /\ chan \in Seq(Message) /\ sem_queue \in Seq(Reads)
         /\ sqes \in Seq(Sqe) /\ sq_len \in 0..Len(sqes) /\ sq_len <= SqEntries
         /\ cqes \in Seq(Cqe) /\ cq_len \in 0..Len(cqes) /\ cq_len <= CqEntries
BY DEF TypeOK

\* Callers and the stopping thread leave everything of the driver but its channel alone.
LEMMA CallersFrame ==
  ASSUME (\E r \in Reads : Caller(r)) \/ Stopper
  PROVE  UNCHANGED <<pc, loop, table, ring, memory, stats>>
<1>1. ASSUME NEW r \in Reads, Submit(r) \/ SendRead(r) \/ PollAcquire(r) \/ PollResult(r)
      PROVE  UNCHANGED <<pc, loop, table, ring, memory, stats>>
  BY <1>1 DEF Submit, SendRead, PollAcquire, PollResult
<1>2. ASSUME NEW r \in Reads, DropQuietly(r) \/ DropClose(r) \/ DropSend(r)
      PROVE  UNCHANGED <<pc, loop, table, ring, memory, stats>>
  BY <1>2 DEF DropQuietly, DropClose, DropSend
<1>3. ASSUME Stopper
      PROVE  UNCHANGED <<pc, loop, table, ring, memory, stats>>
  BY <1>3 DEF Stopper, CloseAdmission, RequestShutdown, JoinSend, Joined
<1> QED
  BY <1>1, <1>2, <1>3 DEF Caller, Poll

\* Release keeps callers and semaphore in their types.
LEMMA ReleaseType ==
  ASSUME NEW h \in [Reads -> HandleState], permits \in Nat, sem_queue \in Seq(Reads), Release(h)
  PROVE  handle' \in [Reads -> HandleState] /\ permits' \in Nat /\ sem_queue' \in Seq(Reads)
<1>1. CASE sem_queue = <<>>
  BY <1>1 DEF Release
<1>2. CASE sem_queue # <<>>
  <2>1. Head(sem_queue) \in Reads /\ Tail(sem_queue) \in Seq(Reads) /\ "granted" \in HandleState
    BY <1>2 DEF HandleState
  <2> QED
    BY <1>2, <2>1 DEF Release
<1> QED
  BY <1>1, <1>2

-------------------------------------------------------------------------------
(* Type correctness.                                                       *)

\* The steps of callers and of the stopping thread keep the types.
LEMMA TypeCallers ==
  ASSUME TypeOK, OneStage, (\E r \in Reads : Caller(r)) \/ Stopper
  PROVE  TypeOK'
<1> USE DEF callers, sem, loop, table, ring, memory
<1>1. ASSUME NEW r \in Reads, Submit(r) PROVE TypeOK'
  <2>0. \A v \in {"inert", "sending", "waiting"} :
          [handle EXCEPT ![r] = v] \in [Reads -> HandleState]
    BY DEF TypeOK, HandleState
  <2>1. handle' \in [Reads -> HandleState]
    BY <1>1, <2>0 DEF Submit
  <2>2. permits' \in Nat
    BY <1>1 DEF Submit, TypeOK
  <2>3. result' \in [Reads -> {"none", "ok", "err", "gone"}]
    BY <1>1 DEF Submit, TypeOK
  <2> QED
    BY <1>1, <2>1, <2>2, <2>3 DEF Submit, TypeOK
<1>2. ASSUME NEW r \in Reads, SendRead(r) PROVE TypeOK'
  <2>1. chan' \in Seq(Message)
    BY <1>2 DEF SendRead, TypeOK, Sent, ReadMsg, Message
  <2>2. handle' \in [Reads -> HandleState] /\ permits' \in Nat /\ sem_queue' \in Seq(Reads)
    <3> DEFINE h == [handle EXCEPT ![r] = IF @ = "sending" THEN "inert" ELSE "finished"]
    <3>1. h \in [Reads -> HandleState]
      BY DEF TypeOK, HandleState
    <3>2. CASE ReceiverGone
      BY <1>2, <3>1, <3>2, ReleaseType DEF SendRead, TypeOK
    <3>3. CASE ~ReceiverGone
      BY <1>2, <3>3 DEF SendRead, TypeOK, HandleState
    <3> QED
      BY <3>2, <3>3
  <2> QED
    BY <1>2, <2>1, <2>2 DEF SendRead, TypeOK
<1>3. ASSUME NEW r \in Reads, PollAcquire(r) PROVE TypeOK'
  <2>1. handle' \in [Reads -> HandleState] /\ permits' \in Nat /\ sem_queue' \in Seq(Reads)
    <3>1. [handle EXCEPT ![r] = "finished"] \in [Reads -> HandleState]
      BY DEF TypeOK, HandleState
    <3>2. CASE sem_closed /\ handle[r] = "granted"
      BY <1>3, <3>1, <3>2, ReleaseType DEF PollAcquire, TypeOK
    <3>3. CASE ~(sem_closed /\ handle[r] = "granted")
      <4>0. /\ \A v \in {"finished", "resuming", "queued"} :
                 [handle EXCEPT ![r] = v] \in [Reads -> HandleState]
            /\ Append(sem_queue, r) \in Seq(Reads) /\ sem_queue \in Seq(Reads)
        BY DEF TypeOK, HandleState
      <4>1. handle' \in [Reads -> HandleState]
        BY <1>3, <3>3, <4>0 DEF PollAcquire
      <4>2. permits' \in Nat
        BY <1>3, <3>3 DEF PollAcquire, TypeOK
      <4>3. sem_queue' \in Seq(Reads)
        BY <1>3, <3>3, <4>0 DEF PollAcquire
      <4> QED
        BY <4>1, <4>2, <4>3
    <3> QED
      BY <3>2, <3>3
  <2>2. result' \in [Reads -> {"none", "ok", "err", "gone"}]
    BY <1>3 DEF PollAcquire, TypeOK
  <2>3. UNCHANGED <<rx_closed, sem_closed, chan, pc, loop, table, ring, memory, stats, stopper>>
    BY <1>3 DEF PollAcquire
  <2> QED
    BY <2>1, <2>2, <2>3 DEF TypeOK
<1>4. ASSUME NEW r \in Reads, PollResult(r) PROVE TypeOK'
  BY <1>4 DEF PollResult, TypeOK, HandleState
<1>5. ASSUME NEW r \in Reads, DropQuietly(r) PROVE TypeOK'
  <2>1. handle' \in [Reads -> HandleState] /\ permits' \in Nat /\ sem_queue' \in Seq(Reads)
    <3> DEFINE h == [handle EXCEPT ![r] = "dropped"]
    <3>1. h \in [Reads -> HandleState]
      BY DEF TypeOK, HandleState
    <3>2. CASE handle[r] = "granted"
      BY <1>5, <3>1, <3>2, ReleaseType DEF DropQuietly, TypeOK
    <3>3. CASE handle[r] # "granted"
      <4>1. Without(sem_queue, r) \in Seq(Reads)
        BY WithoutProperties DEF TypeOK, OneStage, Waiters
      <4> QED
        BY <1>5, <3>1, <3>3, <4>1 DEF DropQuietly, TypeOK
    <3> QED
      BY <3>2, <3>3
  <2> QED
    BY <1>5, <2>1 DEF DropQuietly, TypeOK
<1>6. ASSUME NEW r \in Reads, DropClose(r) PROVE TypeOK'
  BY <1>6 DEF DropClose, TypeOK, HandleState
<1>7. ASSUME NEW r \in Reads, DropSend(r) PROVE TypeOK'
  BY <1>7 DEF DropSend, TypeOK, HandleState, Sent, CancelMsg, Message
<1>8. CASE CloseAdmission
  BY <1>8 DEF CloseAdmission, CloseSemaphore, TypeOK
<1>9. CASE RequestShutdown
  BY <1>9 DEF RequestShutdown, Sent, Message, TypeOK
<1>10. CASE JoinSend
  BY <1>10 DEF JoinSend, Sent, Message, TypeOK
<1>11. CASE Joined
  BY <1>11 DEF Joined, TypeOK
<1> QED
  BY <1>1, <1>2, <1>3, <1>4, <1>5, <1>6, <1>7, <1>8, <1>9, <1>10, <1>11
     DEF Caller, Poll, Stopper

\* Taking the next message: what it is, and the types of channel and budget after.
LEMMA TakeMessageType ==
  ASSUME TypeOK, NEW cost \in Nat, TakeMessage(cost)
  PROVE  /\ Head(chan) \in Message
         /\ Head(chan).type \in {"read", "cancel"} => Head(chan).id \in Reads
         /\ chan' \in Seq(Message)
         /\ budget' \in [messages : Nat, allocation : Nat, completions : Nat]
<1>1. chan # <<>> /\ chan \in Seq(Message)
  BY DEF TakeMessage, TypeOK
<1>2. Head(chan) \in Message /\ Tail(chan) \in Seq(Message)
  BY <1>1
<1>3. Head(chan).type \in {"read", "cancel"} => Head(chan).id \in Reads
  BY <1>2 DEF Message, ShutdownMsg
<1> DEFINE B == [messages : Nat, allocation : Nat, completions : Nat]
<1>4. budget' \in B
  <2>1. budget \in B
    BY DEF TypeOK
  <2>2. budget.messages + 1 \in Nat /\ budget.allocation + cost \in Nat
    BY <2>1
  <2> QED
    BY <2>1, <2>2 DEF TakeMessage
<1> QED
  BY <1>2, <1>3, <1>4 DEF TakeMessage

\* Taking the next CQE.
LEMMA NextCqeType ==
  ASSUME TypeOK, NextCqe
  PROVE  /\ cqes # <<>> /\ Head(cqes) \in Cqe
         /\ cqes' \in Seq(Cqe) /\ cq_len' \in 0..Len(cqes') /\ cq_len' <= CqEntries
         /\ budget' \in [messages : Nat, allocation : Nat, completions : Nat]
<1>1. cqes \in Seq(Cqe) /\ cqes # <<>> /\ cq_len \in 1..Len(cqes) /\ cq_len <= CqEntries
  BY QueueTypes DEF NextCqe
<1>2. Head(cqes) \in Cqe /\ Tail(cqes) \in Seq(Cqe) /\ Len(Tail(cqes)) = Len(cqes) - 1
  BY <1>1, Received
<1>3. CqEntries \in Nat
  BY ShardAssumption DEF CqEntries
<1>4. cq_len' \in 0..Len(cqes') /\ cq_len' <= CqEntries
  BY <1>1, <1>2, <1>3 DEF NextCqe
<1> DEFINE B == [messages : Nat, allocation : Nat, completions : Nat]
<1>5. budget' \in B
  <2>1. budget \in B
    BY DEF TypeOK
  <2>2. budget.completions + 1 \in Nat
    BY <2>1
  <2> QED
    BY <2>1, <2>2 DEF NextCqe
<1> QED
  BY <1>1, <1>2, <1>4, <1>5 DEF NextCqe

\* An answer is a value of the oneshot.
LEMMA AnswerType ==
  ASSUME TypeOK, NEW r, NEW outcome, Answer(r, outcome)
  PROVE  result' \in [Reads -> {"none", "ok", "err", "gone"}]
BY DEF Answer, TypeOK

\* The steps of the driver's intake keep the types.
LEMMA TypeIntake ==
  ASSUME Countable, TypeOK, RejectRead \/ IntakeRead \/ IntakeCancel \/ IntakeShutdown \/ Panic
  PROVE  TypeOK'
<1> USE DEF callers, sem, loop, table, ring, memory
<1>1. CASE RejectRead
  <2>1. handle' \in [Reads -> HandleState] /\ permits' \in Nat /\ sem_queue' \in Seq(Reads)
    BY <1>1, ReleaseType DEF RejectRead, TypeOK
  <2>2. result' \in [Reads -> {"none", "ok", "err", "gone"}]
    BY <1>1, AnswerType DEF RejectRead
  <2>3. chan' \in Seq(Message) /\ budget' \in [messages : Nat, allocation : Nat, completions : Nat]
    BY <1>1, TakeMessageType DEF RejectRead
  <2> QED
    <3>1. UNCHANGED <<rx_closed, sem_closed, pc, shutting_down, drain_deadline, submit_errors,
                      accepted, table, ring, memory, stats, stopper>>
      BY <1>1 DEF RejectRead
    <3> QED
      BY <2>1, <2>2, <2>3, <3>1 DEF TypeOK
<1>2. CASE IntakeRead
  <2> DEFINE r == Head(chan).id
             cost == Shape[r].region_len + Shape[r].align - 1
  <2>1. chan # <<>> /\ Head(chan).type = "read" /\ chan \in Seq(Message)
    BY <1>2 DEF IntakeRead, TypeOK
  <2>2. r \in Reads
    BY <2>1 DEF Message, ShutdownMsg
  <2>3. Shape[r] \in Pending
    BY <2>2, ShardAssumption
  <2>4. cost \in Nat
    BY <2>3 DEF Pending
  <2>5. chan' \in Seq(Message) /\ budget' \in [messages : Nat, allocation : Nat, completions : Nat]
    BY <1>2, <2>4, TakeMessageType DEF IntakeRead
  <2>6. entry' \in [Reads -> Pending] /\ pending' \subseteq Reads
    BY <1>2, <2>2, <2>3 DEF IntakeRead, TypeOK
  <2>7. sqes' = Append(sqes, ReadSqe(r)) /\ ReadSqe(r) \in Sqe
    BY <1>2, <2>2 DEF IntakeRead, ReadSqe, Sqe
  <2>8. sqes' \in Seq(Sqe) /\ Len(sqes') = Len(sqes) + 1 /\ Len(sqes) \in Nat
    BY <2>7 DEF TypeOK
  <2> DEFINE St == [submitted : Nat, delivered : Nat, orphan_reclaimed : Nat, in_flight : Nat]
  <2>9. stats' \in St
    <3>1. stats \in St
      BY DEF TypeOK
    <3>2. stats.submitted + 1 \in Nat /\ stats.in_flight + 1 \in Nat
      BY <3>1
    <3> QED
      BY <1>2, <3>1, <3>2 DEF IntakeRead
  <2>10. sq_len' \in 0..Len(sqes') /\ sq_len' <= SqEntries
    <3>1. sq_len' = sq_len
      BY <1>2 DEF IntakeRead
    <3> QED
      BY <2>8, <3>1, QueueTypes
  <2> QED
    BY <1>2, <2>5, <2>6, <2>8, <2>9, <2>10 DEF IntakeRead, TypeOK
<1>3. CASE IntakeCancel
  <2> DEFINE r == Head(chan).id
  <2>1. r \in Reads /\ chan' \in Seq(Message)
        /\ budget' \in [messages : Nat, allocation : Nat, completions : Nat]
    BY <1>3, TakeMessageType DEF IntakeCancel
  <2>2. entry' \in [Reads -> Pending]
    <3>0. entry[r] \in Pending
      BY <2>1 DEF TypeOK
    <3>1. [entry[r] EXCEPT !.cancel_requested = TRUE] \in Pending
      BY <3>0 DEF Pending
    <3>2. entry' = IF r \in pending THEN [entry EXCEPT ![r] = [entry[r] EXCEPT !.cancel_requested = TRUE]]
                   ELSE entry
      BY <1>3 DEF IntakeCancel
    <3> QED
      BY <2>1, <3>1, <3>2 DEF TypeOK
  <2>3. sqes' \in Seq(Sqe) /\ Len(sqes') >= Len(sqes) /\ queued_cancels' \subseteq Reads
    <3>1. CASE r \in pending
      <4>1. queue_cancels({r})
        BY <1>3, <3>1 DEF IntakeCancel
      <4> QED
        BY <2>1, <4>1, QueueCancels DEF TypeOK
    <3>2. CASE r \notin pending
      BY <1>3, <3>2 DEF IntakeCancel, TypeOK
    <3> QED
      BY <3>1, <3>2
  <2>4. sq_len' \in 0..Len(sqes') /\ sq_len' <= SqEntries
    BY <1>3, <2>3 DEF IntakeCancel, TypeOK
  <2> QED
    <3>1. UNCHANGED <<callers, sem, pc, shutting_down, drain_deadline, submit_errors, accepted,
                      pending, cqes, cq_len, kernel, memory, stats, stopper>>
      BY <1>3 DEF IntakeCancel
    <3> QED
      BY <2>1, <2>2, <2>3, <2>4, <3>1 DEF TypeOK
<1>4. CASE IntakeShutdown
  <2>1. chan' \in Seq(Message) /\ budget' \in [messages : Nat, allocation : Nat, completions : Nat]
    BY <1>4, TakeMessageType DEF IntakeShutdown
  <2>2. sqes' \in Seq(Sqe) /\ Len(sqes') >= Len(sqes) /\ queued_cancels' \subseteq Reads
    BY <1>4, QueueCancels DEF IntakeShutdown, BeginShutdown, TypeOK
  <2>3. sq_len' \in 0..Len(sqes') /\ sq_len' <= SqEntries
    BY <1>4, <2>2 DEF IntakeShutdown, TypeOK
  <2> QED
    BY <1>4, <2>1, <2>2, <2>3 DEF IntakeShutdown, BeginShutdown, TypeOK
<1>5. CASE Panic
  BY <1>5 DEF Panic, TypeOK
<1> QED
  BY <1>1, <1>2, <1>3, <1>4, <1>5

-------------------------------------------------------------------------------
(* Types: the ring, the exits and the kernel.                              *)

\* The steps around the driver's two submissions keep the types.
LEMMA TypeSubmit ==
  ASSUME Countable, TypeOK, EndIntake \/ EndReap \/ EnterReturns \/ EnterRetries \/ EnterFails
  PROVE  TypeOK'
<1> USE DEF callers, sem, loop, table, ring, memory
<1>0. SqEntries \in Nat /\ CqEntries \in Nat /\ MAX_SUBMIT_ERRORS \in Nat
  BY ShardAssumption DEF CqEntries
<1>1. ASSUME EndIntake \/ EndReap PROVE TypeOK'
  <2>1. sq_len' \in 0..Len(sqes') /\ sq_len' <= SqEntries
    <3>1. sq_len' = flush_backlog /\ sqes' = sqes
      BY <1>1 DEF EndIntake, EndReap, submit_ring
    <3> QED
      BY <1>0, <3>1, QueueTypes DEF flush_backlog, Least
  <2>2. budget' \in [messages : Nat, allocation : Nat, completions : Nat]
    BY <1>1 DEF EndIntake, EndReap, FreshBudget
  <2>3. pc' \in {"enter1", "reap", "enter2", "check"}
    BY <1>1 DEF EndIntake, EndReap, submit_ring
  <2> QED
    <3>1. UNCHANGED <<callers, sem, chan, shutting_down, drain_deadline, submit_errors, accepted,
                      table, sqes, cqes, cq_len, kernel, memory, stats, stopper>>
      BY <1>1 DEF EndIntake, EndReap, submit_ring
    <3> QED
      BY <2>1, <2>2, <2>3, <3>1 DEF TypeOK
<1>2. CASE EnterReturns
  <2>1. cq_len' \in 0..Len(cqes') /\ cq_len' <= CqEntries
    BY <1>0, <1>2 DEF EnterReturns, Least, TypeOK
  <2> QED
    BY <1>2, <2>1 DEF EnterReturns, AfterEnter, TypeOK
<1>3. CASE EnterRetries
  BY <1>3 DEF EnterRetries, AfterEnter, TypeOK
<1>4. CASE EnterFails
  <2>1. sqes' \in Seq(Sqe) /\ Len(sqes') >= Len(sqes) /\ queued_cancels' \subseteq Reads
        /\ shutting_down' \in BOOLEAN
    <3>1. CASE ~shutting_down /\ submit_errors' = MAX_SUBMIT_ERRORS
      BY <1>4, <3>1, QueueCancels DEF EnterFails, BeginShutdown, TypeOK
    <3>2. CASE ~(~shutting_down /\ submit_errors' = MAX_SUBMIT_ERRORS)
      BY <1>4, <3>2 DEF EnterFails, TypeOK
    <3> QED
      BY <3>1, <3>2
  <2>2. sq_len' \in 0..Len(sqes') /\ sq_len' <= SqEntries
    BY <1>4, <2>1 DEF EnterFails, TypeOK
  <2>3. submit_errors' \in Nat
    BY <1>0, <1>4 DEF EnterFails, Least, TypeOK
  <2> QED
    BY <1>4, <2>1, <2>2, <2>3 DEF EnterFails, AfterEnter, TypeOK
<1> QED
  BY <1>1, <1>2, <1>3, <1>4

\* The steps of the driver's reap keep the types; that a finished read was in
\* flight, so that the counter stays natural, is StatsConserved.
LEMMA TypeReap ==
  ASSUME Countable, TypeOK, StatsConserved, ReapIgnored \/ ReapFinish \/ ReapResubmit
  PROVE  TypeOK'
<1> USE DEF callers, sem, loop, table, ring, memory
<1> DEFINE c == Head(cqes)
           r == c.id
<1>0. /\ cqes' \in Seq(Cqe) /\ cq_len' \in 0..Len(cqes') /\ cq_len' <= CqEntries
      /\ budget' \in [messages : Nat, allocation : Nat, completions : Nat]
      /\ r \in Reads /\ c.res \in Int
  BY NextCqeType DEF ReapIgnored, ReapFinish, ReapResubmit, Cqe
<1> HIDE DEF r
<1>1. CASE ReapIgnored
  <2>1. UNCHANGED <<callers, sem, chan, pc, shutting_down, drain_deadline, submit_errors,
                    accepted, table, sqes, sq_len, kernel, memory, stats, stopper>>
    BY <1>1 DEF ReapIgnored
  <2> QED
    BY <1>0, <2>1 DEF TypeOK
<1>2. CASE ReapFinish
  <2>1. handle' \in [Reads -> HandleState] /\ permits' \in Nat /\ sem_queue' \in Seq(Reads)
    BY <1>2, ReleaseType DEF ReapFinish, TypeOK
  <2>2. result' \in [Reads -> {"none", "ok", "err", "gone"}]
    BY <1>2, AnswerType DEF ReapFinish
  <2>3. entry' \in [Reads -> Pending]
    <3>1. Shape[r] \in Pending
      BY <1>0, ShardAssumption
    <3> QED
      BY <1>0, <1>2, <3>1 DEF ReapFinish, TypeOK, r
  <2>4. pending' \subseteq Reads /\ freed' \subseteq Reads /\ queued_cancels' \subseteq Reads
    BY <1>0, <1>2 DEF ReapFinish, TypeOK, r
  <2> DEFINE St == [submitted : Nat, delivered : Nat, orphan_reclaimed : Nat, in_flight : Nat]
  <2>5. stats' \in St
    <3>1. r \in pending /\ stats' = FinishStats(r)
      BY <1>2 DEF ReapFinish, IsReadCompletion, r
    <3>2. Owned \in SUBSET Reads /\ Owned # {}
      BY <3>1 DEF Owned, TypeOK
    <3>3. Cardinality(Owned) \in Nat /\ Cardinality(Owned) # 0
      BY <3>2 DEF Countable
    <3>4. stats \in St
      BY DEF TypeOK
    <3>5. /\ stats.in_flight - 1 \in Nat
          /\ stats.delivered + 1 \in Nat /\ stats.orphan_reclaimed + 1 \in Nat
      BY <3>2, <3>3, <3>4 DEF StatsConserved
    <3> QED
      BY <3>1, <3>4, <3>5 DEF FinishStats
  <2> QED
    <3>1. UNCHANGED <<rx_closed, sem_closed, chan, pc, shutting_down, drain_deadline, submit_errors,
                      accepted, sqes, sq_len, kernel, leaked, stopper>>
      BY <1>2 DEF ReapFinish
    <3> QED
      BY <1>0, <2>1, <2>2, <2>3, <2>4, <2>5, <3>1 DEF TypeOK
<1>3. CASE ReapResubmit
  <2> DEFINE step == Step(r, c.res)
  <2>1. entry[r] \in Pending /\ shutting_down \in BOOLEAN
    BY <1>0 DEF TypeOK
  <2>2. step.step = "resubmit"
    BY <1>3 DEF ReapResubmit, r
  <2>3. step.p \in Pending
    <3> DEFINE closed == r \in rx_closed
    <3>1. closed \in BOOLEAN
      OBVIOUS
    <3>2. step = reap_read(entry[r], c.res, shutting_down, 0, closed)
      BY DEF Step
    <3> HIDE DEF closed, step, c
    <3> QED
      BY <1>0, <2>1, <2>2, <3>1, <3>2, ReapReadType
  <2> HIDE DEF step
  <2>4. entry' = [entry EXCEPT ![r] = step.p] /\ sqes' = Append(sqes, ReadSqe(r))
    BY <1>3 DEF ReapResubmit, r, step
  <2>5. entry' \in [Reads -> Pending]
    BY <2>3, <2>4 DEF TypeOK
  <2>6. ReadSqe(r) \in Sqe
    BY <1>0 DEF ReadSqe, Sqe
  <2>7. sqes' \in Seq(Sqe) /\ Len(sqes') = Len(sqes) + 1 /\ Len(sqes) \in Nat
    BY <2>4, <2>6 DEF TypeOK
  <2>8. sq_len' \in 0..Len(sqes') /\ sq_len' <= SqEntries
    BY <1>3, <2>7 DEF ReapResubmit, TypeOK
  <2> QED
    <3>1. UNCHANGED <<callers, sem, chan, pc, shutting_down, drain_deadline, submit_errors,
                      accepted, pending, queued_cancels, kernel, memory, stats, stopper>>
      BY <1>3 DEF ReapResubmit
    <3> QED
      BY <1>0, <2>5, <2>7, <2>8, <3>1 DEF TypeOK
<1> QED
  BY <1>1, <1>2, <1>3

\* The end of a turn, the three ways out and the deadline keep the types.
LEMMA TypeExit ==
  ASSUME Countable, TypeOK, EndTurn \/ DeadlinePasses \/ DrainedExit \/ LeakExit \/ ThreadExit
  PROVE  TypeOK'
<1> USE DEF callers, sem, loop, table, ring, memory
<1>1. CASE EndTurn
  BY <1>1 DEF EndTurn, Deadline, TypeOK
<1>2. CASE DeadlinePasses
  BY <1>2 DEF DeadlinePasses, TypeOK
<1>3. CASE DrainedExit
  BY <1>3 DEF DrainedExit, CloseSemaphore, TypeOK
<1>4. CASE LeakExit
  BY <1>4 DEF LeakExit, FailStranded, CloseSemaphore, TypeOK
<1>5. CASE ThreadExit
  <2>1. QueuedReads \subseteq Reads
    BY DEF QueuedReads, Range, TypeOK, Message, ShutdownMsg
  <2>2. permits' \in Nat
    <3>1. Cardinality(QueuedReads) \in Nat
      BY <2>1 DEF Countable
    <3>2. permits \in Nat
      BY DEF TypeOK
    <3>3. permits' = permits + Cardinality(QueuedReads)
      BY <1>5 DEF ThreadExit
    <3> QED
      BY <3>1, <3>2, <3>3
  <2>3. /\ UNCHANGED <<handle, rx_closed, sem_queue, sem_closed, loop, entry, queued_cancels, ring,
                       leaked, stats, stopper>>
        /\ pc' = "exited" /\ chan' = <<>> /\ pending' = {} /\ freed' = freed \cup pending
    BY <1>5 DEF ThreadExit
  <2>4. result' \in [Reads -> {"none", "ok", "err", "gone"}]
    BY <1>5 DEF ThreadExit, TypeOK
  <2> QED
    BY <2>2, <2>3, <2>4 DEF TypeOK
<1> QED
  BY <1>1, <1>2, <1>3, <1>4, <1>5

\* Posting a CQE keeps the CQ in its type and within its size.
LEMMA PostType ==
  ASSUME TypeOK, NEW c \in Cqe, Post(c)
  PROVE  cqes' \in Seq(Cqe) /\ cq_len' \in 0..Len(cqes') /\ cq_len' <= CqEntries
<1>1. cqes \in Seq(Cqe) /\ cq_len \in 0..Len(cqes) /\ cq_len <= CqEntries /\ CqEntries \in Nat
  BY ShardAssumption DEF TypeOK, CqEntries
<1>2. cqes' \in Seq(Cqe) /\ Len(cqes') = Len(cqes) + 1 /\ Len(cqes) \in Nat
  BY <1>1, Appended DEF Post
<1> QED
  BY <1>1, <1>2 DEF Post

\* Taking the first SQE: what it is, and the types after.
LEMMA TakeSqeType ==
  ASSUME TypeOK, TakeSqe
  PROVE  /\ sqes # <<>> /\ Head(sqes) \in Sqe
         /\ sqes' \in Seq(Sqe) /\ sq_len' \in 0..Len(sqes') /\ sq_len' <= SqEntries
<1>1. sqes \in Seq(Sqe) /\ sqes # <<>> /\ sq_len \in 1..Len(sqes) /\ sq_len <= SqEntries
  BY DEF TakeSqe, InEnter, TypeOK
<1>2. Head(sqes) \in Sqe /\ Tail(sqes) \in Seq(Sqe) /\ Len(Tail(sqes)) = Len(sqes) - 1
  BY <1>1, Received
<1>3. SqEntries \in Nat
  BY ShardAssumption
<1> QED
  BY <1>1, <1>2, <1>3 DEF TakeSqe

\* The kernel's steps keep the types.
LEMMA TypeKernel ==
  ASSUME TypeOK, Kernel
  PROVE  TypeOK'
<1> USE DEF callers, sem, loop, table, ring, memory
<1>1. CASE KernelTakesRead
  <2>1. /\ sqes' \in Seq(Sqe) /\ sq_len' \in 0..Len(sqes') /\ sq_len' <= SqEntries
    BY <1>1, TakeSqeType DEF KernelTakesRead
  <2>2. kernel' \in [Reads -> {"out", "run", "cancelled"}]
    BY <1>1 DEF KernelTakesRead, TypeOK
  <2> QED
    BY <1>1, <2>1, <2>2 DEF KernelTakesRead, TakeSqe, TypeOK
<1>2. CASE KernelTakesCancel
  <2>1. /\ sqes' \in Seq(Sqe) /\ sq_len' \in 0..Len(sqes') /\ sq_len' <= SqEntries
        /\ Head(sqes) \in Sqe
    BY <1>2, TakeSqeType DEF KernelTakesCancel
  <2>2. kernel' \in [Reads -> {"out", "run", "cancelled"}]
    BY <1>2 DEF KernelTakesCancel, TypeOK
  <2>3. CancelCqe(Head(sqes).id) \in Cqe
    BY <2>1 DEF CancelCqe, Cqe, Sqe
  <2>4. cqes' \in Seq(Cqe) /\ cq_len' \in 0..Len(cqes') /\ cq_len' <= CqEntries
    BY <1>2, <2>3, PostType DEF KernelTakesCancel
  <2> QED
    BY <1>2, <2>1, <2>2, <2>4 DEF KernelTakesCancel, TakeSqe, TypeOK
<1>3. ASSUME NEW r \in Reads, NEW res \in Results \cup {-ECANCELED}, KernelCompletes(r, res)
      PROVE  TypeOK'
  <2>1. res \in Int
    BY ShardAssumption DEF ECANCELED
  <2>2. ReadCqe(r, res) \in Cqe
    BY <2>1 DEF ReadCqe, Cqe
  <2>3. cqes' \in Seq(Cqe) /\ cq_len' \in 0..Len(cqes') /\ cq_len' <= CqEntries
    BY <1>3, <2>2, PostType DEF KernelCompletes
  <2>4. kernel' \in [Reads -> {"out", "run", "cancelled"}]
    BY <1>3 DEF KernelCompletes, TypeOK
  <2> QED
    BY <1>3, <2>3, <2>4 DEF KernelCompletes, TypeOK
<1> QED
  BY <1>1, <1>2, <1>3 DEF Kernel, TakesSqe

\* A step that changes no variable keeps the types.
LEMMA TypeStutter ==
  ASSUME TypeOK, UNCHANGED vars
  PROVE  TypeOK'
BY DEF TypeOK, vars, callers, sem, loop, table, ring, memory

-------------------------------------------------------------------------------
(* The overflow list.                                                      *)

\* A completion is posted behind the ones in the overflow list, and to the CQ
\* while that has room, so posting begins a list only behind a full CQ.
LEMMA PostOverflow ==
  ASSUME TypeOK, NEW c \in Cqe, Post(c), UNCHANGED pc, OverflowFetched
  PROVE  OverflowFetched'
<1>1. /\ Len(cqes) \in Nat /\ cq_len \in Nat /\ cq_len <= Len(cqes) /\ Len(cqes') = Len(cqes) + 1
      /\ CqEntries \in Nat /\ cq_len <= CqEntries
  BY ShardAssumption, Appended DEF TypeOK, Post, CqEntries
<1>2. cq_len' = IF ~Overflowed /\ cq_len < CqEntries THEN cq_len + 1 ELSE cq_len
  BY DEF Post
<1> HIDE DEF CqEntries
<1> QED
  BY <1>1, <1>2 DEF OverflowFetched, Overflowed, CqEntries

\* Only the reap takes from the CQ, and what leaves the second submit either found
\* no overflow list or has entered the kernel for it.
LEMMA OverflowStep ==
  ASSUME TypeOK, OverflowFetched, [Next]_vars
  PROVE  OverflowFetched'
<1> USE DEF callers, sem, loop, table, ring, memory
<1>0. /\ Len(cqes) \in Nat /\ cq_len \in Nat /\ cq_len <= Len(cqes) /\ CqEntries \in Nat
  BY ShardAssumption DEF TypeOK, CqEntries
<1>1. CASE UNCHANGED <<pc, cqes, cq_len>>
  BY <1>1 DEF OverflowFetched, Overflowed, CqEntries
<1>2. CASE UNCHANGED vars \/ (\E r \in Reads : Caller(r)) \/ Stopper \/ DeadlinePasses
  <2>1. UNCHANGED <<pc, cqes, cq_len>>
    BY <1>2, CallersFrame DEF vars, DeadlinePasses
  <2> QED
    BY <1>1, <2>1
<1>3. CASE RejectRead \/ IntakeRead \/ IntakeCancel \/ IntakeShutdown
  BY <1>1, <1>3 DEF RejectRead, IntakeRead, IntakeCancel, IntakeShutdown
<1>4. CASE Panic \/ EndTurn \/ DrainedExit \/ LeakExit \/ ThreadExit
  <2>1. UNCHANGED <<cqes, cq_len>> /\ pc \notin {"reap", "enter2"}
    BY <1>4 DEF Panic, EndTurn, DrainedExit, LeakExit, ThreadExit
  <2> QED
    BY <2>1 DEF OverflowFetched, Overflowed, CqEntries
<1>5. CASE EndIntake
  <2>1. UNCHANGED <<cqes, cq_len>> /\ pc = "intake"
    BY <1>5 DEF EndIntake, submit_ring
  <2> QED
    BY <2>1 DEF OverflowFetched, Overflowed, CqEntries
<1>6. CASE EndReap
  <2>1. UNCHANGED <<cqes, cq_len>> /\ (pc' = "enter2" \/ ~Overflowed)
    BY <1>6 DEF EndReap, submit_ring, needs_enter
  <2> QED
    BY <2>1 DEF OverflowFetched, Overflowed, CqEntries
<1>7. CASE EnterReturns
  <2>1. cqes' = cqes /\ cq_len' = Least(Len(cqes), CqEntries)
    BY <1>7 DEF EnterReturns
  <2> HIDE DEF CqEntries
  <2>2. cq_len' < Len(cqes) => cq_len' = CqEntries
    BY <1>0, <2>1 DEF Least
  <2> QED
    BY <2>1, <2>2 DEF OverflowFetched, Overflowed, CqEntries
<1>8. CASE EnterRetries \/ EnterFails
  BY <1>8 DEF EnterRetries, EnterFails, OverflowFetched
<1>9. CASE ReapIgnored \/ ReapFinish \/ ReapResubmit
  <2>1. pc' = "reap"
    BY <1>9 DEF ReapIgnored, ReapFinish, ReapResubmit, NextCqe
  <2> QED
    BY <2>1 DEF OverflowFetched
<1>10. CASE KernelTakesRead
  BY <1>1, <1>10 DEF KernelTakesRead, TakeSqe
<1>11. CASE KernelTakesCancel
  <2>1. TakeSqe /\ Post(CancelCqe(Head(sqes).id)) /\ UNCHANGED pc
    BY <1>11 DEF KernelTakesCancel, TakeSqe
  <2>2. CancelCqe(Head(sqes).id) \in Cqe
    BY <2>1, TakeSqeType DEF CancelCqe, Cqe, Sqe
  <2> QED
    BY <2>1, <2>2, PostOverflow
<1>12. ASSUME NEW r \in Reads, NEW res \in Results \cup {-ECANCELED}, KernelCompletes(r, res)
       PROVE  OverflowFetched'
  <2>1. ReadCqe(r, res) \in Cqe
    BY ShardAssumption DEF ReadCqe, Cqe, ECANCELED
  <2> QED
    BY <1>12, <2>1, PostOverflow DEF KernelCompletes
<1> QED
  BY <1>2, <1>3, <1>4, <1>5, <1>6, <1>7, <1>8, <1>9, <1>10, <1>11, <1>12
     DEF Next, Driver, Kernel, TakesSqe

-------------------------------------------------------------------------------
(* What is left of a queue when its first is taken, and what a send adds. *)

\* A message in the channel names the read it is about, or is the shutdown message.
LEMMA MessageKinds ==
  ASSUME NEW m \in Message
  PROVE  /\ m.type \in {"read", "cancel", "shutdown"}
         /\ m.type = "read" => m.id \in Reads /\ m = ReadMsg(m.id)
         /\ m.type = "cancel" => m.id \in Reads /\ m = CancelMsg(m.id)
<1>1. CASE m = ShutdownMsg
  BY <1>1 DEF ShutdownMsg
<1>2. CASE m \in [type : {"read", "cancel"}, id : Reads]
  BY <1>2 DEF ReadMsg, CancelMsg
<1> QED
  BY <1>1, <1>2 DEF Message

\* After the first message is taken the rest of the channel is as it was, and
\* holds no second request for the same read.
LEMMA TailMessages ==
  ASSUME TypeOK, OneStage, chan # <<>>, chan' = Tail(chan)
  PROVE  /\ \A i \in DOMAIN chan' : i + 1 \in DOMAIN chan /\ chan'[i] = chan[i + 1]
         /\ \A i, j \in DOMAIN chan' : chan'[i].type = "read" /\ chan'[j] = chan'[i] => j = i
         /\ \A i \in DOMAIN chan' :
              chan'[i].type = "read" => /\ chan'[i].id \in Reads /\ handle[chan'[i].id] \notin Unsent
                                        /\ chan'[i].id \notin Owned \cup freed
                                        /\ result[chan'[i].id] = "none"
         /\ \A i \in DOMAIN chan' :
              chan'[i].type = "read" /\ Head(chan).type = "read" => chan'[i].id # Head(chan).id
<1>1. /\ chan \in Seq(Message) /\ Head(chan) = chan[1] /\ 1 \in DOMAIN chan
      /\ DOMAIN chan = 1..Len(chan) /\ Len(chan) \in Nat
      /\ DOMAIN chan' = 1..(Len(chan) - 1)
      /\ \A i \in 1..(Len(chan) - 1) : chan'[i] = chan[i + 1]
  BY Received DEF TypeOK
<1>2. \A i \in DOMAIN chan' : i + 1 \in DOMAIN chan /\ chan'[i] = chan[i + 1] /\ i \in Nat /\ i # 0
  BY <1>1
<1>3. \A i, j \in DOMAIN chan' : chan'[i].type = "read" /\ chan'[j] = chan'[i] => j = i
  <2> SUFFICES ASSUME NEW i \in DOMAIN chan', NEW j \in DOMAIN chan',
                      chan'[i].type = "read", chan'[j] = chan'[i]
               PROVE  j = i
    OBVIOUS
  <2>1. i + 1 = j + 1
    BY <1>2 DEF OneStage, MessageStage
  <2> QED
    BY <1>2, <2>1
<1>4. \A i \in DOMAIN chan : chan[i].type = "read" => chan[i] = ReadMsg(chan[i].id) /\ chan[i].id \in Reads
  BY <1>1 DEF Message, ShutdownMsg, ReadMsg
<1>5. ASSUME NEW i \in DOMAIN chan', chan'[i].type = "read", Head(chan).type = "read",
             chan'[i].id = Head(chan).id
      PROVE  FALSE
  <2>1. chan[i + 1] = chan[1]
    BY <1>1, <1>2, <1>4, <1>5
  <2>2. i + 1 = 1
    BY <1>1, <1>2, <1>5, <2>1 DEF OneStage, MessageStage
  <2> QED
    BY <1>2, <2>2
<1>6. \A i \in DOMAIN chan' :
        chan'[i].type = "read" => /\ chan'[i].id \in Reads /\ handle[chan'[i].id] \notin Unsent
                                  /\ chan'[i].id \notin Owned \cup freed
                                  /\ result[chan'[i].id] = "none"
  BY <1>2, <1>4 DEF OneStage, MessageStage
<1> QED
  BY <1>2, <1>3, <1>5, <1>6

\* After the kernel takes the first SQE the rest are as they were, and hold no
\* second read SQE of the same read.
LEMMA TailSqes ==
  ASSUME TypeOK, OneStage, TakeSqe
  PROVE  /\ Head(sqes) = sqes[1] /\ 1 \in DOMAIN sqes /\ Head(sqes) \in Sqe
         /\ \A i \in DOMAIN sqes' : i + 1 \in DOMAIN sqes /\ sqes'[i] = sqes[i + 1] /\ sqes'[i] \in Sqe
         /\ \A i, j \in DOMAIN sqes' : sqes'[i].op = "read" /\ sqes'[j] = sqes'[i] => j = i
         /\ \A i \in DOMAIN sqes' :
              sqes'[i].op = "read" /\ Head(sqes).op = "read" => sqes'[i].id # Head(sqes).id
<1>0. sqes # <<>> /\ sqes' = Tail(sqes)
  BY TakeSqeType DEF TakeSqe
<1>1. /\ sqes \in Seq(Sqe) /\ Head(sqes) = sqes[1] /\ 1 \in DOMAIN sqes /\ Head(sqes) \in Sqe
      /\ DOMAIN sqes = 1..Len(sqes) /\ Len(sqes) \in Nat
      /\ DOMAIN sqes' = 1..(Len(sqes) - 1)
      /\ \A i \in 1..(Len(sqes) - 1) : sqes'[i] = sqes[i + 1]
  BY <1>0, Received DEF TypeOK
<1>2. \A i \in DOMAIN sqes' :
        i + 1 \in DOMAIN sqes /\ sqes'[i] = sqes[i + 1] /\ sqes'[i] \in Sqe /\ i \in Nat /\ i # 0
  BY <1>1
<1>3. ASSUME NEW i \in DOMAIN sqes', NEW j \in DOMAIN sqes', sqes'[i].op = "read", sqes'[j] = sqes'[i]
      PROVE  j = i
  <2>1. i + 1 = j + 1
    BY <1>2, <1>3 DEF OneStage, SqeStage
  <2> QED
    BY <1>2, <2>1
<1>4. ASSUME NEW i \in DOMAIN sqes', sqes'[i].op = "read", Head(sqes).op = "read",
             sqes'[i].id = Head(sqes).id
      PROVE  FALSE
  <2>1. sqes[i + 1] = sqes[1]
    BY <1>1, <1>2, <1>4 DEF Sqe
  <2>2. i + 1 = 1
    BY <1>1, <1>2, <1>4, <2>1 DEF OneStage, SqeStage
  <2> QED
    BY <1>2, <2>2
<1> QED
  BY <1>1, <1>2, <1>3, <1>4

\* After the first CQE is reaped the rest of the CQ is as it was, and holds no
\* second completion of the same read.
LEMMA TailCqes ==
  ASSUME TypeOK, OneStage, cqes # <<>>, cqes' = Tail(cqes)
  PROVE  /\ \A i \in DOMAIN cqes' : i + 1 \in DOMAIN cqes /\ cqes'[i] = cqes[i + 1] /\ cqes'[i] \in Cqe
         /\ \A i, j \in DOMAIN cqes' :
              cqes'[i].op = "read" /\ cqes'[j].op = "read" /\ cqes'[j].id = cqes'[i].id => j = i
         /\ \A i \in DOMAIN cqes' :
              cqes'[i].op = "read" /\ Head(cqes).op = "read" => cqes'[i].id # Head(cqes).id
<1>1. /\ cqes \in Seq(Cqe) /\ Head(cqes) = cqes[1] /\ 1 \in DOMAIN cqes
      /\ DOMAIN cqes = 1..Len(cqes) /\ Len(cqes) \in Nat
      /\ DOMAIN cqes' = 1..(Len(cqes) - 1)
      /\ \A i \in 1..(Len(cqes) - 1) : cqes'[i] = cqes[i + 1]
  BY Received DEF TypeOK
<1>2. \A i \in DOMAIN cqes' :
        i + 1 \in DOMAIN cqes /\ cqes'[i] = cqes[i + 1] /\ cqes'[i] \in Cqe /\ i \in Nat /\ i # 0
  BY <1>1
<1>3. ASSUME NEW i \in DOMAIN cqes', NEW j \in DOMAIN cqes',
             cqes'[i].op = "read", cqes'[j].op = "read", cqes'[j].id = cqes'[i].id
      PROVE  j = i
  <2>1. i + 1 = j + 1
    BY <1>2, <1>3 DEF OneStage, CqeStage
  <2> QED
    BY <1>2, <2>1
<1>4. ASSUME NEW i \in DOMAIN cqes', cqes'[i].op = "read", Head(cqes).op = "read",
             cqes'[i].id = Head(cqes).id
      PROVE  FALSE
  <2>1. i + 1 = 1
    BY <1>1, <1>2, <1>4 DEF OneStage, CqeStage
  <2> QED
    BY <1>2, <2>1
<1> QED
  BY <1>2, <1>3, <1>4

\* What a channel holds after a send.
LEMMA RangeAppend ==
  ASSUME NEW S, NEW q \in Seq(S), NEW m \in S
  PROVE  Range(Append(q, m)) = Range(q) \cup {m}
<1>1. /\ DOMAIN Append(q, m) = 1..(Len(q) + 1) /\ DOMAIN q = 1..Len(q) /\ Len(q) \in Nat
      /\ \A i \in 1..Len(q) : Append(q, m)[i] = q[i]
      /\ Append(q, m)[Len(q) + 1] = m
  BY Appended
<1>2. \A i \in 1..(Len(q) + 1) : i \in 1..Len(q) \/ i = Len(q) + 1
  BY <1>1
<1>3. 1..Len(q) \subseteq 1..(Len(q) + 1) /\ Len(q) + 1 \in 1..(Len(q) + 1)
  BY <1>1
<1>4. Range(q) \subseteq Range(Append(q, m))
  BY <1>1, <1>3 DEF Range
<1>5. m \in Range(Append(q, m))
  BY <1>1, <1>3 DEF Range
<1>6. Range(Append(q, m)) \subseteq Range(q) \cup {m}
  BY <1>1, <1>2 DEF Range
<1> QED
  BY <1>4, <1>5, <1>6

\* What a channel holds after a receive.
LEMMA RangeTail ==
  ASSUME NEW S, NEW q \in Seq(S), q # <<>>
  PROVE  Range(q) = Range(Tail(q)) \cup {Head(q)}
<1>1. /\ DOMAIN q = 1..Len(q) /\ Len(q) \in Nat /\ Len(q) # 0 /\ Head(q) = q[1]
      /\ DOMAIN Tail(q) = 1..(Len(q) - 1)
      /\ \A i \in 1..(Len(q) - 1) : Tail(q)[i] = q[i + 1]
  BY Received
<1>2. \A i \in 1..(Len(q) - 1) : i + 1 \in DOMAIN q
  BY <1>1
<1>3. \A i \in DOMAIN q : i = 1 \/ (i - 1 \in 1..(Len(q) - 1) /\ (i - 1) + 1 = i)
  BY <1>1
<1>4. 1 \in DOMAIN q
  BY <1>1
<1>5. Range(Tail(q)) \subseteq Range(q)
  BY <1>1, <1>2 DEF Range
<1>6. Head(q) \in Range(q)
  BY <1>1, <1>4 DEF Range
<1>7. Range(q) \subseteq Range(Tail(q)) \cup {Head(q)}
  BY <1>1, <1>3 DEF Range
<1> QED
  BY <1>5, <1>6, <1>7

\* What a send leaves in the channel.
LEMMA SentRange ==
  ASSUME TypeOK, NEW m \in Message, chan' = Sent(m)
  PROVE  /\ Range(chan) \subseteq Range(chan') /\ Range(chan') \subseteq Range(chan) \cup {m}
         /\ pc = "exited" => chan' = chan
         /\ pc # "exited" => m \in Range(chan')
<1>1. chan \in Seq(Message)
  BY DEF TypeOK
<1>2. CASE pc = "exited"
  BY <1>2 DEF Sent, ReceiverGone
<1>3. CASE pc # "exited"
  <2>1. chan' = Append(chan, m)
    BY <1>3 DEF Sent, ReceiverGone
  <2> QED
    BY <1>1, <1>3, <2>1, RangeAppend
<1> QED
  BY <1>2, <1>3
===============================================================================
