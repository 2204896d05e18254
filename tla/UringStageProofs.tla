---------------------------- MODULE UringStageProofs ---------------------------
(***************************************************************************)
(* A read of UringShard is in one stage at a time, whatever the callers,   *)
(* the kernel and the driver's thread do, and its buffer is where          *)
(* ReadOwnership says.                                                     *)
(***************************************************************************)
EXTENDS UringTypeProofs

-------------------------------------------------------------------------------
(* The heads of the driver's queues.                                       *)

\* The message that drain_messages takes next.
LEMMA FirstMessage ==
  ASSUME TypeOK, chan # <<>>
  PROVE  Head(chan) = chan[1] /\ 1 \in DOMAIN chan /\ Head(chan) \in Message
BY QueueTypes

\* The CQE that reap_completions takes next.
LEMMA FirstCqe ==
  ASSUME TypeOK, cqes # <<>>
  PROVE  Head(cqes) = cqes[1] /\ 1 \in DOMAIN cqes
BY QueueTypes

\* An empty queue has no entry.
LEMMA Nothing == DOMAIN <<>> = {}
OBVIOUS

\* The places of a queue, and of what is left of it, are numbers.
LEMMA Numbered ==
  ASSUME NEW S, NEW q \in Seq(S)
  PROVE  DOMAIN q \subseteq Int /\ (q # <<>> => DOMAIN Tail(q) \subseteq Int)
OBVIOUS

\* What the submission queue holds after one SQE more.
LEMMA SqeQueued ==
  ASSUME TypeOK, NEW s \in Sqe, sqes' = Append(sqes, s)
  PROVE  /\ \A i \in DOMAIN sqes : i \in DOMAIN sqes' /\ sqes'[i] = sqes[i]
         /\ \A i \in DOMAIN sqes' : i \in DOMAIN sqes \/ (i = Len(sqes) + 1 /\ sqes'[i] = s)
         /\ DOMAIN sqes' \subseteq Int
<1>1. sqes \in Seq(Sqe)
  BY QueueTypes
<1> QED
  BY <1>1, Appended

\* What the completion queue holds after one CQE more.
LEMMA CqePosted ==
  ASSUME TypeOK, NEW c \in Cqe, cqes' = Append(cqes, c)
  PROVE  /\ \A i \in DOMAIN cqes : i \in DOMAIN cqes' /\ cqes'[i] = cqes[i]
         /\ \A i \in DOMAIN cqes' : i \in DOMAIN cqes \/ (i = Len(cqes) + 1 /\ cqes'[i] = c)
         /\ DOMAIN cqes' \subseteq Int
<1>1. cqes \in Seq(Cqe)
  BY QueueTypes
<1> QED
  BY <1>1, Appended

\* The entries that are queued and posted.
LEMMA Entry ==
  ASSUME NEW r \in Reads
  PROVE  /\ ReadSqe(r) \in Sqe /\ ReadSqe(r).op = "read" /\ ReadSqe(r).id = r
         /\ CancelCqe(r) \in Cqe /\ CancelCqe(r).op = "cancel"
         /\ \A res \in Results \cup {-ECANCELED} :
              ReadCqe(r, res) \in Cqe /\ ReadCqe(r, res).op = "read" /\ ReadCqe(r, res).id = r
BY ShardAssumption DEF ReadSqe, Sqe, CancelCqe, Cqe, ReadCqe, ECANCELED

\* The fields of a read's SQE.
LEMMA IsReadSqe ==
  ASSUME NEW s, NEW r, s = ReadSqe(r)
  PROVE  s.op = "read" /\ s.id = r
BY DEF ReadSqe

\* The read of a CQE and of an SQE.
LEMMA EntryId ==
  ASSUME TypeOK
  PROVE  /\ \A i \in DOMAIN sqes : sqes[i].id \in Reads
         /\ \A i \in DOMAIN cqes : cqes[i].id \in Reads
<1>1. /\ \A i \in DOMAIN sqes : sqes[i] \in Sqe
      /\ \A i \in DOMAIN cqes : cqes[i] \in Cqe
  BY QueueTypes
<1> QED
  BY <1>1 DEF Sqe, Cqe

\* The read of a message.
LEMMA MessageId ==
  ASSUME TypeOK
  PROVE  \A i \in DOMAIN chan : chan[i].type = "read" => chan[i].id \in Reads
<1>1. \A i \in DOMAIN chan : chan[i] \in Message
  BY QueueTypes
<1> QED
  BY <1>1, MessageKinds

\* A read that has no SQE may be given one.
LEMMA ReadQueued ==
  ASSUME TypeOK, SqeStage, NEW r \in Reads, sqes' = Append(sqes, ReadSqe(r)), kernel' = kernel,
         Owned \subseteq Owned', r \in Owned', kernel[r] = "out",
         \A i \in DOMAIN sqes : sqes[i] # ReadSqe(r)
  PROVE  /\ SqeStage'
         /\ \A x \in Reads \ {r} : (\A j \in DOMAIN sqes : sqes[j] # ReadSqe(x))
                                   => \A j \in DOMAIN sqes' : sqes'[j] # ReadSqe(x)
<1>1. /\ \A i \in DOMAIN sqes : i \in DOMAIN sqes' /\ sqes'[i] = sqes[i]
      /\ \A i \in DOMAIN sqes' : i \in DOMAIN sqes \/ (i = Len(sqes) + 1 /\ sqes'[i] = ReadSqe(r))
  BY Entry, SqeQueued
<1>2. ASSUME NEW i \in DOMAIN sqes', sqes'[i].op = "read"
      PROVE  sqes'[i].id \in Owned' /\ kernel'[sqes'[i].id] = "out"
  BY <1>1, <1>2, Entry DEF SqeStage
<1>3. ASSUME NEW i \in DOMAIN sqes', sqes'[i].op = "read", NEW j \in DOMAIN sqes', sqes'[j] = sqes'[i]
      PROVE  j = i
  BY <1>1, <1>3 DEF SqeStage
<1>4. SqeStage'
  BY <1>2, <1>3 DEF SqeStage
<1>5. \A x \in Reads \ {r} : ReadSqe(x) # ReadSqe(r)
  BY Entry
<1> QED
  BY <1>1, <1>4, <1>5

\* The queue is as it was: no cancel has been added to it.
LEMMA NoneQueued ==
  ASSUME TypeOK, sqes' = sqes
  PROVE  /\ sqes' \in Seq(Sqe) /\ Len(sqes') >= Len(sqes)
         /\ \A i \in 1..Len(sqes) : sqes'[i] = sqes[i]
         /\ \A i \in 1..Len(sqes') : i > Len(sqes) => sqes'[i].op = "cancel"
BY QueueTypes

\* What is behind the reads whose messages are still in the channel.
LEMMA QueuedMessage ==
  ASSUME NEW x \in QueuedReads
  PROVE  \E i \in DOMAIN chan : chan[i].type = "read" /\ chan[i].id = x
<1>1. PICK m \in Range(chan) : m.type = "read" /\ m.id = x
  BY DEF QueuedReads
<1>2. PICK i \in DOMAIN chan : chan[i] = m
  BY <1>1 DEF Range
<1> QED
  BY <1>1, <1>2

-------------------------------------------------------------------------------
(* The callers and the stopping thread.                                    *)

\* Stages below the channel depend only on the table and the ring.
LEMMA RingFrame ==
  ASSUME OneStage, UNCHANGED <<pending, leaked, sqes, cqes, kernel>>
  PROVE  SqeStage' /\ CqeStage' /\ KernelStage'
BY DEF OneStage, SqeStage, CqeStage, KernelStage, Owned

\* Release grants the permit to a waiter, if any, and changes no other handle.
LEMMA ReleaseStage ==
  ASSUME TypeOK, Waiters, NEW h \in [Reads -> HandleState], Release(h), UNCHANGED sem_closed,
         \A i \in DOMAIN sem_queue : h[sem_queue[i]] = "queued"
  PROVE  /\ Waiters'
         /\ \A x \in Reads : handle'[x] = h[x] \/ (h[x] = "queued" /\ handle'[x] = "granted")
<1>0. sem_queue \in Seq(Reads)
  BY DEF TypeOK
<1>1. CASE sem_queue = <<>>
  BY <1>1 DEF Release, Waiters
<1>2. CASE sem_queue # <<>>
  <2>0. ~sem_closed'
    BY <1>2 DEF Waiters
  <2> DEFINE w == Head(sem_queue)
  <2>1. /\ w \in Reads /\ w = sem_queue[1] /\ 1 \in DOMAIN sem_queue
        /\ Len(Tail(sem_queue)) = Len(sem_queue) - 1
        /\ Tail(sem_queue) \in Seq(Reads)
        /\ \A i \in 1..Len(Tail(sem_queue)) : Tail(sem_queue)[i] = sem_queue[i + 1]
    BY <1>0, <1>2, Received
  <2>2. handle' = [h EXCEPT ![w] = "granted"] /\ sem_queue' = Tail(sem_queue) /\ h[w] = "queued"
    BY <1>2, <2>1 DEF Release
  <2> HIDE DEF w
  <2>3. \A i \in DOMAIN sem_queue' :
          i + 1 \in DOMAIN sem_queue /\ sem_queue'[i] = sem_queue[i + 1] /\ i \in Nat /\ i # 0
    BY <1>0, <2>1, <2>2
  <2>4. \A i \in DOMAIN sem_queue' : sem_queue'[i] # w /\ sem_queue'[i] \in Reads
    BY <1>0, <2>1, <2>3 DEF Waiters
  <2>5. \A i \in DOMAIN sem_queue' : handle'[sem_queue'[i]] = "queued"
    BY <2>2, <2>3, <2>4
  <2>6. \A i, j \in DOMAIN sem_queue' : sem_queue'[j] = sem_queue'[i] => j = i
    BY <2>3 DEF Waiters
  <2> QED
    BY <2>0, <2>1, <2>2, <2>5, <2>6 DEF Waiters
<1> QED
  BY <1>1, <1>2

\* What a step of a caller may do without moving a read between stages, except
\* from unsent to a message.
LEMMA CallerStage ==
  ASSUME TypeOK, OneStage, UNCHANGED <<pc, table, ring, memory>>, Waiters',
         \A x \in Reads : handle'[x] \in Unsent => handle[x] \in Unsent /\ result'[x] = result[x],
         \A x \in Reads : result'[x] # result[x] => handle[x] \in Unsent,
         \/ chan' = chan
         \/ \E m \in Message :
              /\ chan' = Append(chan, m)
              /\ m.type = "read" => /\ handle[m.id] \in Unsent /\ handle'[m.id] \notin Unsent
                                    /\ result'[m.id] = result[m.id]
  PROVE  OneStage'
<1> USE DEF table, ring, memory
<1>1. SqeStage' /\ CqeStage' /\ KernelStage'
  BY RingFrame
<1>2. UnsentStage'
  BY DEF OneStage, UnsentStage, Owned
<1>3. TableStage'
  BY DEF OneStage, TableStage, UnsentStage, Owned, TypeOK
<1>4. \A i \in DOMAIN chan : chan[i].type = "read" => chan[i].id \in Reads
  BY MessageId
<1>5. \A i \in DOMAIN chan : chan[i].type = "read" =>
         /\ handle'[chan[i].id] \notin Unsent
         /\ chan[i].id \notin Owned' \cup freed'
         /\ result'[chan[i].id] = "none"
  BY <1>4 DEF OneStage, MessageStage, Owned
<1>6. CASE chan' = chan
  BY <1>1, <1>2, <1>3, <1>5, <1>6 DEF OneStage, MessageStage
<1>7. ASSUME NEW m \in Message, chan' = Append(chan, m),
             m.type = "read" => /\ handle[m.id] \in Unsent /\ handle'[m.id] \notin Unsent
                                /\ result'[m.id] = result[m.id]
      PROVE  OneStage'
  <2>1. /\ DOMAIN chan' = 1..(Len(chan) + 1) /\ DOMAIN chan = 1..Len(chan) /\ Len(chan) \in Nat
        /\ chan'[Len(chan) + 1] = m
        /\ \A i \in DOMAIN chan : chan'[i] = chan[i]
    BY <1>7, Appended DEF TypeOK
  <2>2. m.type = "read" => m.id \in Reads
    BY DEF Message, ShutdownMsg
  <2>3. m.type = "read" => m.id \notin Owned' \cup freed' /\ result'[m.id] = "none"
    BY <1>7, <2>2 DEF OneStage, UnsentStage, Owned
  <2>4. \A i \in DOMAIN chan : chan[i].type = "read" => chan[i] # m
    BY <1>7 DEF OneStage, MessageStage
  <2>5. MessageStage'
    <3> SUFFICES ASSUME NEW i \in DOMAIN chan', chan'[i].type = "read"
                 PROVE  /\ handle'[chan'[i].id] \notin Unsent
                        /\ chan'[i].id \notin Owned' \cup freed'
                        /\ result'[chan'[i].id] = "none"
                        /\ \A j \in DOMAIN chan' : chan'[j] = chan'[i] => j = i
      BY DEF MessageStage, Unsent
    <3>1. CASE i \in DOMAIN chan
      <4>1. chan'[i] = chan[i] /\ chan[i].type = "read"
        BY <2>1, <3>1
      <4>2. \A j \in DOMAIN chan : chan[j] = chan[i] => j = i
        BY <3>1, <4>1 DEF OneStage, MessageStage
      <4>3. \A j \in DOMAIN chan' : j \in DOMAIN chan \/ chan'[j] = m
        BY <2>1
      <4>4. \A j \in DOMAIN chan' : chan'[j] = chan'[i] => j = i
        BY <2>1, <2>4, <3>1, <4>1, <4>2, <4>3
      <4> QED
        BY <1>5, <3>1, <4>1, <4>4
    <3>2. CASE i = Len(chan) + 1
      <4>1. chan'[i] = m /\ m.type = "read"
        BY <2>1, <3>2
      <4>2. \A j \in DOMAIN chan' : chan'[j] = chan'[i] => j = i
        BY <2>1, <2>4, <3>2, <4>1
      <4> QED
        BY <1>7, <2>3, <4>1, <4>2
    <3> QED
      BY <2>1, <3>1, <3>2
  <2> QED
    BY <1>1, <1>2, <1>3, <2>5 DEF OneStage
<1> QED
  BY <1>6, <1>7

\* The waiters left by a dropped one are still each queued once.
LEMMA WithoutWaiters ==
  ASSUME TypeOK, Waiters, NEW r \in Reads, UNCHANGED sem_closed,
         sem_queue' = Without(sem_queue, r),
         \A x \in Reads \ {r} : handle'[x] = handle[x]
  PROVE  Waiters'
<1>1. sem_queue \in Seq(Reads) /\ \A i, j \in DOMAIN sem_queue : sem_queue[j] = sem_queue[i] => j = i
  BY DEF TypeOK, Waiters
<1>2. /\ \A i \in DOMAIN sem_queue' :
           \E k \in DOMAIN sem_queue : sem_queue'[i] = sem_queue[k] /\ sem_queue[k] # r
      /\ \A i, j \in DOMAIN sem_queue' : sem_queue'[j] = sem_queue'[i] => j = i
      /\ sem_queue = <<>> => sem_queue' = <<>>
  BY <1>1, WithoutProperties
<1>3. \A i \in DOMAIN sem_queue' : handle'[sem_queue'[i]] = "queued"
  BY <1>1, <1>2 DEF Waiters
<1> QED
  BY <1>2, <1>3 DEF Waiters

\* Callers and the stopping thread keep every read in one stage.
LEMMA StageCallers ==
  ASSUME TypeOK, OneStage, (\E r \in Reads : Caller(r)) \/ Stopper
  PROVE  OneStage'
<1> USE DEF callers, sem
<1>0. /\ handle \in [Reads -> HandleState] /\ sem_queue \in Seq(Reads)
      /\ result \in [Reads -> {"none", "ok", "err", "gone"}] /\ Waiters
  BY DEF TypeOK, OneStage
<1>1. ASSUME NEW r \in Reads, Submit(r) PROVE OneStage'
  <2>1. /\ UNCHANGED <<pc, table, ring, memory, chan, sem_queue, sem_closed>> /\ handle[r] = "idle"
        /\ \A x \in Reads \ {r} : handle'[x] = handle[x] /\ result'[x] = result[x]
        /\ \/ handle'[r] = "inert"
           \/ handle'[r] \in {"sending", "waiting"} /\ result' = result
    BY <1>0, <1>1 DEF Submit
  <2>2. Waiters'
    BY <1>0, <2>1 DEF Waiters
  <2> QED
    BY <2>1, <2>2, CallerStage DEF Unsent
<1>2. ASSUME NEW r \in Reads, SendRead(r) PROVE OneStage'
  <2>0. UNCHANGED <<pc, table, ring, memory, sem_closed>> /\ handle[r] \in {"sending", "resuming"}
    BY <1>2 DEF SendRead
  <2>1. CASE ReceiverGone
    <3> DEFINE h == [handle EXCEPT ![r] = IF @ = "sending" THEN "inert" ELSE "finished"]
    <3>1. /\ h \in [Reads -> HandleState] /\ h[r] \in {"inert", "finished"}
          /\ \A x \in Reads \ {r} : h[x] = handle[x]
      BY <1>0 DEF HandleState
    <3>2. Release(h) /\ chan' = chan /\ result' = [result EXCEPT ![r] = "err"]
      BY <1>2, <2>1 DEF SendRead, Sent
    <3> HIDE DEF h
    <3>3. \A i \in DOMAIN sem_queue : h[sem_queue[i]] = "queued"
      BY <1>0, <2>0, <3>1 DEF Waiters
    <3>4. /\ Waiters'
          /\ \A x \in Reads : handle'[x] = h[x] \/ (h[x] = "queued" /\ handle'[x] = "granted")
      BY <1>0, <2>0, <3>1, <3>2, <3>3, ReleaseStage
    <3>5. \A x \in Reads : handle'[x] \in Unsent => handle[x] \in Unsent /\ result'[x] = result[x]
      BY <1>0, <3>1, <3>2, <3>4 DEF Unsent
    <3>6. \A x \in Reads : result'[x] # result[x] => handle[x] \in Unsent
      BY <1>0, <2>0, <3>2 DEF Unsent
    <3> QED
      BY <2>0, <3>2, <3>4, <3>5, <3>6, CallerStage
  <2>2. CASE ~ReceiverGone
    <3>1. /\ chan' = Append(chan, ReadMsg(r)) /\ UNCHANGED <<result, sem_queue>>
          /\ handle' = [handle EXCEPT ![r] = "submitted"]
      BY <1>2, <2>2 DEF SendRead, Sent
    <3>2. Waiters'
      BY <1>0, <2>0, <3>1 DEF Waiters
    <3>3. ReadMsg(r) \in Message /\ ReadMsg(r).id = r
      BY DEF ReadMsg, Message
    <3>4. handle[r] \in Unsent /\ handle'[r] \notin Unsent
      BY <1>0, <2>0, <3>1 DEF Unsent
    <3>5. \A x \in Reads : handle'[x] \in Unsent => handle[x] \in Unsent /\ result'[x] = result[x]
      BY <1>0, <3>1, <3>4
    <3> QED
      BY <2>0, <3>1, <3>2, <3>3, <3>4, <3>5, CallerStage
  <2> QED
    BY <2>1, <2>2
<1>3. ASSUME NEW r \in Reads, PollAcquire(r) PROVE OneStage'
  <2>0. /\ UNCHANGED <<pc, table, ring, memory, chan, sem_closed>>
        /\ handle[r] \in {"waiting", "queued", "granted"}
    BY <1>3 DEF PollAcquire
  <2>1. CASE sem_closed
    <3> DEFINE h == [handle EXCEPT ![r] = "finished"]
    <3>1. /\ h \in [Reads -> HandleState] /\ h[r] = "finished"
          /\ \A x \in Reads \ {r} : h[x] = handle[x]
      BY <1>0 DEF HandleState
    <3>2. result' = [result EXCEPT ![r] = "err"] /\ handle' = h /\ sem_queue' = <<>>
      BY <1>0, <1>3, <2>1 DEF PollAcquire, Release, Waiters
    <3> HIDE DEF h
    <3>3. Waiters'
      BY <3>2 DEF Waiters
    <3>4. \A x \in Reads : handle'[x] \in Unsent => handle[x] \in Unsent /\ result'[x] = result[x]
      BY <1>0, <3>1, <3>2 DEF Unsent
    <3>5. \A x \in Reads : result'[x] # result[x] => handle[x] \in Unsent
      BY <1>0, <2>0, <3>2 DEF Unsent
    <3> QED
      BY <2>0, <3>3, <3>4, <3>5, CallerStage
  <2>2. CASE ~sem_closed /\ UNCHANGED sem_queue
    <3>1. handle' = [handle EXCEPT ![r] = "resuming"] /\ UNCHANGED result
      BY <1>0, <1>3, <2>2, Appended DEF PollAcquire
    <3>2. handle[r] # "queued"
      BY <1>3, <2>2 DEF PollAcquire
    <3>3. Waiters'
      BY <1>0, <2>0, <2>2, <3>1, <3>2 DEF Waiters
    <3>4. \A x \in Reads : handle'[x] \in Unsent => handle[x] \in Unsent
      BY <1>0, <2>0, <3>1 DEF Unsent
    <3> QED
      BY <2>0, <3>1, <3>3, <3>4, CallerStage
  <2>3. CASE ~sem_closed /\ sem_queue' # sem_queue
    <3>1. /\ handle' = [handle EXCEPT ![r] = "queued"] /\ UNCHANGED result
          /\ sem_queue' = Append(sem_queue, r) /\ handle[r] = "waiting"
      BY <1>0, <1>3, <2>3 DEF PollAcquire
    <3>2. /\ DOMAIN sem_queue' = 1..(Len(sem_queue) + 1) /\ DOMAIN sem_queue = 1..Len(sem_queue)
          /\ Len(sem_queue) \in Nat /\ sem_queue'[Len(sem_queue) + 1] = r
          /\ \A i \in DOMAIN sem_queue : sem_queue'[i] = sem_queue[i] /\ sem_queue[i] \in Reads
      BY <1>0, <3>1, Appended
    <3>3. \A i \in DOMAIN sem_queue : sem_queue[i] # r
      BY <1>0, <3>1 DEF Waiters
    <3>4. \A i \in DOMAIN sem_queue' : handle'[sem_queue'[i]] = "queued"
      BY <1>0, <3>1, <3>2, <3>3 DEF Waiters
    <3>5. \A i, j \in DOMAIN sem_queue' : sem_queue'[j] = sem_queue'[i] => j = i
      BY <1>0, <3>2, <3>3 DEF Waiters
    <3>6. Waiters'
      BY <2>0, <2>3, <3>4, <3>5 DEF Waiters
    <3>7. \A x \in Reads : handle'[x] \in Unsent => handle[x] \in Unsent
      BY <1>0, <2>0, <3>1 DEF Unsent
    <3> QED
      BY <2>0, <3>1, <3>6, <3>7, CallerStage
  <2> QED
    BY <2>1, <2>2, <2>3
<1>4. ASSUME NEW r \in Reads, PollResult(r) \/ DropClose(r) \/ DropSend(r) PROVE OneStage'
  <2>1. /\ UNCHANGED <<pc, table, ring, memory, result, sem_queue, sem_closed>>
        /\ handle[r] \in {"submitted", "inert", "dropping"}
        /\ \E v \in {"finished", "dropping", "dropped"} : handle' = [handle EXCEPT ![r] = v]
        /\ chan' = chan \/ chan' = Append(chan, CancelMsg(r))
    BY <1>4 DEF PollResult, DropClose, DropSend, Sent
  <2>2. CancelMsg(r) \in Message /\ CancelMsg(r).type = "cancel"
    BY DEF CancelMsg, Message
  <2>3. Waiters'
    BY <1>0, <2>1 DEF Waiters
  <2>4. \A x \in Reads : handle'[x] \in Unsent => handle[x] \in Unsent
    BY <1>0, <2>1 DEF Unsent
  <2> QED
    BY <2>1, <2>2, <2>3, <2>4, CallerStage
<1>5. ASSUME NEW r \in Reads, DropQuietly(r) PROVE OneStage'
  <2> DEFINE h == [handle EXCEPT ![r] = "dropped"]
  <2>0. UNCHANGED <<pc, table, ring, memory, chan, result, sem_closed>>
    BY <1>5 DEF DropQuietly
  <2>1. /\ h \in [Reads -> HandleState] /\ h[r] = "dropped"
        /\ \A x \in Reads \ {r} : h[x] = handle[x]
    BY <1>0 DEF HandleState
  <2>2. /\ Waiters'
        /\ \A x \in Reads : handle'[x] = h[x] \/ (h[x] = "queued" /\ handle'[x] = "granted")
    <3>1. CASE handle[r] = "granted"
      <4>1. Release(h)
        BY <1>5, <3>1 DEF DropQuietly
      <4> HIDE DEF h
      <4>2. \A i \in DOMAIN sem_queue : h[sem_queue[i]] = "queued"
        BY <1>0, <2>1, <3>1 DEF Waiters
      <4> QED
        BY <1>0, <2>0, <2>1, <4>1, <4>2, ReleaseStage
    <3>2. CASE handle[r] # "granted"
      <4>1. handle' = h /\ sem_queue' = Without(sem_queue, r)
        BY <1>5, <3>2 DEF DropQuietly
      <4> HIDE DEF h
      <4>2. Waiters'
        BY <1>0, <2>0, <2>1, <4>1, WithoutWaiters
      <4> QED
        BY <4>1, <4>2
    <3> QED
      BY <3>1, <3>2
  <2> HIDE DEF h
  <2>3. \A x \in Reads : handle'[x] \in Unsent => handle[x] \in Unsent
    BY <2>1, <2>2 DEF Unsent
  <2> QED
    BY <2>0, <2>2, <2>3, CallerStage
<1>6. CASE CloseAdmission
  <2>1. UNCHANGED <<pc, table, ring, memory, chan, handle, result>> /\ sem_queue' = <<>>
    BY <1>6 DEF CloseAdmission, CloseSemaphore
  <2>2. Waiters'
    BY <2>1 DEF Waiters
  <2> QED
    BY <2>1, <2>2, CallerStage
<1>7. CASE RequestShutdown \/ JoinSend \/ Joined
  <2>1. /\ UNCHANGED <<pc, table, ring, memory, handle, result, sem_queue, sem_closed>>
        /\ chan' = chan \/ chan' = Append(chan, ShutdownMsg)
    BY <1>7 DEF RequestShutdown, JoinSend, Joined, Sent
  <2>2. ShutdownMsg \in Message /\ ShutdownMsg.type = "shutdown"
    BY DEF ShutdownMsg, Message
  <2>3. Waiters'
    BY <1>0, <2>1 DEF Waiters
  <2> QED
    BY <2>1, <2>2, <2>3, CallerStage
<1> QED
  BY <1>1, <1>2, <1>3, <1>4, <1>5, <1>6, <1>7 DEF Caller, Poll, Stopper

\* Queued cancels disturb no read's stage.
LEMMA CancelStage ==
  ASSUME TypeOK, OneStage, UNCHANGED <<pending, leaked, cqes, kernel>>,
         sqes' \in Seq(Sqe), Len(sqes') >= Len(sqes),
         \A i \in 1..Len(sqes) : sqes'[i] = sqes[i],
         \A i \in 1..Len(sqes') : i > Len(sqes) => sqes'[i].op = "cancel"
  PROVE  SqeStage' /\ CqeStage' /\ KernelStage'
<1>1. DOMAIN sqes = 1..Len(sqes) /\ Len(sqes) \in Nat /\ DOMAIN sqes' = 1..Len(sqes')
  BY DEF TypeOK
<1>2. \A i \in DOMAIN sqes' : sqes'[i].op = "read" => i \in DOMAIN sqes /\ sqes'[i] = sqes[i]
  <2>1. \A i \in 1..Len(sqes') : i \in 1..Len(sqes) \/ i > Len(sqes)
    BY <1>1
  <2> QED
    BY <1>1, <2>1
<1>3. SqeStage'
  BY <1>2 DEF OneStage, SqeStage, Owned
<1>4. \A r \in Reads : ReadSqe(r).op = "read"
  BY DEF ReadSqe
<1>5. CqeStage'
  <2> SUFFICES ASSUME NEW i \in DOMAIN cqes, cqes[i].op = "read"
               PROVE  \A j \in DOMAIN sqes' : sqes'[j] # ReadSqe(cqes[i].id)
    BY DEF OneStage, CqeStage, Owned, ReadSqe
  <2>1. cqes[i].id \in Reads
    BY EntryId
  <2> QED
    BY <1>2, <1>4, <2>1 DEF OneStage, CqeStage
<1>6. KernelStage'
  BY DEF OneStage, KernelStage, Owned
<1> QED
  BY <1>3, <1>5, <1>6

-------------------------------------------------------------------------------
(* The intake, the steps around a submission, and the kernel.              *)

\* The driver's intake keeps every read in one stage.
LEMMA StageIntake ==
  ASSUME Countable, TypeOK, OneStage, RejectRead \/ IntakeRead \/ IntakeCancel \/ IntakeShutdown \/ Panic
  PROVE  OneStage'
<1> USE DEF callers, sem, loop, table, ring, memory
<1>0. /\ handle \in [Reads -> HandleState] /\ sem_queue \in Seq(Reads) /\ kernel \in [Reads -> {"out", "run", "cancelled"}]
      /\ result \in [Reads -> {"none", "ok", "err", "gone"}] /\ Waiters
  BY DEF TypeOK, OneStage
<1>1. CASE RejectRead
  <2> DEFINE r == Head(chan).id
  <2>1. /\ chan # <<>> /\ chan' = Tail(chan) /\ Head(chan).type = "read" /\ r \in Reads /\ Release(handle)
        /\ UNCHANGED <<pc, table, ring, memory, sem_closed>>
        /\ \A x \in Reads \ {r} : result'[x] = result[x]
    BY <1>0, <1>1, TakeMessageType DEF RejectRead, TakeMessage, Answer
  <2>2. /\ Waiters'
        /\ \A x \in Reads : handle'[x] = handle[x] \/ (handle[x] = "queued" /\ handle'[x] = "granted")
    BY <1>0, <2>1, ReleaseStage DEF Waiters
  <2>3. handle[r] \notin Unsent /\ r \notin Owned \cup freed
    <3>1. Head(chan) = chan[1] /\ 1 \in DOMAIN chan
      BY <2>1, FirstMessage
    <3> QED
      BY <2>1, <3>1 DEF OneStage, MessageStage
  <2> HIDE DEF r
  <2>4. SqeStage' /\ CqeStage' /\ KernelStage'
    BY <2>1, RingFrame
  <2>5. \A x \in Reads : handle'[x] \in Unsent <=> handle[x] \in Unsent
    BY <2>2 DEF Unsent
  <2>6. UnsentStage'
    BY <2>1, <2>3, <2>5 DEF OneStage, UnsentStage, Owned
  <2>7. TableStage'
    BY <2>1, <2>3 DEF OneStage, TableStage, Owned, TypeOK
  <2>8. MessageStage'
    BY <2>1, <2>5, TailMessages DEF MessageStage, Owned, r
  <2> QED
    BY <2>2, <2>4, <2>6, <2>7, <2>8 DEF OneStage
<1>2. CASE IntakeRead
  <2> DEFINE r == Head(chan).id
  <2>1. /\ chan # <<>> /\ chan' = Tail(chan) /\ Head(chan).type = "read" /\ pc = "intake"
        /\ UNCHANGED <<callers, sem, pc, memory, cqes, kernel>>
        /\ pending' = pending \cup {r} /\ sqes' = Append(sqes, ReadSqe(r))
    BY <1>2 DEF IntakeRead, TakeMessage
  <2>2. /\ Head(chan) = chan[1] /\ 1 \in DOMAIN chan /\ r \in Reads
    BY <2>1, FirstMessage, MessageKinds
  <2>3. handle[r] \notin Unsent /\ r \notin Owned \cup freed /\ result[r] = "none"
    BY <2>1, <2>2 DEF OneStage, MessageStage
  <2>4. MessageStage'
    BY <2>1, TailMessages DEF MessageStage, Owned
  <2> HIDE DEF r
  <2>5. SqeStage /\ CqeStage /\ KernelStage
    BY DEF OneStage
  <2>6. kernel[r] = "out" /\ \A i \in DOMAIN sqes : sqes[i] # ReadSqe(r)
    BY <2>2, <2>3, <2>5, Entry DEF KernelStage, SqeStage
  <2>7. Owned \subseteq Owned' /\ r \in Owned'
    BY <2>1 DEF Owned
  <2>8. /\ SqeStage'
        /\ \A x \in Reads \ {r} : (\A j \in DOMAIN sqes : sqes[j] # ReadSqe(x))
                                  => \A j \in DOMAIN sqes' : sqes'[j] # ReadSqe(x)
    BY <2>1, <2>2, <2>5, <2>6, <2>7, ReadQueued
  <2>9. CqeStage'
    <3> SUFFICES ASSUME NEW i \in DOMAIN cqes, cqes[i].op = "read"
                 PROVE  /\ cqes[i].id \in Owned'
                        /\ \A j \in DOMAIN sqes' : sqes'[j] # ReadSqe(cqes[i].id)
      BY <2>1, <2>5 DEF CqeStage, ReadSqe
    <3>1. cqes[i].id \in Owned /\ \A j \in DOMAIN sqes : sqes[j] # ReadSqe(cqes[i].id)
      BY <2>5 DEF CqeStage
    <3>2. cqes[i].id \in Reads \ {r}
      BY <2>3, <3>1, EntryId
    <3> QED
      BY <2>7, <2>8, <3>1, <3>2
  <2>10. KernelStage'
    BY <2>1 DEF OneStage, KernelStage, Owned
  <2>11. UnsentStage'
    BY <2>1, <2>3 DEF OneStage, UnsentStage, Owned
  <2>12. TableStage'
    BY <2>1, <2>3 DEF OneStage, TableStage, Owned
  <2>13. Waiters'
    BY <2>1 DEF OneStage, Waiters
  <2> QED
    BY <2>4, <2>8, <2>9, <2>10, <2>11, <2>12, <2>13 DEF OneStage
<1>3. CASE IntakeCancel \/ IntakeShutdown
  <2>1. /\ chan # <<>> /\ chan' = Tail(chan)
        /\ UNCHANGED <<callers, sem, pc, pending, memory, cqes, kernel>>
    BY <1>3 DEF IntakeCancel, IntakeShutdown, TakeMessage
  <2>2. /\ sqes' \in Seq(Sqe) /\ Len(sqes') >= Len(sqes)
        /\ \A i \in 1..Len(sqes) : sqes'[i] = sqes[i]
        /\ \A i \in 1..Len(sqes') : i > Len(sqes) => sqes'[i].op = "cancel"
    <3>1. CASE sqes' = sqes
      BY <3>1, NoneQueued
    <3>2. CASE sqes' # sqes
      <4>1. \E S \in SUBSET Reads : queue_cancels(S)
        BY <1>3, <3>2 DEF IntakeCancel, IntakeShutdown, BeginShutdown, TypeOK
      <4>2. queued_cancels \subseteq Reads
        BY DEF TypeOK
      <4> QED
        BY <4>1, <4>2, QueueCancels, QueueTypes
    <3> QED
      BY <3>1, <3>2
  <2>3. SqeStage' /\ CqeStage' /\ KernelStage'
    BY <2>1, <2>2, CancelStage
  <2>4. MessageStage'
    BY <2>1, TailMessages DEF MessageStage, Owned
  <2>5. UnsentStage' /\ TableStage' /\ Waiters'
    BY <2>1 DEF OneStage, UnsentStage, TableStage, Waiters, Owned
  <2> QED
    BY <2>3, <2>4, <2>5 DEF OneStage
<1>4. CASE Panic
  <2>1. UNCHANGED <<callers, sem, chan, table, ring, memory>> /\ pc = "intake" /\ pc' = "aborted"
    BY <1>4 DEF Panic
  <2>2. SqeStage' /\ CqeStage' /\ KernelStage'
    BY <2>1, RingFrame
  <2>3. MessageStage' /\ UnsentStage' /\ TableStage' /\ Waiters'
    BY <2>1 DEF OneStage, MessageStage, UnsentStage, TableStage, Waiters, Owned
  <2> QED
    BY <2>2, <2>3 DEF OneStage
<1> QED
  BY <1>1, <1>2, <1>3, <1>4

\* The driver's submissions, the end of a turn and the deadline move no read.
LEMMA StageTurn ==
  ASSUME Countable, TypeOK, OneStage,
         EndIntake \/ EndReap \/ EnterReturns \/ EnterRetries \/ EnterFails \/ EndTurn \/ DeadlinePasses
  PROVE  OneStage'
<1> USE DEF callers, sem, loop, table, ring, memory
<1>1. /\ UNCHANGED <<callers, sem, chan, pending, memory, cqes, kernel>>
      /\ pc' = pc \/ (pc \notin {"returning", "exited"} /\ pc' \notin {"returning", "exited"})
  BY DEF EndIntake, EndReap, EnterReturns, EnterRetries, EnterFails, EndTurn, DeadlinePasses,
         submit_ring, AfterEnter
<1>2. /\ sqes' \in Seq(Sqe) /\ Len(sqes') >= Len(sqes)
      /\ \A i \in 1..Len(sqes) : sqes'[i] = sqes[i]
      /\ \A i \in 1..Len(sqes') : i > Len(sqes) => sqes'[i].op = "cancel"
  <2>1. CASE sqes' = sqes
    BY <2>1, NoneQueued
  <2>2. CASE sqes' # sqes
    <3>1. queue_cancels(pending)
      BY <2>2 DEF EndIntake, EndReap, EnterReturns, EnterRetries, EnterFails, EndTurn,
                  DeadlinePasses, submit_ring, BeginShutdown
    <3>2. pending \subseteq Reads /\ queued_cancels \subseteq Reads
      BY DEF TypeOK
    <3> QED
      BY <3>1, <3>2, QueueCancels, QueueTypes
  <2> QED
    BY <2>1, <2>2
<1>3. SqeStage' /\ CqeStage' /\ KernelStage'
  BY <1>1, <1>2, CancelStage
<1>4. MessageStage' /\ UnsentStage' /\ Waiters'
  BY <1>1 DEF OneStage, MessageStage, UnsentStage, Waiters, Owned
<1>5. TableStage'
  BY <1>1 DEF OneStage, TableStage, Owned
<1> QED
  BY <1>3, <1>4, <1>5 DEF OneStage

\* The kernel keeps every read in one stage: it takes a read out of the SQ before
\* it runs it, and posts one CQE when it is done with it.
LEMMA StageKernel ==
  ASSUME TypeOK, OneStage, Kernel
  PROVE  OneStage'
<1> USE DEF callers, sem, loop, table, ring, memory
<1>0. kernel \in [Reads -> {"out", "run", "cancelled"}] /\ cqes \in Seq(Cqe)
  BY DEF TypeOK
<1>1. UNCHANGED <<callers, sem, chan, pc, table, memory>>
  <2>1. ASSUME TakesSqe PROVE UNCHANGED <<callers, sem, chan, pc, table, memory>>
    BY <2>1 DEF TakesSqe, KernelTakesRead, KernelTakesCancel, TakeSqe
  <2>2. ASSUME NEW r \in Reads, NEW res \in Results \cup {-ECANCELED}, KernelCompletes(r, res)
        PROVE  UNCHANGED <<callers, sem, chan, pc, table, memory>>
    BY <2>2 DEF KernelCompletes
  <2> QED
    BY <2>1, <2>2 DEF Kernel
<1>2. MessageStage' /\ UnsentStage' /\ TableStage' /\ Waiters' /\ Owned' = Owned
  BY <1>1 DEF OneStage, MessageStage, UnsentStage, TableStage, Waiters, Owned
<1>3. CASE TakesSqe
  <2> DEFINE r == Head(sqes).id
  <2>1. TakeSqe
    BY <1>3 DEF TakesSqe, KernelTakesRead, KernelTakesCancel
  <2>2. r \in Reads
    BY <2>1, TailSqes DEF Sqe
  <2>3. \A i \in DOMAIN sqes' : sqes'[i].op = "read" =>
          sqes'[i].id \in Owned /\ kernel[sqes'[i].id] = "out" /\ sqes'[i].id \in Reads
    <3>1. \A i \in DOMAIN sqes' : \E k \in DOMAIN sqes : sqes'[i] = sqes[k]
      BY <2>1, TailSqes
    <3>2. SqeStage
      BY DEF OneStage
    <3> QED
      BY <3>1, <3>2, EntryId DEF SqeStage
  <2>4. \A i, j \in DOMAIN sqes' : sqes'[i].op = "read" /\ sqes'[j] = sqes'[i] => j = i
    BY <2>1, TailSqes
  <2>5. \A i \in DOMAIN cqes : cqes[i].op = "read" =>
          \A j \in DOMAIN sqes' : sqes'[j] # ReadSqe(cqes[i].id)
    <3>1. \A i \in DOMAIN sqes' : \E k \in DOMAIN sqes : sqes'[i] = sqes[k]
      BY <2>1, TailSqes
    <3>2. CqeStage
      BY DEF OneStage
    <3> QED
      BY <3>1, <3>2 DEF CqeStage
  <2>6. CASE KernelTakesRead
    <3>1. /\ Head(sqes).op = "read" /\ kernel' = [kernel EXCEPT ![r] = "run"] /\ cqes' = cqes
      BY <2>6 DEF KernelTakesRead
    <3>2. Head(sqes) = ReadSqe(r) /\ r \in Owned /\ \A i \in DOMAIN cqes : cqes[i].op = "read" => cqes[i].id # r
      <4>1. Head(sqes) = sqes[1] /\ 1 \in DOMAIN sqes /\ Head(sqes) \in Sqe
        BY <2>1, TailSqes
      <4>2. Head(sqes) = ReadSqe(r)
        BY <3>1, <4>1 DEF Sqe, ReadSqe
      <4> QED
        BY <3>1, <4>1, <4>2 DEF OneStage, SqeStage, CqeStage
    <3>3. \A i \in DOMAIN sqes' : sqes'[i].op = "read" => sqes'[i].id # r
      BY <2>1, <3>1, TailSqes
    <3> HIDE DEF r
    <3>4. SqeStage'
      BY <1>0, <1>2, <2>3, <2>4, <3>1, <3>3 DEF SqeStage
    <3>5. CqeStage'
      <4>1. \A i \in DOMAIN cqes : cqes[i].op = "read" => cqes[i].id \in Reads
        BY EntryId
      <4> QED
        BY <1>0, <1>2, <2>5, <3>1, <3>2, <4>1 DEF OneStage, CqeStage, ReadSqe
    <3>6. KernelStage'
      BY <1>0, <1>2, <3>1, <3>2 DEF OneStage, KernelStage
    <3> QED
      BY <1>2, <3>4, <3>5, <3>6 DEF OneStage
  <2>7. CASE KernelTakesCancel
    <3>1. /\ \A x \in Reads : kernel'[x] = "out" <=> kernel[x] = "out"
          /\ cqes' = Append(cqes, CancelCqe(r))
      BY <1>0, <2>7 DEF KernelTakesCancel, Post
    <3> HIDE DEF r
    <3>2. CancelCqe(r) \in Cqe /\ CancelCqe(r).op = "cancel"
      BY <2>2, Entry
    <3>3. \A i \in DOMAIN cqes' : \/ i \in DOMAIN cqes /\ cqes'[i] = cqes[i]
                                  \/ cqes'[i] = CancelCqe(r)
      BY <3>1, <3>2, CqePosted
    <3>4. \A i \in DOMAIN cqes' : cqes'[i].op = "read" =>
            i \in DOMAIN cqes /\ cqes'[i] = cqes[i] /\ cqes[i].id \in Reads
      BY <3>2, <3>3, EntryId
    <3>5. SqeStage'
      BY <1>2, <2>3, <2>4, <3>1 DEF SqeStage
    <3>6. CqeStage'
      BY <1>2, <2>5, <3>1, <3>4 DEF OneStage, CqeStage, ReadSqe
    <3>7. KernelStage'
      BY <1>2, <3>1 DEF OneStage, KernelStage
    <3> QED
      BY <1>2, <3>5, <3>6, <3>7 DEF OneStage
  <2> QED
    BY <1>3, <2>6, <2>7 DEF TakesSqe
<1>4. ASSUME NEW r \in Reads, NEW res \in Results \cup {-ECANCELED}, KernelCompletes(r, res)
      PROVE  OneStage'
  <2>1. /\ kernel[r] # "out" /\ kernel' = [kernel EXCEPT ![r] = "out"]
        /\ cqes' = Append(cqes, ReadCqe(r, res)) /\ sqes' = sqes
    BY <1>4 DEF KernelCompletes, Post
  <2>2. r \in Owned
    BY <2>1 DEF OneStage, KernelStage
  <2>3. ReadCqe(r, res) \in Cqe /\ ReadCqe(r, res).op = "read" /\ ReadCqe(r, res).id = r
    BY Entry
  <2>4. /\ \A i \in DOMAIN cqes : i \in DOMAIN cqes' /\ cqes'[i] = cqes[i]
        /\ \A i \in DOMAIN cqes' : i \in DOMAIN cqes \/ (i = Len(cqes) + 1 /\ cqes'[i] = ReadCqe(r, res))
    BY <2>1, <2>3, CqePosted
  <2>5. /\ SqeStage /\ CqeStage
        /\ \A x \in Reads \ {r} : kernel'[x] = kernel[x]
        /\ kernel'[r] = "out"
    BY <1>0, <2>1 DEF OneStage
  <2>6. /\ \A i \in DOMAIN cqes : cqes[i].op = "read" => cqes[i].id \in Reads \ {r}
        /\ \A i \in DOMAIN sqes : sqes[i].op = "read" => sqes[i].id \in Reads \ {r}
    BY <2>1, <2>5, EntryId DEF CqeStage, SqeStage
  <2>7. SqeStage'
    BY <1>2, <2>1, <2>5, <2>6 DEF SqeStage
  <2>9. CqeStage'
    <3>1. ASSUME NEW j \in DOMAIN sqes, sqes[j] = ReadSqe(r) PROVE FALSE
      <4>1. sqes[j].op = "read" /\ sqes[j].id = r
        BY <3>1, IsReadSqe
      <4> QED
        BY <2>6, <4>1
    <3>2. ASSUME NEW i \in DOMAIN cqes', cqes'[i].op = "read"
          PROVE  /\ cqes'[i].id \in Owned /\ kernel'[cqes'[i].id] = "out"
                 /\ \A j \in DOMAIN sqes : sqes[j] # ReadSqe(cqes'[i].id)
      <4>1. CASE i \in DOMAIN cqes
        <5>1. cqes'[i] = cqes[i] /\ cqes[i].op = "read" /\ cqes[i].id \in Reads \ {r}
          BY <2>4, <2>6, <3>2, <4>1
        <5>2. /\ cqes[i].id \in Owned /\ kernel[cqes[i].id] = "out"
              /\ \A j \in DOMAIN sqes : sqes[j] # ReadSqe(cqes[i].id)
          BY <2>5, <4>1, <5>1 DEF CqeStage
        <5> QED
          BY <2>5, <5>1, <5>2
      <4>2. CASE cqes'[i] = ReadCqe(r, res)
        BY <2>2, <2>3, <2>5, <3>1, <4>2
      <4> QED
        BY <2>4, <4>1, <4>2
    <3>3. ASSUME NEW i \in DOMAIN cqes', cqes'[i].op = "read",
                 NEW j \in DOMAIN cqes', cqes'[j].op = "read", cqes'[j].id = cqes'[i].id
          PROVE  j = i
      BY <2>3, <2>4, <2>5, <2>6, <3>3 DEF CqeStage
    <3> QED
      BY <1>2, <2>1, <3>2, <3>3 DEF CqeStage, ReadSqe
  <2>8. KernelStage'
    BY <1>0, <1>2, <2>1 DEF OneStage, KernelStage
  <2> QED
    BY <1>2, <2>7, <2>8, <2>9 DEF OneStage
<1> QED
  BY <1>3, <1>4 DEF Kernel

-------------------------------------------------------------------------------
(* The exits of the driver's thread.                                       *)

\* The ways out keep every read in one stage.
LEMMA StageExit ==
  ASSUME TypeOK, OneStage, DrainedExit \/ LeakExit \/ ThreadExit
  PROVE  OneStage'
<1> USE DEF callers, sem, loop, table, ring, memory
<1>1. CASE DrainedExit
  <2>1. /\ UNCHANGED <<callers, chan, table, ring, memory>> /\ sem_queue' = <<>>
        /\ pending = {} /\ pc' = "returning"
    BY <1>1 DEF DrainedExit, Drained, CloseSemaphore
  <2>2. SqeStage' /\ CqeStage' /\ KernelStage'
    BY <2>1, RingFrame
  <2>3. MessageStage' /\ UnsentStage'
    BY <2>1 DEF OneStage, MessageStage, UnsentStage, Owned
  <2>4. TableStage' /\ Waiters'
    BY <2>1 DEF OneStage, TableStage, Waiters, Owned
  <2> QED
    BY <2>2, <2>3, <2>4 DEF OneStage
<1>2. CASE LeakExit
  <2>1. /\ UNCHANGED <<handle, chan, ring, freed>> /\ sem_queue' = <<>> /\ pc' = "returning"
        /\ leaked' = leaked \cup pending /\ pending' = {}
        /\ \A x \in Reads \ pending : result'[x] = result[x]
    BY <1>2 DEF LeakExit, CloseSemaphore, FailStranded
  <2>2. Owned' = Owned
    BY <2>1 DEF Owned
  <2>3. SqeStage' /\ CqeStage' /\ KernelStage'
    BY <2>1, <2>2 DEF OneStage, SqeStage, CqeStage, KernelStage, ReadSqe
  <2>4. \A i \in DOMAIN chan : chan[i].type = "read" => chan[i].id \in Reads \ pending
    <3>1. \A i \in DOMAIN chan : chan[i] \in Message
      BY QueueTypes
    <3>2. MessageStage
      BY DEF OneStage
    <3> QED
      BY <3>1, <3>2, MessageKinds DEF MessageStage, Owned
  <2>5. MessageStage'
    BY <2>1, <2>2, <2>4 DEF OneStage, MessageStage
  <2>6. UnsentStage'
    BY <2>1, <2>2 DEF OneStage, UnsentStage, Owned
  <2>7. TableStage'
    BY <2>1, <2>2 DEF OneStage, TableStage
  <2>8. Waiters'
    BY <2>1 DEF OneStage, Waiters
  <2> QED
    BY <2>3, <2>5, <2>6, <2>7, <2>8 DEF OneStage
<1>3. CASE ThreadExit
  <2>0. pending = {}
    BY <1>3 DEF ThreadExit, OneStage, TableStage
  <2>1. /\ UNCHANGED <<handle, pending, leaked, freed, ring, sem_queue, sem_closed>>
        /\ chan' = <<>> /\ pc' = "exited"
        /\ \A x \in Reads \ QueuedReads : result'[x] = result[x]
    BY <1>3, <2>0 DEF ThreadExit
  <2>2. SqeStage' /\ CqeStage' /\ KernelStage'
    BY <2>1, RingFrame
  <2>3. \A x \in QueuedReads : handle[x] \notin Unsent
    <3>1. MessageStage
      BY DEF OneStage
    <3> QED
      BY <3>1, QueuedMessage DEF MessageStage
  <2>4. MessageStage' /\ UnsentStage'
    <3>1. UnsentStage
      BY DEF OneStage
    <3>0. DOMAIN chan' = {}
      BY <2>1, Nothing
    <3>2. MessageStage'
      BY <3>0 DEF MessageStage
    <3> QED
      BY <2>1, <2>3, <3>1, <3>2 DEF UnsentStage, Owned
  <2>5. TableStage' /\ Waiters'
    BY <2>0, <2>1 DEF OneStage, TableStage, Waiters, Owned
  <2> QED
    BY <2>2, <2>4, <2>5 DEF OneStage
<1> QED
  BY <1>1, <1>2, <1>3

-------------------------------------------------------------------------------
(* One stage at a time: what the reap keeps.                               *)

\* The driver's reap keeps every read in one stage: the completed read has no SQE,
\* no second CQE and is out of the kernel, so it may be freed or submitted again.
LEMMA StageReap ==
  ASSUME TypeOK, OneStage, ReapIgnored \/ ReapFinish \/ ReapResubmit
  PROVE  OneStage'
<1> USE DEF callers, sem, loop, table, ring, memory
<1> DEFINE c == Head(cqes)
           r == c.id
<1>0. /\ cqes # <<>> /\ cqes' = Tail(cqes) /\ r \in Reads /\ pc = "reap"
      /\ c = cqes[1] /\ 1 \in DOMAIN cqes
      /\ UNCHANGED <<pc, chan, rx_closed, sem_closed, kernel, leaked>>
  <2>1. NextCqe
    BY DEF ReapIgnored, ReapFinish, ReapResubmit
  <2>2. cqes # <<>> /\ c \in Cqe
    BY <2>1, NextCqeType
  <2>3. r \in Reads
    BY <2>2 DEF Cqe
  <2>4. c = cqes[1] /\ 1 \in DOMAIN cqes
    BY <2>2, FirstCqe
  <2>5. cqes' = Tail(cqes) /\ pc = "reap"
    BY <2>1 DEF NextCqe
  <2>6. UNCHANGED <<pc, chan, rx_closed, sem_closed, kernel, leaked>>
    BY DEF ReapIgnored, ReapFinish, ReapResubmit
  <2> QED
    BY <2>2, <2>3, <2>4, <2>5, <2>6
<1>1. ASSUME c.op = "read"
      PROVE  /\ r \in Owned /\ kernel[r] = "out"
             /\ \A j \in DOMAIN sqes : sqes[j] # ReadSqe(r)
             /\ \A j \in DOMAIN cqes' : cqes'[j].op = "read" => cqes'[j].id # r
  BY <1>0, <1>1, TailCqes DEF OneStage, CqeStage
<1>2. \A i \in DOMAIN cqes' : cqes'[i].op = "read" =>
        /\ cqes'[i].id \in Owned /\ kernel[cqes'[i].id] = "out"
        /\ \A j \in DOMAIN sqes : sqes[j] # ReadSqe(cqes'[i].id)
        /\ \A j \in DOMAIN cqes' : cqes'[j].op = "read" /\ cqes'[j].id = cqes'[i].id => j = i
  <2>1. \A i \in DOMAIN cqes' : i + 1 \in DOMAIN cqes /\ cqes'[i] = cqes[i + 1]
    BY <1>0, TailCqes
  <2>2. \A i, j \in DOMAIN cqes' :
          cqes'[i].op = "read" /\ cqes'[j].op = "read" /\ cqes'[j].id = cqes'[i].id => j = i
    BY <1>0, TailCqes
  <2>3. CqeStage
    BY DEF OneStage
  <2>4. ASSUME NEW i \in DOMAIN cqes', cqes'[i].op = "read"
        PROVE  /\ cqes'[i].id \in Owned /\ kernel[cqes'[i].id] = "out"
               /\ \A j \in DOMAIN sqes : sqes[j] # ReadSqe(cqes'[i].id)
    <3>1. PICK k \in DOMAIN cqes : cqes'[i] = cqes[k]
      BY <2>1
    <3> QED
      BY <2>3, <2>4, <3>1 DEF CqeStage
  <2> QED
    BY <2>2, <2>4
<1> HIDE DEF r
<1>3. CASE ReapIgnored
  <2>1. UNCHANGED <<callers, sem, table, sqes, memory>>
    BY <1>3 DEF ReapIgnored
  <2>2. CqeStage'
    BY <1>0, <1>2, <2>1 DEF CqeStage, Owned, ReadSqe
  <2>0. Owned' = Owned /\ MessageStage /\ SqeStage /\ KernelStage
    BY <2>1 DEF OneStage, Owned
  <2>3. MessageStage'
    BY <1>0, <2>0, <2>1 DEF MessageStage
  <2>4. SqeStage' /\ KernelStage'
    BY <1>0, <2>0, <2>1 DEF SqeStage, KernelStage
  <2>5. UnsentStage' /\ TableStage' /\ Waiters'
    BY <1>0, <2>0, <2>1 DEF OneStage, UnsentStage, TableStage, Waiters
  <2> QED
    BY <2>2, <2>3, <2>4, <2>5 DEF OneStage
<1>4. CASE ReapFinish
  <2>1. /\ c.op = "read" /\ r \in pending /\ pending' = pending \ {r} /\ freed' = freed \cup {r}
        /\ \A x \in Reads \ {r} : result'[x] = result[x]
        /\ Release(handle) /\ UNCHANGED sqes
    BY <1>4 DEF ReapFinish, IsReadCompletion, Answer, TypeOK, r
  <2>2. r \notin leaked /\ r \notin freed /\ Owned' = Owned \ {r}
    BY <1>0, <2>1 DEF OneStage, TableStage, Owned
  <2>3. /\ Waiters'
        /\ \A x \in Reads : handle'[x] = handle[x] \/ (handle[x] = "queued" /\ handle'[x] = "granted")
    <3>1. handle \in [Reads -> HandleState] /\ Waiters
      BY DEF TypeOK, OneStage
    <3>2. \A i \in DOMAIN sem_queue : handle[sem_queue[i]] = "queued"
      BY <3>1 DEF Waiters
    <3> QED
      BY <1>0, <2>1, <3>1, <3>2, ReleaseStage
  <2>4. \A x \in Reads : handle'[x] \in Unsent <=> handle[x] \in Unsent
    BY <2>3 DEF Unsent
  <2>5. handle[r] \notin Unsent
    BY <1>0, <2>1 DEF OneStage, UnsentStage, Owned
  <2>6. UnsentStage'
    BY <2>1, <2>2, <2>4, <2>5 DEF OneStage, UnsentStage
  <2>7. MessageStage'
    <3>1. \A i \in DOMAIN chan : chan[i].type = "read" => chan[i].id \in Reads /\ chan[i].id # r
      <4>1. \A i \in DOMAIN chan : chan[i] \in Message
        BY QueueTypes
      <4>2. \A i \in DOMAIN chan : chan[i].type = "read" => chan[i].id \notin Owned
        BY DEF OneStage, MessageStage
      <4>3. r \in Owned
        BY <2>1 DEF Owned
      <4> QED
        BY <4>1, <4>2, <4>3, MessageKinds
    <3> QED
      BY <1>0, <2>1, <2>2, <2>4, <3>1 DEF OneStage, MessageStage
  <2>8. SqeStage'
    <3>0. \A i \in DOMAIN sqes : sqes[i] \in Sqe
      BY DEF TypeOK
    <3>1. \A i \in DOMAIN sqes : sqes[i].op = "read" => sqes[i] = ReadSqe(sqes[i].id)
      BY <3>0 DEF Sqe, ReadSqe
    <3>2. \A i \in DOMAIN sqes : sqes[i].op = "read" => sqes[i].id # r
      BY <1>1, <2>1, <3>1
    <3> QED
      BY <1>0, <2>1, <2>2, <3>2 DEF OneStage, SqeStage
  <2>9. CqeStage'
    <3>1. \A i \in DOMAIN cqes' : cqes'[i].op = "read" => cqes'[i].id # r
      BY <1>1, <2>1
    <3> QED
      BY <1>0, <1>2, <2>1, <2>2, <3>1 DEF CqeStage, ReadSqe
  <2>10. KernelStage'
    BY <1>0, <1>1, <2>1, <2>2 DEF OneStage, KernelStage
  <2>11. TableStage'
    BY <1>0, <2>1, <2>2 DEF OneStage, TableStage, Owned, TypeOK
  <2> QED
    BY <2>3, <2>6, <2>7, <2>8, <2>9, <2>10, <2>11 DEF OneStage
<1>5. CASE ReapResubmit
  <2>1. /\ c.op = "read" /\ r \in pending /\ sqes' = Append(sqes, ReadSqe(r))
        /\ UNCHANGED <<callers, sem, pending, memory>>
    BY <1>5 DEF ReapResubmit, IsReadCompletion, r
  <2>2. Owned' = Owned /\ SqeStage
    BY <1>0, <2>1 DEF OneStage, Owned
  <2>3. /\ r \in Owned /\ kernel[r] = "out" /\ \A j \in DOMAIN sqes : sqes[j] # ReadSqe(r)
        /\ \A j \in DOMAIN cqes' : cqes'[j].op = "read" => cqes'[j].id # r
    BY <1>1, <2>1
  <2>4. /\ SqeStage'
        /\ \A x \in Reads \ {r} : (\A j \in DOMAIN sqes : sqes[j] # ReadSqe(x))
                                  => \A j \in DOMAIN sqes' : sqes'[j] # ReadSqe(x)
    BY <1>0, <2>1, <2>2, <2>3, ReadQueued
  <2>5. CqeStage'
    <3> SUFFICES ASSUME NEW i \in DOMAIN cqes', cqes'[i].op = "read"
                 PROVE  /\ cqes'[i].id \in Owned /\ kernel[cqes'[i].id] = "out"
                        /\ \A j \in DOMAIN sqes' : sqes'[j] # ReadSqe(cqes'[i].id)
                        /\ \A j \in DOMAIN cqes' :
                             cqes'[j].op = "read" /\ cqes'[j].id = cqes'[i].id => j = i
      BY <1>0, <2>2 DEF CqeStage, ReadSqe
    <3>1. cqes'[i].id \in Reads \ {r}
      <4>1. cqes'[i] \in Cqe
        BY <1>0, TailCqes
      <4> QED
        BY <2>3, <4>1 DEF Cqe
    <3> QED
      BY <1>2, <2>4, <3>1
  <2>6. MessageStage' /\ KernelStage'
    BY <1>0, <2>1 DEF OneStage, MessageStage, KernelStage, Owned
  <2>7. UnsentStage' /\ TableStage' /\ Waiters'
    BY <1>0, <2>1 DEF OneStage, UnsentStage, TableStage, Waiters, Owned
  <2> QED
    BY <2>4, <2>5, <2>6, <2>7 DEF OneStage
<1> QED
  BY <1>3, <1>4, <1>5

-------------------------------------------------------------------------------
(* The refinement of ReadOwnership.  It needs only the invariant: that a   *)
(* read is in one stage at a time says which abstract step each step of    *)
(* the shard is.  Most are none.                                           *)

\* The refinement mapping, under names of its own.
owner == [r \in Reads |-> IF r \in pending THEN "driver" ELSE IF r \in freed THEN "reclaimed"
                          ELSE IF r \in leaked THEN "leaked" ELSE "nobody"]
io == [r \in Reads |-> kernel[r] # "out"]

\* A step that moves no buffer, starts or ends no kernel read and answers nobody.
LEMMA Silent ==
  ASSUME UNCHANGED <<pending, freed, leaked, kernel, result>>
  PROVE  UNCHANGED Ownership!vars
BY DEF Ownership!vars

\* A step that only answers reads the table has not accepted refuses them.
LEMMA Refusal ==
  ASSUME TypeOK, OneStage, UNCHANGED <<pending, freed, leaked, kernel>>,
         NEW S \in SUBSET Reads, NEW a \in {"err", "gone"},
         \A r \in S : r \notin Owned \cup freed /\ result[r] = "none",
         result' = [r \in Reads |-> IF r \in S THEN a ELSE result[r]]
  PROVE  Ownership!Next
<1>1. Ownership!Refuse(S)
  BY DEF Ownership!Refuse, Ownership!Failures, Owned
<1> QED
  BY <1>1 DEF Ownership!Next

\* The steps of callers refuse a read or are silent.
LEMMA OwnershipCallers ==
  ASSUME TypeOK, OneStage, (\E r \in Reads : Caller(r)) \/ Stopper
  PROVE  [Ownership!Next]_(Ownership!vars)
<1> USE DEF callers, sem, loop, table, ring, memory
<1>1. UNCHANGED <<pending, freed, leaked, kernel>>
  BY CallersFrame
<1>2. CASE result' = result
  BY <1>1, <1>2, Silent
<1>3. CASE result' # result
  <2>1. PICK r \in Reads : /\ handle[r] \in Unsent
                           /\ result' = [result EXCEPT ![r] = "err"]
    BY <1>3 DEF Caller, Poll, Submit, SendRead, PollAcquire, PollResult, DropQuietly, DropClose,
       DropSend, Stopper, CloseAdmission, RequestShutdown, JoinSend, Joined, Unsent
  <2>2. r \notin Owned \cup freed /\ result[r] = "none"
    BY <2>1 DEF OneStage, UnsentStage
  <2>3. result' = [x \in Reads |-> IF x \in {r} THEN "err" ELSE result[x]]
    BY <2>1 DEF TypeOK
  <2> QED
    BY <1>1, <2>2, <2>3, Refusal
<1> QED
  BY <1>2, <1>3

\* The driver's intake accepts a read, refuses one, or is silent.
LEMMA OwnershipIntake ==
  ASSUME TypeOK, OneStage, RejectRead \/ IntakeRead \/ IntakeCancel \/ IntakeShutdown \/ Panic
  PROVE  [Ownership!Next]_(Ownership!vars)
<1> USE DEF callers, sem, loop, table, ring, memory
<1> DEFINE r == Head(chan).id
<1>1. ASSUME chan # <<>>, Head(chan).type = "read"
      PROVE  r \in Reads /\ r \notin Owned \cup freed /\ result[r] = "none"
  <2>1. Head(chan) = chan[1] /\ 1 \in DOMAIN chan /\ r \in Reads
    BY <1>1 DEF TypeOK, Message, ShutdownMsg
  <2> QED
    BY <1>1, <2>1 DEF OneStage, MessageStage
<1>2. CASE RejectRead
  <2>1. /\ chan # <<>> /\ Head(chan).type = "read"
        /\ UNCHANGED <<pending, freed, leaked, kernel>>
        /\ result' = result \/ result' = [result EXCEPT ![r] = "err"]
    BY <1>2 DEF RejectRead, TakeMessage, Answer, Err, TypeOK
  <2> HIDE DEF r
  <2>2. CASE result' = result
    BY <2>1, <2>2, Silent
  <2>3. CASE result' = [result EXCEPT ![r] = "err"]
    <3>1. result' = [x \in Reads |-> IF x \in {r} THEN "err" ELSE result[x]]
      BY <2>3 DEF TypeOK
    <3> QED
      BY <1>1, <2>1, <3>1, Refusal
  <2> QED
    BY <2>1, <2>2, <2>3
<1>3. CASE IntakeRead
  <2>1. /\ chan # <<>> /\ Head(chan).type = "read"
        /\ UNCHANGED <<freed, leaked, kernel, result>> /\ pending' = pending \cup {r}
    BY <1>3 DEF IntakeRead
  <2>2. r \in Reads /\ r \notin Owned \cup freed /\ result[r] = "none"
    BY <1>1, <2>1
  <2> HIDE DEF r
  <2>3. PICK x \in Reads : x = r
    BY <2>2
  <2>4. owner[x] = "nobody" /\ owner' = [owner EXCEPT ![x] = "driver"] /\ io' = io
    BY <2>1, <2>2, <2>3 DEF owner, io, Owned
  <2>5. Ownership!Accept(x)
    BY <2>1, <2>2, <2>3, <2>4 DEF Ownership!Accept, owner, io
  <2>9. Ownership!Next
    BY <2>5 DEF Ownership!Next
  <2> QED
    BY <2>9
<1>4. CASE IntakeCancel \/ IntakeShutdown \/ Panic
  BY <1>4, Silent DEF IntakeCancel, IntakeShutdown, Panic
<1> QED
  BY <1>2, <1>3, <1>4

\* A finished read is reclaimed: it is out of the kernel because it is in a CQE.
LEMMA OwnershipReap ==
  ASSUME TypeOK, OneStage, ReapIgnored \/ ReapFinish \/ ReapResubmit
  PROVE  [Ownership!Next]_(Ownership!vars)
<1> USE DEF callers, sem, loop, table, ring, memory
<1>1. CASE ReapIgnored \/ ReapResubmit
  BY <1>1, Silent DEF ReapIgnored, ReapResubmit
<1>2. CASE ReapFinish
  <2> DEFINE r == Head(cqes).id
  <2>1. /\ Head(cqes).op = "read" /\ r \in pending /\ pending' = pending \ {r}
        /\ freed' = freed \cup {r} /\ UNCHANGED <<leaked, kernel>>
        /\ \E a \in {"none", "ok", "err"} : result' = [result EXCEPT ![r] = a]
    <3>1. /\ Head(cqes).op = "read" /\ r \in pending /\ pending' = pending \ {r}
          /\ freed' = freed \cup {r} /\ UNCHANGED <<leaked, kernel>>
          /\ \E o : Answer(r, o)
      BY <1>2 DEF ReapFinish, IsReadCompletion
    <3>2. result \in [Reads -> {"none", "ok", "err", "gone"}]
      BY DEF TypeOK
    <3>3. result[r] = "none"
      BY <3>1 DEF OneStage, TableStage
    <3> QED
      BY <3>1, <3>2, <3>3 DEF Answer
  <2>2. cqes # <<>>
    BY <1>2, NextCqeType DEF ReapFinish
  <2>3. Head(cqes) = cqes[1] /\ 1 \in DOMAIN cqes
    <3>1. cqes \in Seq(Cqe)
      BY QueueTypes
    <3> QED
      BY <2>2, <3>1
  <2>4. kernel[r] = "out" /\ result[r] = "none" /\ r \in Reads
    <3>1. CqeStage /\ TableStage
      BY DEF OneStage
    <3>2. pending \subseteq Reads
      BY DEF TypeOK
    <3>3. kernel[r] = "out"
      BY <2>1, <2>3, <3>1 DEF CqeStage
    <3> QED
      BY <2>1, <3>1, <3>2, <3>3 DEF TableStage
  <2> HIDE DEF r
  <2>5. PICK x \in Reads : x = r
    BY <2>4
  <2>6. owner[x] = "driver" /\ owner' = [owner EXCEPT ![x] = "reclaimed"] /\ io' = io /\ ~io[x]
    BY <2>1, <2>4, <2>5 DEF owner, io
  <2>7. \E a \in {"none", "ok", "err"} : result' = [result EXCEPT ![x] = a]
    BY <2>1, <2>5
  <2>8. Ownership!Reclaim(x)
    BY <2>4, <2>5, <2>6, <2>7 DEF Ownership!Reclaim, Ownership!Failures, owner, io
  <2>9. Ownership!Next
    BY <2>8 DEF Ownership!Next
  <2> QED
    BY <2>9
<1> QED
  BY <1>1, <1>2

\* The bounded drain leaks; the return of the thread refuses what is still queued.
LEMMA OwnershipExit ==
  ASSUME TypeOK, OneStage, DrainedExit \/ LeakExit \/ ThreadExit
  PROVE  [Ownership!Next]_(Ownership!vars)
<1> USE DEF callers, sem, loop, table, ring, memory
<1>1. CASE DrainedExit
  BY <1>1, Silent DEF DrainedExit
<1>2. CASE LeakExit
  <2>1. /\ UNCHANGED <<freed, kernel>> /\ leaked' = leaked \cup pending /\ pending' = {}
        /\ result' = [r \in Reads |-> IF r \in pending \ rx_closed THEN "err" ELSE result[r]]
    BY <1>2 DEF LeakExit, FailStranded
  <2>2. pending \subseteq Reads /\ pending \cap freed = {} /\ \A r \in pending : result[r] = "none"
    BY DEF TypeOK, OneStage, TableStage, Owned
  <2>3. {r \in Reads : owner[r] = "driver"} = pending
    BY <2>2 DEF owner
  <2>4. /\ owner' = [r \in Reads |-> IF r \in pending THEN "leaked" ELSE owner[r]] /\ io' = io
    BY <2>1, <2>2 DEF owner, io
  <2>5. Ownership!Leak
    BY <2>1, <2>2, <2>3, <2>4 DEF Ownership!Leak, owner, io
  <2> QED
    BY <2>5 DEF Ownership!Next
<1>3. CASE ThreadExit
  <2> DEFINE S == QueuedReads \ rx_closed
  <2>1. pending = {}
    BY <1>3 DEF ThreadExit, OneStage, TableStage
  <2>2. /\ UNCHANGED <<pending, freed, leaked, kernel>>
        /\ result' = [r \in Reads |-> IF r \in S THEN "gone" ELSE result[r]]
    BY <1>3, <2>1 DEF ThreadExit
  <2>3. S \in SUBSET Reads /\ \A r \in S : r \notin Owned \cup freed /\ result[r] = "none"
    <3>1. MessageStage /\ chan \in Seq(Message)
      BY QueueTypes DEF OneStage
    <3>2. \A i \in DOMAIN chan : chan[i].type = "read" =>
            chan[i].id \in Reads /\ chan[i].id \notin Owned \cup freed /\ result[chan[i].id] = "none"
      BY <3>1, MessageKinds DEF MessageStage
    <3> QED
      BY <3>2 DEF QueuedReads, Range
  <2> HIDE DEF S
  <2> QED
    BY <2>2, <2>3, Refusal
<1> QED
  BY <1>1, <1>2, <1>3

\* Taking a read SQE starts a read, posting its CQE completes it.
LEMMA OwnershipKernel ==
  ASSUME TypeOK, OneStage, Kernel
  PROVE  [Ownership!Next]_(Ownership!vars)
<1> USE DEF callers, sem, loop, table, ring, memory
<1>0. /\ UNCHANGED <<pending, freed, leaked, result>>
      /\ kernel \in [Reads -> {"out", "run", "cancelled"}]
  BY DEF Kernel, TakesSqe, KernelTakesRead, KernelTakesCancel, TakeSqe, KernelCompletes, TypeOK
<1>1. owner' = owner
  BY <1>0 DEF owner
<1>2. CASE KernelTakesRead
  <2> DEFINE r == Head(sqes).id
  <2>1. TakeSqe /\ Head(sqes).op = "read" /\ kernel' = [kernel EXCEPT ![r] = "run"]
    BY <1>2 DEF KernelTakesRead
  <2>2. Head(sqes) = sqes[1] /\ 1 \in DOMAIN sqes /\ r \in Reads
    BY <2>1, TailSqes DEF Sqe
  <2>3. r \in Owned /\ kernel[r] = "out"
    BY <2>1, <2>2 DEF OneStage, SqeStage
  <2> HIDE DEF r
  <2>4. r \in pending
    BY <2>1, <2>3 DEF TakeSqe, InEnter, OneStage, TableStage, Owned
  <2>5. PICK x \in Reads : x = r
    BY <2>2
  <2>6. owner[x] = "driver" /\ ~io[x] /\ io' = [io EXCEPT ![x] = TRUE]
    BY <1>0, <2>1, <2>3, <2>4, <2>5 DEF owner, io
  <2>7. Ownership!Start(x)
    BY <1>0, <1>1, <2>6 DEF Ownership!Start, owner, io
  <2>9. Ownership!Next
    BY <2>7 DEF Ownership!Next
  <2> QED
    BY <2>9
<1>3. CASE KernelTakesCancel
  <2>1. io' = io
    BY <1>0, <1>3 DEF KernelTakesCancel, io
  <2> QED
    BY <1>0, <1>1, <2>1 DEF Ownership!vars, owner, io
<1>4. ASSUME NEW r \in Reads, NEW res \in Results \cup {-ECANCELED}, KernelCompletes(r, res)
      PROVE  Ownership!Next
  <2>1. kernel[r] # "out" /\ kernel' = [kernel EXCEPT ![r] = "out"]
    BY <1>4 DEF KernelCompletes
  <2>2. io[r] /\ io' = [io EXCEPT ![r] = FALSE]
    BY <1>0, <2>1 DEF io
  <2>3. Ownership!Complete(r)
    BY <1>0, <1>1, <2>2 DEF Ownership!Complete, owner, io
  <2> QED
    BY <2>3 DEF Ownership!Next
<1> QED
  BY <1>2, <1>3, <1>4 DEF Kernel, TakesSqe

\* Every step of the shard is a step of ReadOwnership or none.
LEMMA OwnershipStep ==
  ASSUME TypeOK, OneStage, [Next]_vars
  PROVE  [Ownership!Next]_(Ownership!vars)
<1> USE DEF callers, sem, loop, table, ring, memory
<1>1. CASE EndIntake \/ EndReap \/ EnterReturns \/ EnterRetries \/ EnterFails
  BY <1>1, Silent DEF EndIntake, EndReap, submit_ring, EnterReturns, EnterRetries, EnterFails
<1>2. CASE EndTurn \/ DeadlinePasses \/ UNCHANGED vars
  BY <1>2, Silent DEF EndTurn, DeadlinePasses, vars
<1> QED
  BY <1>1, <1>2, OwnershipCallers, OwnershipIntake, OwnershipReap, OwnershipExit, OwnershipKernel
     DEF Next, Driver
===============================================================================
