--------------------------- MODULE UringDriverProofs ---------------------------
(***************************************************************************)
(* What the driver of UringShard owes its reads, step by step: a handle    *)
(* that was sent has its message queued, its entry in the table or its     *)
(* answer, and a read that is told to stop is cancelled once and gets no   *)
(* further kernel read.                                                    *)
(***************************************************************************)
EXTENDS UringStageProofs

-------------------------------------------------------------------------------
(* Answers.                                                                *)

\* A submitted handle has its answer, or its read is in the table or the channel
\* whence the answer will come; only a dropped handle's receiver is closed; and the
\* channel of an exited thread is empty.
HandedOver ==
  /\ \A r \in Reads : handle[r] = "submitted" =>
       result[r] # "none" \/ r \in pending \/ ReadMsg(r) \in Range(chan)
  /\ \A r \in rx_closed : handle[r] \in {"dropping", "dropped"}
  /\ pc = "exited" => chan = <<>>

\* Whoever asks for a cancel has closed the receiver first.
ClosedFirst ==
  \A r \in Reads :
    \/ handle[r] = "dropping"
    \/ CancelMsg(r) \in Range(chan)
    \/ r \in pending /\ entry[r].cancel_requested
    => r \in rx_closed

\* What the steps outside the driver thread have in common.
LEMMA AnswerFrame ==
  ASSUME TypeOK, HandedOver, ClosedFirst, UNCHANGED <<pc, pending, entry>>,
         rx_closed \subseteq rx_closed',
         Range(chan) \subseteq Range(chan'), pc = "exited" => chan' = chan,
         \A x \in Reads : handle'[x] = "submitted" =>
           \/ handle[x] = "submitted" /\ (result[x] # "none" => result'[x] # "none")
           \/ ReadMsg(x) \in Range(chan'),
         \A x \in rx_closed' : handle'[x] \in {"dropping", "dropped"},
         \A x \in Reads : handle'[x] = "dropping" => x \in rx_closed',
         \A x \in Reads : CancelMsg(x) \in Range(chan') => CancelMsg(x) \in Range(chan) \/ x \in rx_closed'
  PROVE  HandedOver' /\ ClosedFirst'
<1>1. HandedOver'
  BY DEF HandedOver, ReadMsg
<1>2. ClosedFirst'
  BY DEF ClosedFirst, CancelMsg
<1> QED
  BY <1>1, <1>2

\* A handle that gives its permit back leaves the others as they were, except for
\* a queued one that gets the permit.
LEMMA ReleaseOthers ==
  ASSUME TypeOK, OneStage, NEW r \in Reads, handle[r] # "queued",
         NEW v \in HandleState, NEW h, h = [handle EXCEPT ![r] = v], Release(h), UNCHANGED sem_closed
  PROVE  /\ handle'[r] = v \/ v = "queued"
         /\ \A x \in Reads \ {r} : handle'[x] = handle[x] \/ (handle[x] = "queued" /\ handle'[x] = "granted")
<1>1. h \in [Reads -> HandleState] /\ h[r] = v /\ \A x \in Reads \ {r} : h[x] = handle[x]
  BY DEF TypeOK
<1>2. Waiters /\ sem_queue \in Seq(Reads)
  BY DEF OneStage, TypeOK
<1>3. \A i \in DOMAIN sem_queue : sem_queue[i] \in Reads /\ handle[sem_queue[i]] = "queued"
  BY <1>2 DEF Waiters
<1>4. \A i \in DOMAIN sem_queue : h[sem_queue[i]] = "queued"
  BY <1>1, <1>3
<1>5. \A x \in Reads : handle'[x] = h[x] \/ (h[x] = "queued" /\ handle'[x] = "granted")
  BY <1>1, <1>2, <1>4, ReleaseStage
<1> QED
  BY <1>1, <1>5

\* The callers' steps: a message is sent with the handle's change of state, the
\* receiver is closed before the cancel is sent, and no answer reaches a closed one.
LEMMA AnswerCallers ==
  ASSUME TypeOK, OneStage, HandedOver, ClosedFirst, (\E r \in Reads : Caller(r)) \/ Stopper
  PROVE  HandedOver' /\ ClosedFirst' /\ \A x \in rx_closed : result'[x] = result[x]
<1> USE DEF callers, sem, loop, table, ring, memory
<1>0. /\ handle \in [Reads -> HandleState] /\ rx_closed \subseteq Reads
      /\ result \in [Reads -> {"none", "ok", "err", "gone"}]
      /\ \A x \in rx_closed : handle[x] \in {"dropping", "dropped"}
      /\ \A x \in Reads : handle[x] = "dropping" => x \in rx_closed
  BY DEF TypeOK, HandedOver, ClosedFirst
<1>1. ASSUME NEW r \in Reads, Submit(r)
      PROVE  HandedOver' /\ ClosedFirst' /\ \A x \in rx_closed : result'[x] = result[x]
  <2>1. /\ UNCHANGED <<pc, pending, entry, rx_closed, chan>> /\ handle[r] = "idle"
        /\ handle'[r] \in {"inert", "sending", "waiting"}
        /\ \A x \in Reads \ {r} : handle'[x] = handle[x] /\ result'[x] = result[x]
    BY <1>0, <1>1 DEF Submit
  <2>2. r \notin rx_closed
    BY <1>0, <2>1
  <2>3. HandedOver' /\ ClosedFirst'
    BY <1>0, <2>1, <2>2, AnswerFrame
  <2> QED
    BY <1>0, <2>1, <2>2, <2>3
<1>2. ASSUME NEW r \in Reads, SendRead(r)
      PROVE  HandedOver' /\ ClosedFirst' /\ \A x \in rx_closed : result'[x] = result[x]
  <2>1. /\ UNCHANGED <<pc, pending, entry, rx_closed, sem_closed>> /\ handle[r] \in {"sending", "resuming"}
        /\ chan' = Sent(ReadMsg(r)) /\ ReadMsg(r) \in Message
        /\ \A x \in Reads \ {r} : result'[x] = result[x]
    BY <1>0, <1>2 DEF SendRead, ReadMsg, Message
  <2>2. /\ Range(chan) \subseteq Range(chan') /\ Range(chan') \subseteq Range(chan) \cup {ReadMsg(r)}
        /\ pc = "exited" => chan' = chan
        /\ pc # "exited" => ReadMsg(r) \in Range(chan')
    BY <2>1, SentRange
  <2>3. r \notin rx_closed
    BY <1>0, <2>1
  <2>4. \A x \in Reads : CancelMsg(x) # ReadMsg(r)
    BY DEF CancelMsg, ReadMsg
  <2>5. /\ \A x \in Reads \ {r} : handle'[x] = handle[x] \/ (handle[x] = "queued" /\ handle'[x] = "granted")
        /\ handle'[r] \in {"inert", "finished"} \/ (handle'[r] = "submitted" /\ pc # "exited")
    <3>1. CASE ReceiverGone
      <4> DEFINE v == IF handle[r] = "sending" THEN "inert" ELSE "finished"
                 h == [handle EXCEPT ![r] = v]
      <4>1. Release(h) /\ handle[r] # "queued"
        BY <1>0, <1>2, <2>1, <3>1 DEF SendRead
      <4>2. v \in {"inert", "finished"}
        OBVIOUS
      <4> HIDE DEF v
      <4>3. v \in HandleState
        BY <4>2 DEF HandleState
      <4>4. /\ handle'[r] = v \/ v = "queued"
            /\ \A x \in Reads \ {r} : handle'[x] = handle[x] \/ (handle[x] = "queued" /\ handle'[x] = "granted")
        BY <2>1, <4>1, <4>3, ReleaseOthers
      <4> QED
        BY <4>2, <4>4
    <3>2. CASE ~ReceiverGone
      <4>1. handle' = [handle EXCEPT ![r] = "submitted"] /\ pc # "exited"
        BY <1>2, <3>2 DEF SendRead, ReceiverGone
      <4> QED
        BY <1>0, <4>1
    <3> QED
      BY <3>1, <3>2
  <2>6. HandedOver' /\ ClosedFirst'
    <3>1. \A x \in Reads : handle'[x] = "submitted" =>
            \/ handle[x] = "submitted" /\ (result[x] # "none" => result'[x] # "none")
            \/ ReadMsg(x) \in Range(chan')
      BY <2>1, <2>2, <2>5
    <3>2. \A x \in rx_closed' : handle'[x] \in {"dropping", "dropped"}
      BY <1>0, <2>1, <2>3, <2>5
    <3>3. \A x \in Reads : handle'[x] = "dropping" => x \in rx_closed'
      BY <1>0, <2>1, <2>5
    <3>4. \A x \in Reads : CancelMsg(x) \in Range(chan') => CancelMsg(x) \in Range(chan) \/ x \in rx_closed'
      BY <2>2, <2>4
    <3> QED
      BY <2>1, <2>2, <3>1, <3>2, <3>3, <3>4, AnswerFrame
  <2> QED
    BY <1>0, <2>1, <2>3, <2>6
<1>3. ASSUME NEW r \in Reads, PollAcquire(r)
      PROVE  HandedOver' /\ ClosedFirst' /\ \A x \in rx_closed : result'[x] = result[x]
  <2>1. /\ UNCHANGED <<pc, pending, entry, rx_closed, chan, sem_closed>>
        /\ handle[r] \in {"waiting", "queued", "granted"}
        /\ \A x \in Reads \ {r} : result'[x] = result[x]
    BY <1>0, <1>3 DEF PollAcquire
  <2>2. r \notin rx_closed
    BY <1>0, <2>1
  <2>3. /\ \A x \in Reads \ {r} : handle'[x] = handle[x] \/ (handle[x] = "queued" /\ handle'[x] = "granted")
        /\ handle'[r] \in {"finished", "resuming", "queued"}
    <3>1. CASE sem_closed /\ handle[r] = "granted"
      <4>1. Release([handle EXCEPT ![r] = "finished"])
        BY <1>3, <3>1 DEF PollAcquire
      <4>2. "finished" \in HandleState
        BY DEF HandleState
      <4> QED
        BY <2>1, <3>1, <4>1, <4>2, ReleaseOthers
    <3>2. CASE ~(sem_closed /\ handle[r] = "granted")
      <4>1. \E v \in {"finished", "resuming", "queued"} : handle' = [handle EXCEPT ![r] = v]
        BY <1>3, <3>2 DEF PollAcquire
      <4> QED
        BY <1>0, <4>1
    <3> QED
      BY <3>1, <3>2
  <2>4. HandedOver' /\ ClosedFirst'
    <3>1. \A x \in Reads : handle'[x] = "submitted" =>
            handle[x] = "submitted" /\ (result[x] # "none" => result'[x] # "none")
      BY <2>1, <2>3
    <3>2. \A x \in rx_closed' : handle'[x] \in {"dropping", "dropped"}
      BY <1>0, <2>1, <2>2, <2>3
    <3>3. \A x \in Reads : handle'[x] = "dropping" => x \in rx_closed'
      BY <1>0, <2>1, <2>3
    <3> QED
      BY <2>1, <3>1, <3>2, <3>3, AnswerFrame
  <2> QED
    BY <1>0, <2>1, <2>2, <2>4
<1>4. ASSUME NEW r \in Reads, PollResult(r)
      PROVE  HandedOver' /\ ClosedFirst' /\ \A x \in rx_closed : result'[x] = result[x]
  <2>1. /\ UNCHANGED <<pc, pending, entry, rx_closed, chan, result>>
        /\ handle[r] \in {"submitted", "inert"} /\ handle' = [handle EXCEPT ![r] = "finished"]
    BY <1>4 DEF PollResult
  <2>2. r \notin rx_closed
    BY <1>0, <2>1
  <2>3. handle'[r] = "finished" /\ \A x \in Reads \ {r} : handle'[x] = handle[x]
    BY <1>0, <2>1
  <2> QED
    BY <1>0, <2>1, <2>2, <2>3, AnswerFrame
<1>5. ASSUME NEW r \in Reads, DropQuietly(r)
      PROVE  HandedOver' /\ ClosedFirst' /\ \A x \in rx_closed : result'[x] = result[x]
  <2>1. /\ UNCHANGED <<pc, pending, entry, chan, result, sem_closed>> /\ rx_closed' = rx_closed \cup {r}
        /\ handle[r] \in {"waiting", "queued", "granted", "inert", "submitted"}
    BY <1>5 DEF DropQuietly
  <2>2. /\ \A x \in Reads \ {r} : handle'[x] = handle[x] \/ (handle[x] = "queued" /\ handle'[x] = "granted")
        /\ handle'[r] = "dropped"
    <3>1. CASE handle[r] = "granted"
      <4>1. Release([handle EXCEPT ![r] = "dropped"])
        BY <1>5, <3>1 DEF DropQuietly
      <4>2. "dropped" \in HandleState
        BY DEF HandleState
      <4> QED
        BY <2>1, <3>1, <4>1, <4>2, ReleaseOthers
    <3>2. CASE handle[r] # "granted"
      <4>1. handle' = [handle EXCEPT ![r] = "dropped"]
        BY <1>5, <3>2 DEF DropQuietly
      <4> QED
        BY <1>0, <4>1
    <3> QED
      BY <3>1, <3>2
  <2>3. HandedOver' /\ ClosedFirst'
    <3>1. \A x \in Reads : handle'[x] = "submitted" =>
            handle[x] = "submitted" /\ (result[x] # "none" => result'[x] # "none")
      BY <2>1, <2>2
    <3>2. \A x \in rx_closed' : handle'[x] \in {"dropping", "dropped"}
      BY <1>0, <2>1, <2>2
    <3>3. \A x \in Reads : handle'[x] = "dropping" => x \in rx_closed'
      BY <1>0, <2>1, <2>2
    <3> QED
      BY <2>1, <3>1, <3>2, <3>3, AnswerFrame
  <2> QED
    BY <2>1, <2>3
<1>6. ASSUME NEW r \in Reads, DropClose(r)
      PROVE  HandedOver' /\ ClosedFirst' /\ \A x \in rx_closed : result'[x] = result[x]
  <2>1. /\ UNCHANGED <<pc, pending, entry, chan, result>> /\ rx_closed' = rx_closed \cup {r}
        /\ handle' = [handle EXCEPT ![r] = "dropping"]
    BY <1>6 DEF DropClose
  <2>2. handle'[r] = "dropping" /\ \A x \in Reads \ {r} : handle'[x] = handle[x]
    BY <1>0, <2>1
  <2>3. \A x \in rx_closed' : handle'[x] \in {"dropping", "dropped"}
    BY <1>0, <2>1, <2>2
  <2>4. \A x \in Reads : handle'[x] = "dropping" => x \in rx_closed'
    BY <1>0, <2>1, <2>2
  <2>5. \A x \in Reads : handle'[x] = "submitted" =>
            handle[x] = "submitted" /\ (result[x] # "none" => result'[x] # "none")
    BY <2>1, <2>2
  <2> QED
    BY <2>1, <2>3, <2>4, <2>5, AnswerFrame
<1>7. ASSUME NEW r \in Reads, DropSend(r)
      PROVE  HandedOver' /\ ClosedFirst' /\ \A x \in rx_closed : result'[x] = result[x]
  <2>1. /\ UNCHANGED <<pc, pending, entry, result, rx_closed>> /\ handle[r] = "dropping"
        /\ handle' = [handle EXCEPT ![r] = "dropped"]
        /\ chan' = Sent(CancelMsg(r)) /\ CancelMsg(r) \in Message
    BY <1>7 DEF DropSend, CancelMsg, Message
  <2>2. /\ Range(chan) \subseteq Range(chan') /\ Range(chan') \subseteq Range(chan) \cup {CancelMsg(r)}
        /\ pc = "exited" => chan' = chan
    BY <2>1, SentRange
  <2>3. handle'[r] = "dropped" /\ \A x \in Reads \ {r} : handle'[x] = handle[x]
    BY <1>0, <2>1
  <2>4. \A x \in Reads : CancelMsg(x) = CancelMsg(r) => x = r
    BY DEF CancelMsg
  <2>5. \A x \in Reads : CancelMsg(x) \in Range(chan') => CancelMsg(x) \in Range(chan) \/ x \in rx_closed'
    BY <1>0, <2>1, <2>2, <2>4
  <2>6. \A x \in Reads : handle'[x] = "submitted" =>
            handle[x] = "submitted" /\ (result[x] # "none" => result'[x] # "none")
    BY <2>1, <2>3
  <2>7. \A x \in rx_closed' : handle'[x] \in {"dropping", "dropped"}
    BY <1>0, <2>1, <2>3
  <2>8. \A x \in Reads : handle'[x] = "dropping" => x \in rx_closed'
    BY <1>0, <2>1, <2>3
  <2> QED
    BY <2>1, <2>2, <2>5, <2>6, <2>7, <2>8, AnswerFrame
<1>8. CASE Stopper
  <2>1. /\ UNCHANGED <<pc, pending, entry, callers>>
        /\ chan' = chan \/ chan' = Sent(ShutdownMsg)
    BY <1>8 DEF Stopper, CloseAdmission, RequestShutdown, JoinSend, Joined
  <2>2. ShutdownMsg \in Message /\ \A x \in Reads : CancelMsg(x) # ShutdownMsg
    BY DEF Message, ShutdownMsg, CancelMsg
  <2>3. /\ Range(chan) \subseteq Range(chan') /\ Range(chan') \subseteq Range(chan) \cup {ShutdownMsg}
        /\ pc = "exited" => chan' = chan
    BY <2>1, <2>2, SentRange
  <2> QED
    BY <1>0, <2>1, <2>2, <2>3, AnswerFrame
<1> QED
  BY <1>1, <1>2, <1>3, <1>4, <1>5, <1>6, <1>7, <1>8 DEF Caller, Poll

\* Another kernel read is asked for only while nobody has told the read to stop, and
\* nothing but a cancel message marks an entry as cancelled.
LEMMA ResubmitRuns ==
  ASSUME NEW p \in Pending, NEW res \in Int, NEW stop \in BOOLEAN, NEW closed \in BOOLEAN,
         reap_read(p, res, stop, 0, closed).step = "resubmit"
  PROVE  /\ ~stop /\ ~p.cancel_requested
         /\ ~reap_read(p, res, stop, 0, closed).p.cancel_requested
<1>1. CASE res < 0
  <2>1. -res \in Int
    BY <1>1
  <2> QED
    BY <1>1, <2>1 DEF reap_read, reap_error, Stopped, Retry, Finish, Resubmit, Pending
<1>2. CASE res = 0
  BY <1>2 DEF reap_read, Finish
<1>3. CASE res > 0
  <2> DEFINE q == [p EXCEPT !.nread = @ + res, !.transient_retries = 0]
  <2>1. reap_read(p, res, stop, 0, closed) = reap_progress(q, Stopped(p, stop), 0, closed)
    BY <1>3 DEF reap_read
  <2>2. q.cancel_requested = p.cancel_requested
    BY DEF Pending
  <2> HIDE DEF q
  <2> QED
    BY <2>1, <2>2 DEF reap_progress, Stopped, Finish, Resubmit
<1> QED
  BY <1>1, <1>2, <1>3

\* The message the driver takes, and what is left in the channel.
LEMMA TakenMessage ==
  ASSUME TypeOK, OneStage, HandedOver, chan # <<>>, chan' = Tail(chan)
  PROVE  /\ pc # "exited" /\ Head(chan) \in Message /\ Range(chan) = Range(chan') \cup {Head(chan)}
         /\ Head(chan).type = "read" => Head(chan) = ReadMsg(Head(chan).id) /\ Head(chan).id \in Reads
         /\ Head(chan).type = "cancel" => Head(chan) = CancelMsg(Head(chan).id) /\ Head(chan).id \in Reads
         /\ Head(chan).type \in {"read", "cancel", "shutdown"}
<1>1. chan \in Seq(Message)
  BY DEF TypeOK
<1>2. Head(chan) \in Message
  BY <1>1
<1>3. Range(chan) = Range(chan') \cup {Head(chan)}
  BY <1>1, RangeTail
<1>4. pc # "exited"
  BY DEF HandedOver
<1> QED
  BY <1>2, <1>3, <1>4, MessageKinds

\* The driver's intake answers the read it rejects, and takes over the read and the
\* cancel mark of the messages it accepts.
LEMMA AnswerIntake ==
  ASSUME TypeOK, OneStage, HandedOver, ClosedFirst,
         RejectRead \/ IntakeRead \/ IntakeCancel \/ IntakeShutdown
  PROVE  HandedOver' /\ ClosedFirst' /\ \A x \in rx_closed : result'[x] = result[x]
<1> USE DEF callers, sem, loop, table, ring, memory
<1> DEFINE r == Head(chan).id
<1>0. /\ handle \in [Reads -> HandleState] /\ rx_closed \subseteq Reads
      /\ result \in [Reads -> {"none", "ok", "err", "gone"}] /\ entry \in [Reads -> Pending]
      /\ pending \subseteq Reads
      /\ \A x \in rx_closed : handle[x] \in {"dropping", "dropped"}
  BY DEF TypeOK, HandedOver
<1>1. chan # <<>> /\ chan' = Tail(chan) /\ UNCHANGED <<pc, rx_closed>>
  BY DEF RejectRead, IntakeRead, IntakeCancel, IntakeShutdown, TakeMessage
<1>2. /\ pc # "exited" /\ Range(chan) = Range(chan') \cup {Head(chan)}
      /\ Head(chan).type = "read" => Head(chan) = ReadMsg(r) /\ r \in Reads
      /\ Head(chan).type = "cancel" => Head(chan) = CancelMsg(r) /\ r \in Reads
      /\ \A x \in Reads : ReadMsg(x) = ReadMsg(r) => x = r
      /\ \A x \in Reads : ReadMsg(x) = Head(chan) => Head(chan).type = "read"
  <2>1. \A x \in Reads : ReadMsg(x) = ReadMsg(r) => x = r
    BY DEF ReadMsg
  <2>2. \A x \in Reads : ReadMsg(x) = Head(chan) => Head(chan).type = "read"
    BY DEF ReadMsg
  <2> QED
    BY <1>1, <2>1, <2>2, TakenMessage
<1> HIDE DEF r
<1>3. CASE RejectRead
  <2>1. /\ UNCHANGED <<pending, entry, sem_closed>> /\ Release(handle) /\ Head(chan).type = "read"
        /\ result' = [result EXCEPT ![r] = IF r \in rx_closed THEN @ ELSE "err"]
    BY <1>3 DEF RejectRead, Answer, r, Err
  <2>2. \A x \in Reads : handle'[x] = handle[x] \/ (handle[x] = "queued" /\ handle'[x] = "granted")
    <3>1. Waiters /\ \A i \in DOMAIN sem_queue : handle[sem_queue[i]] = "queued"
      BY DEF OneStage, Waiters
    <3> QED
      BY <1>0, <2>1, <3>1, ReleaseStage
  <2>3. \A x \in Reads : handle'[x] = "submitted" =>
          result'[x] # "none" \/ x \in pending' \/ ReadMsg(x) \in Range(chan')
    <3> SUFFICES ASSUME NEW x \in Reads, handle'[x] = "submitted", result'[x] = "none",
                        x \notin pending, ReadMsg(x) \notin Range(chan')
                 PROVE  FALSE
      BY <2>1
    <3>1. handle[x] = "submitted"
      BY <2>2
    <3>2. x \notin rx_closed
      BY <1>0, <3>1
    <3>3. x # r
      BY <1>0, <1>2, <2>1, <3>2
    <3>4. result[x] = "none"
      BY <1>0, <2>1, <3>3
    <3>5. ReadMsg(x) \in Range(chan)
      BY <3>1, <3>4 DEF HandedOver
    <3> QED
      BY <1>2, <2>1, <3>3, <3>5
  <2>4. HandedOver'
    BY <1>0, <1>1, <1>2, <2>2, <2>3 DEF HandedOver, ReadMsg
  <2>5. ClosedFirst'
    <3>1. \A x \in Reads : handle'[x] = "dropping" => handle[x] = "dropping"
      BY <2>2
    <3> QED
      BY <1>1, <1>2, <2>1, <3>1 DEF ClosedFirst, CancelMsg
  <2> QED
    BY <1>0, <2>1, <2>4, <2>5
<1>4. CASE IntakeRead
  <2>1. /\ UNCHANGED <<handle, result>> /\ pending' = pending \cup {r} /\ Head(chan).type = "read"
        /\ entry' = [entry EXCEPT ![r] = Shape[r]]
    BY <1>4 DEF IntakeRead, r
  <2>2. HandedOver'
    BY <1>1, <1>2, <2>1 DEF HandedOver, ReadMsg
  <2>3. \A x \in Reads : x \in pending' /\ entry'[x].cancel_requested
                           => x \in pending /\ entry[x].cancel_requested
    <3>1. ~Shape[r].cancel_requested
      BY <1>2, <2>1, ShardAssumption
    <3> QED
      BY <1>0, <1>2, <2>1, <3>1
  <2>4. ClosedFirst'
    BY <1>1, <1>2, <2>1, <2>3 DEF ClosedFirst, CancelMsg
  <2> QED
    BY <2>1, <2>2, <2>4
<1>5. CASE IntakeCancel
  <2>1. /\ UNCHANGED <<handle, result, pending>> /\ Head(chan).type = "cancel"
        /\ entry' = entry \/ entry' = [entry EXCEPT ![r].cancel_requested = TRUE]
    BY <1>5 DEF IntakeCancel, r
  <2>2. HandedOver'
    BY <1>1, <1>2, <2>1 DEF HandedOver, ReadMsg
  <2>3. r \in rx_closed
    BY <1>2, <2>1 DEF ClosedFirst
  <2>4. \A x \in Reads : x # r => entry'[x] = entry[x]
    BY <1>0, <2>1
  <2>5. ClosedFirst'
    BY <1>1, <1>2, <2>1, <2>3, <2>4 DEF ClosedFirst, CancelMsg
  <2> QED
    BY <2>1, <2>2, <2>5
<1>6. CASE IntakeShutdown
  <2>1. UNCHANGED <<handle, result, pending, entry>> /\ Head(chan).type = "shutdown"
    BY <1>6 DEF IntakeShutdown
  <2>2. HandedOver'
    BY <1>1, <1>2, <2>1 DEF HandedOver, ReadMsg
  <2>3. ClosedFirst'
    BY <1>1, <1>2, <2>1 DEF ClosedFirst, CancelMsg
  <2> QED
    BY <2>1, <2>2, <2>3
<1> QED
  BY <1>3, <1>4, <1>5, <1>6

\* The reap answers the read whose entry it removes, and a resubmitted read keeps
\* its entry unmarked.
LEMMA AnswerReap ==
  ASSUME TypeOK, OneStage, HandedOver, ClosedFirst, ReapFinish \/ ReapResubmit
  PROVE  HandedOver' /\ ClosedFirst' /\ \A x \in rx_closed : result'[x] = result[x]
<1> USE DEF callers, sem, loop, table, ring, memory
<1> DEFINE r == Head(cqes).id
           step == Step(r, Head(cqes).res)
<1>0. /\ handle \in [Reads -> HandleState] /\ rx_closed \subseteq Reads
      /\ result \in [Reads -> {"none", "ok", "err", "gone"}] /\ entry \in [Reads -> Pending]
      /\ pending \subseteq Reads /\ shutting_down \in BOOLEAN
      /\ \A x \in rx_closed : handle[x] \in {"dropping", "dropped"}
  BY DEF TypeOK, HandedOver
<1>1. /\ UNCHANGED <<chan, rx_closed, pc>> /\ pc = "reap" /\ r \in pending /\ Head(cqes).res \in Int
  <2>1. NextCqe /\ UNCHANGED <<chan, rx_closed, pc>> /\ r \in pending
    BY DEF ReapFinish, ReapResubmit, IsReadCompletion
  <2>2. Head(cqes).res \in Int
    BY <2>1, NextCqeType DEF Cqe
  <2> QED
    BY <2>1, <2>2 DEF NextCqe
<1>2. CASE ReapFinish
  <2>1. /\ pending' = pending \ {r} /\ entry' = [entry EXCEPT ![r] = Shape[r]]
        /\ Release(handle) /\ UNCHANGED sem_closed
        /\ result' = [result EXCEPT ![r] = IF r \in rx_closed THEN @
                                           ELSE IF step.outcome.ok THEN "ok" ELSE "err"]
    BY <1>2 DEF ReapFinish, Answer
  <2> HIDE DEF step, r
  <2>2. \A x \in Reads : handle'[x] = handle[x] \/ (handle[x] = "queued" /\ handle'[x] = "granted")
    <3>1. Waiters /\ \A i \in DOMAIN sem_queue : handle[sem_queue[i]] = "queued"
      BY DEF OneStage, Waiters
    <3> QED
      BY <1>0, <2>1, <3>1, ReleaseStage
  <2>3. \A x \in Reads : handle'[x] = "submitted" =>
          result'[x] # "none" \/ x \in pending' \/ ReadMsg(x) \in Range(chan)
    <3> SUFFICES ASSUME NEW x \in Reads, handle'[x] = "submitted", result'[x] = "none",
                        x \notin pending', ReadMsg(x) \notin Range(chan)
                 PROVE  FALSE
      OBVIOUS
    <3>1. handle[x] = "submitted"
      BY <2>2
    <3>2. x \notin rx_closed
      BY <1>0, <3>1
    <3>3. x # r
      BY <1>0, <1>1, <2>1, <3>2
    <3>4. result[x] = "none" /\ x \notin pending
      BY <1>0, <2>1, <3>3
    <3> QED
      BY <3>1, <3>4 DEF HandedOver
  <2>4. HandedOver'
    BY <1>0, <1>1, <2>2, <2>3 DEF HandedOver, ReadMsg
  <2>5. ClosedFirst'
    <3>1. \A x \in Reads : handle'[x] = "dropping" => handle[x] = "dropping"
      BY <2>2
    <3>2. \A x \in Reads : x \in pending' => x \in pending /\ entry'[x] = entry[x]
      BY <1>0, <2>1
    <3> QED
      BY <1>1, <3>1, <3>2 DEF ClosedFirst, CancelMsg
  <2> QED
    BY <1>0, <2>1, <2>4, <2>5
<1>3. CASE ReapResubmit
  <2>1. /\ UNCHANGED <<handle, result, pending>> /\ step.step = "resubmit"
        /\ entry' = [entry EXCEPT ![r] = step.p]
    BY <1>3 DEF ReapResubmit
  <2>2. ~step.p.cancel_requested
    <3>1. entry[r] \in Pending /\ (r \in rx_closed) \in BOOLEAN
      BY <1>0, <1>1
    <3> QED
      BY <1>0, <1>1, <2>1, <3>1, ResubmitRuns DEF Step
  <2> HIDE DEF step, r
  <2>3. HandedOver'
    BY <1>1, <2>1 DEF HandedOver, ReadMsg
  <2>4. \A x \in pending : entry'[x].cancel_requested => entry[x].cancel_requested
    BY <1>0, <1>1, <2>1, <2>2
  <2>5. ClosedFirst'
    BY <1>1, <2>1, <2>4 DEF ClosedFirst, CancelMsg
  <2> QED
    BY <2>1, <2>3, <2>5
<1> QED
  BY <1>2, <1>3

\* The exits answer what the table and the channel still hold.
LEMMA AnswerExit ==
  ASSUME TypeOK, OneStage, HandedOver, ClosedFirst, LeakExit \/ ThreadExit
  PROVE  HandedOver' /\ ClosedFirst' /\ \A x \in rx_closed : result'[x] = result[x]
<1> USE DEF callers, sem, loop, table, ring, memory
<1>0. /\ rx_closed \subseteq Reads /\ result \in [Reads -> {"none", "ok", "err", "gone"}]
      /\ \A x \in rx_closed : handle[x] \in {"dropping", "dropped"}
  BY DEF TypeOK, HandedOver
<1>1. CASE LeakExit
  <2>1. /\ UNCHANGED <<handle, rx_closed, chan>> /\ pending' = {} /\ pc' = "returning"
        /\ result' = [r \in Reads |-> IF r \in pending \ rx_closed THEN "err" ELSE result[r]]
    BY <1>1 DEF LeakExit, FailStranded
  <2>2. HandedOver'
    <3>1. \A x \in Reads : handle[x] = "submitted" => x \notin rx_closed
      BY <1>0
    <3> QED
      BY <1>0, <2>1, <3>1 DEF HandedOver, ReadMsg
  <2>3. ClosedFirst'
    BY <2>1 DEF ClosedFirst, CancelMsg
  <2> QED
    BY <1>0, <2>1, <2>2, <2>3
<1>2. CASE ThreadExit
  <2>1. /\ UNCHANGED <<handle, rx_closed>> /\ chan' = <<>> /\ pending' = {} /\ pc = "returning"
        /\ result' = [r \in Reads |-> IF r \in QueuedReads \ rx_closed THEN "gone" ELSE result[r]]
    BY <1>2 DEF ThreadExit
  <2>2. pending = {}
    BY <2>1 DEF OneStage, TableStage
  <2>3. \A x \in Reads : ReadMsg(x) \in Range(chan) => x \in QueuedReads
    BY DEF QueuedReads, ReadMsg
  <2>4. \A x \in Reads : handle[x] = "submitted" => result'[x] # "none"
    <3>1. \A x \in Reads : handle[x] = "submitted" => x \notin rx_closed
      BY <1>0
    <3> QED
      BY <1>0, <2>1, <2>2, <2>3, <3>1 DEF HandedOver
  <2>5. HandedOver'
    BY <1>0, <2>1, <2>4 DEF HandedOver
  <2>6. ClosedFirst'
    <3>1. \A x \in Reads : CancelMsg(x) \notin Range(chan')
      BY <2>1 DEF Range
    <3> QED
      BY <2>1, <3>1 DEF ClosedFirst, CancelMsg
  <2> QED
    BY <1>0, <2>1, <2>5, <2>6
<1> QED
  BY <1>1, <1>2

\* Every step keeps the answers coming, and none answers a closed receiver.
LEMMA AnswerStep ==
  ASSUME TypeOK, OneStage, HandedOver, ClosedFirst, [Next]_vars
  PROVE  HandedOver' /\ ClosedFirst' /\ \A x \in rx_closed : result'[x] = result[x]
<1> USE DEF callers, sem, loop, table, ring, memory
<1>1. CASE UNCHANGED <<callers, chan, pending, entry>> /\ (pc' = pc \/ pc' # "exited")
  BY <1>1 DEF HandedOver, ClosedFirst, ReadMsg, CancelMsg
<1>2. CASE UNCHANGED vars \/ DeadlinePasses
  BY <1>1, <1>2 DEF vars, DeadlinePasses
<1>3. CASE Panic \/ EndIntake \/ EndReap \/ EnterReturns \/ EnterRetries \/ EnterFails
  <2>1. UNCHANGED <<callers, chan, pending, entry>>
    BY <1>3 DEF Panic, EndIntake, EndReap, submit_ring, EnterReturns, EnterRetries, EnterFails
  <2>2. pc' # "exited"
    BY <1>3 DEF Panic, EndIntake, EndReap, submit_ring, EnterReturns, EnterRetries, EnterFails, AfterEnter
  <2> QED
    BY <1>1, <2>1, <2>2
<1>4. CASE ReapIgnored \/ EndTurn \/ DrainedExit
  BY <1>1, <1>4 DEF ReapIgnored, EndTurn, DrainedExit
<1>5. CASE Kernel
  BY <1>1, <1>5 DEF Kernel, TakesSqe, KernelTakesRead, KernelTakesCancel, TakeSqe, KernelCompletes
<1> QED
  BY <1>2, <1>3, <1>4, <1>5, AnswerCallers, AnswerIntake, AnswerReap, AnswerExit DEF Next, Driver

-------------------------------------------------------------------------------
(* Reads that are told to stop.                                            *)

\* Queuing cancels queues no read.
LEMMA CancelsOnly ==
  ASSUME Countable, TypeOK, NEW S, S \subseteq Reads, queue_cancels(S), NEW r \in Reads,
         ReadSqe(r) \notin Range(sqes)
  PROVE  ReadSqe(r) \notin Range(sqes')
<1>1. /\ sqes' \in Seq(Sqe) /\ Len(sqes') >= Len(sqes)
      /\ \A i \in 1..Len(sqes) : sqes'[i] = sqes[i]
      /\ \A i \in 1..Len(sqes') : i > Len(sqes) => sqes'[i].op = "cancel"
  BY QueueCancels DEF TypeOK
<1>2. DOMAIN sqes = 1..Len(sqes) /\ Len(sqes) \in Nat /\ DOMAIN sqes' = 1..Len(sqes') /\ Len(sqes') \in Nat
  BY <1>1 DEF TypeOK
<1>3. \A i \in 1..Len(sqes') : i \in 1..Len(sqes) \/ i > Len(sqes)
  BY <1>2
<1>4. \A i \in DOMAIN sqes' : sqes'[i] # ReadSqe(r)
  <2> SUFFICES ASSUME NEW i \in DOMAIN sqes', sqes'[i] = ReadSqe(r) PROVE FALSE
    OBVIOUS
  <2>1. sqes'[i].op = "read"
    BY DEF ReadSqe
  <2>2. i \in 1..Len(sqes) /\ sqes[i] = ReadSqe(r)
    BY <1>1, <1>2, <1>3, <2>1
  <2> QED
    BY <1>2, <2>2 DEF Range
<1> QED
  BY <1>4 DEF Range

\* Two reads have two SQEs.
LEMMA OtherSqe ==
  ASSUME NEW x \in Reads, NEW y \in Reads, x # y
  PROVE  ReadSqe(x) \in Sqe /\ ReadSqe(x) # ReadSqe(y)
BY DEF ReadSqe, Sqe

\* One entry more is in the submission queue.
LEMMA SqeSet ==
  ASSUME TypeOK, NEW s \in Sqe, sqes' = Append(sqes, s)
  PROVE  Range(sqes') = Range(sqes) \cup {s}
<1>1. sqes \in Seq(Sqe)
  BY QueueTypes
<1> QED
  BY <1>1, RangeAppend

\* The driver asks the kernel again only for a read that nobody told to stop.
LEMMA ResubmitsRunning ==
  ASSUME TypeOK, ReapResubmit
  PROVE  /\ ~shutting_down /\ ~entry[Head(cqes).id].cancel_requested
         /\ ~Step(Head(cqes).id, Head(cqes).res).p.cancel_requested
<1> DEFINE x == Head(cqes).id
           res == Head(cqes).res
<1>1. NextCqe /\ x \in pending /\ Step(x, res).step = "resubmit"
  BY DEF ReapResubmit, IsReadCompletion
<1>2. res \in Int
  BY <1>1, NextCqeType DEF Cqe
<1>3. entry[x] \in Pending /\ (x \in rx_closed) \in BOOLEAN /\ shutting_down \in BOOLEAN
  BY <1>1 DEF TypeOK
<1> HIDE DEF x, res
<1>4. ~shutting_down /\ ~entry[x].cancel_requested /\ ~Step(x, res).p.cancel_requested
  BY <1>1, <1>2, <1>3, ResubmitRuns DEF Step
<1> QED
  BY <1>4 DEF x, res

\* No kernel read is queued for a pending read that was told to stop.
LEMMA NoFurtherRead ==
  ASSUME Countable, TypeOK, OneStage, [Next]_vars, NEW r \in pending,
         shutting_down \/ entry[r].cancel_requested, ReadSqe(r) \notin Range(sqes)
  PROVE  ReadSqe(r) \notin Range(sqes')
<1> USE DEF callers, sem, loop, table, ring, memory
<1>0. r \in Reads /\ pending \subseteq Reads /\ sqes \in Seq(Sqe) /\ entry \in [Reads -> Pending]
  BY DEF TypeOK
<1>1. CASE UNCHANGED sqes
  BY <1>1
<1>2. CASE (\E x \in Reads : Caller(x)) \/ Stopper \/ UNCHANGED vars
  BY <1>1, <1>2, CallersFrame DEF vars
<1>3. CASE IntakeRead
  <2> DEFINE x == Head(chan).id
  <2>1. ~shutting_down /\ chan # <<>> /\ Head(chan).type = "read" /\ sqes' = Append(sqes, ReadSqe(x))
    BY <1>3 DEF IntakeRead
  <2>2. Head(chan) = chan[1] /\ 1 \in DOMAIN chan /\ chan[1] \in Message
    BY <2>1, FirstMessage
  <2>3. x \in Reads /\ x # r
    <3>1. MessageStage /\ x \in Reads
      BY <2>1, <2>2, MessageKinds DEF OneStage
    <3>2. x \notin Owned
      BY <2>1, <2>2, <3>1 DEF MessageStage
    <3> QED
      BY <3>1, <3>2 DEF Owned
  <2>4. ReadSqe(x) \in Sqe /\ ReadSqe(x) # ReadSqe(r)
    BY <1>0, <2>3, OtherSqe
  <2> QED
    BY <2>1, <2>4, SqeSet
<1>4. CASE IntakeCancel
  <2>1. UNCHANGED sqes \/ \E x \in pending : queue_cancels({x})
    BY <1>4 DEF IntakeCancel
  <2> QED
    BY <1>0, <2>1, CancelsOnly
<1>5. CASE IntakeShutdown \/ EnterFails
  <2>1. UNCHANGED sqes \/ queue_cancels(pending)
    BY <1>5 DEF IntakeShutdown, EnterFails, BeginShutdown
  <2> QED
    BY <1>0, <2>1, CancelsOnly
<1>6. CASE RejectRead \/ Panic \/ EndIntake \/ EndReap \/ EnterReturns \/ EnterRetries \/ ReapIgnored
  BY <1>1, <1>6 DEF RejectRead, Panic, EndIntake, EndReap, submit_ring, EnterReturns, EnterRetries,
     ReapIgnored
<1>7. CASE ReapFinish \/ EndTurn \/ DeadlinePasses \/ DrainedExit \/ LeakExit \/ ThreadExit
  BY <1>1, <1>7 DEF ReapFinish, EndTurn, DeadlinePasses, DrainedExit, LeakExit, ThreadExit
<1>8. CASE ReapResubmit
  <2> DEFINE x == Head(cqes).id
             step == Step(x, Head(cqes).res)
  <2>1. /\ NextCqe /\ x \in pending /\ step.step = "resubmit" /\ sqes' = Append(sqes, ReadSqe(x))
    BY <1>8 DEF ReapResubmit, IsReadCompletion
  <2>3. ~shutting_down /\ ~entry[x].cancel_requested
    BY <1>8, ResubmitsRunning
  <2> HIDE DEF step, x
  <2>4. x # r
    BY <1>0, <2>3
  <2>5. x \in Reads
    BY <1>0, <2>1
  <2>6. ReadSqe(x) \in Sqe /\ ReadSqe(x) # ReadSqe(r)
    BY <1>0, <2>4, <2>5, OtherSqe
  <2> QED
    BY <2>1, <2>6, SqeSet
<1>9. CASE TakesSqe
  <2>1. TakeSqe /\ sqes' = Tail(sqes)
    BY <1>9 DEF TakesSqe, KernelTakesRead, KernelTakesCancel, TakeSqe
  <2> QED
    BY <1>0, <2>1, TakeSqeType, RangeTail
<1>10. CASE \E x \in Reads, res \in Results \cup {-ECANCELED} : KernelCompletes(x, res)
  BY <1>1, <1>10 DEF KernelCompletes
<1> QED
  BY <1>2, <1>3, <1>4, <1>5, <1>6, <1>7, <1>8, <1>9, <1>10 DEF Next, Driver, Kernel

-------------------------------------------------------------------------------
(* Cancels.                                                                *)

\* A cancel in the SQ or behind it is of a read that was marked as cancelled, or is
\* over by now; it is that read's only one, and no CQE of it is waiting.
SqeCancels ==
  \A i \in DOMAIN sqes : sqes[i].op = "cancel" =>
    /\ sqes[i].id \in queued_cancels \cup freed
    /\ \A j \in DOMAIN sqes : sqes[j] = sqes[i] => j = i
    /\ \A j \in DOMAIN cqes : cqes[j].op = "cancel" => cqes[j].id # sqes[i].id

\* So is the CQE of a cancel.
CqeCancels ==
  \A i \in DOMAIN cqes : cqes[i].op = "cancel" =>
    /\ cqes[i].id \in queued_cancels \cup freed
    /\ \A j \in DOMAIN cqes : cqes[j].op = "cancel" /\ cqes[j].id = cqes[i].id => j = i

\* One cancel per read, without counting.
CancelStages == queued_cancels \subseteq Owned /\ SqeCancels /\ CqeCancels

\* Steps that queue no cancel and post no cancel's CQE: what the queues hold of
\* cancels they held before, in the same place or one further on.
LEMMA CancelFrame ==
  ASSUME CancelStages, queued_cancels' \subseteq Owned',
         queued_cancels \cup freed \subseteq queued_cancels' \cup freed',
         NEW k \in {0, 1}, NEW l \in {0, 1},
         \A i \in DOMAIN sqes' : i \in Int,
         \A i \in DOMAIN cqes' : i \in Int,
         \A i \in DOMAIN sqes' : sqes'[i].op = "cancel" => i + k \in DOMAIN sqes /\ sqes'[i] = sqes[i + k],
         \A i \in DOMAIN cqes' : cqes'[i].op = "cancel" => i + l \in DOMAIN cqes /\ cqes'[i] = cqes[i + l]
  PROVE  CancelStages'
<1>1. SqeCancels /\ CqeCancels
  BY DEF CancelStages
<1>2. ASSUME NEW i \in DOMAIN sqes', sqes'[i].op = "cancel"
      PROVE  /\ sqes'[i].id \in queued_cancels' \cup freed'
             /\ \A j \in DOMAIN sqes' : sqes'[j] = sqes'[i] => j = i
             /\ \A j \in DOMAIN cqes' : cqes'[j].op = "cancel" => cqes'[j].id # sqes'[i].id
  <2>1. /\ sqes'[i].id \in queued_cancels \cup freed
        /\ \A j \in DOMAIN cqes' : cqes'[j].op = "cancel" => cqes'[j].id # sqes'[i].id
    BY <1>1, <1>2 DEF SqeCancels
  <2>2. ASSUME NEW j \in DOMAIN sqes', sqes'[j] = sqes'[i] PROVE j = i
    <3>1. j + k = i + k
      BY <1>1, <1>2, <2>2 DEF SqeCancels
    <3> QED
      BY <3>1
  <2> QED
    BY <2>1, <2>2
<1>3. ASSUME NEW i \in DOMAIN cqes', cqes'[i].op = "cancel"
      PROVE  /\ cqes'[i].id \in queued_cancels' \cup freed'
             /\ \A j \in DOMAIN cqes' : cqes'[j].op = "cancel" /\ cqes'[j].id = cqes'[i].id => j = i
  <2>1. cqes'[i].id \in queued_cancels \cup freed
    BY <1>1, <1>3 DEF CqeCancels
  <2>2. ASSUME NEW j \in DOMAIN cqes', cqes'[j].op = "cancel", cqes'[j].id = cqes'[i].id PROVE j = i
    <3>1. j + l = i + l
      BY <1>1, <1>3, <2>2 DEF CqeCancels
    <3> QED
      BY <3>1
  <2> QED
    BY <2>1, <2>2
<1> QED
  BY <1>2, <1>3 DEF CancelStages, SqeCancels, CqeCancels

\* queue_cancel skips the reads that have one, and a pending read is not over, so the
\* cancels it queues are the first of their reads.
LEMMA QueueStages ==
  ASSUME Countable, TypeOK, OneStage, CancelStages, NEW S, S \subseteq pending, queue_cancels(S),
         UNCHANGED <<pending, leaked, freed, cqes>>
  PROVE  CancelStages'
<1>0. /\ sqes \in Seq(Sqe) /\ pending \subseteq Reads /\ queued_cancels \subseteq Reads
      /\ DOMAIN sqes = 1..Len(sqes) /\ Len(sqes) \in Nat
  BY DEF TypeOK
<1>1. /\ sqes' \in Seq(Sqe) /\ Len(sqes') >= Len(sqes)
      /\ \A i \in 1..Len(sqes) : sqes'[i] = sqes[i]
      /\ \A i \in 1..Len(sqes') : i > Len(sqes) => sqes'[i].op = "cancel"
      /\ queued_cancels' = queued_cancels \cup S
      /\ \A i \in 1..Len(sqes') : i > Len(sqes) => sqes'[i].id \in S \ queued_cancels
      /\ \A i, j \in 1..Len(sqes') : i > Len(sqes) /\ j > Len(sqes) /\ sqes'[i] = sqes'[j] => i = j
  BY <1>0, QueueCancels
<1>2. DOMAIN sqes' = 1..Len(sqes') /\ \A i \in 1..Len(sqes') : i \in 1..Len(sqes) \/ i > Len(sqes)
  BY <1>0, <1>1
<1>3. S \cap freed = {} /\ queued_cancels' \subseteq Owned'
  BY <1>1 DEF OneStage, TableStage, Owned, CancelStages
<1>4. SqeCancels /\ CqeCancels
  BY DEF CancelStages
<1>5. CqeCancels'
  BY <1>1, <1>4 DEF CqeCancels
<1>6. \A j \in 1..Len(sqes), i \in 1..Len(sqes') : i > Len(sqes) => sqes'[i] # sqes[j]
  <2> SUFFICES ASSUME NEW j \in 1..Len(sqes), NEW i \in 1..Len(sqes'), i > Len(sqes), sqes'[i] = sqes[j]
               PROVE  FALSE
    OBVIOUS
  <2>1. sqes[j].op = "cancel" /\ sqes[j].id \in S \ queued_cancels
    BY <1>1
  <2> QED
    BY <1>0, <1>3, <1>4, <2>1 DEF SqeCancels
<1>7. \A j \in DOMAIN cqes, i \in 1..Len(sqes') :
        i > Len(sqes) /\ cqes[j].op = "cancel" => cqes[j].id # sqes'[i].id
  BY <1>1, <1>3, <1>4 DEF CqeCancels
<1>8. SqeCancels'
  <2> SUFFICES ASSUME NEW i \in 1..Len(sqes'), sqes'[i].op = "cancel"
               PROVE  /\ sqes'[i].id \in queued_cancels' \cup freed
                      /\ \A j \in 1..Len(sqes') : sqes'[j] = sqes'[i] => j = i
                      /\ \A j \in DOMAIN cqes : cqes[j].op = "cancel" => cqes[j].id # sqes'[i].id
    BY <1>2 DEF SqeCancels
  <2>1. CASE i \in 1..Len(sqes)
    <3>1. /\ sqes[i].id \in queued_cancels \cup freed
          /\ \A j \in 1..Len(sqes) : sqes[j] = sqes[i] => j = i
          /\ \A j \in DOMAIN cqes : cqes[j].op = "cancel" => cqes[j].id # sqes[i].id
      <4>1. i \in DOMAIN sqes /\ sqes[i].op = "cancel"
        BY <1>0, <1>1, <2>1
      <4> QED
        BY <1>0, <1>4, <4>1 DEF SqeCancels
    <3> QED
      BY <1>1, <1>2, <1>6, <2>1, <3>1
  <2>2. CASE i > Len(sqes)
    BY <1>1, <1>2, <1>6, <1>7, <2>2
  <2> QED
    BY <1>2, <2>1, <2>2
<1> QED
  BY <1>3, <1>5, <1>8 DEF CancelStages

\* The kernel takes a cancel out of the SQ and posts its CQE: the first of its read.
LEMMA TakeCancel ==
  ASSUME TypeOK, OneStage, CancelStages, KernelTakesCancel
  PROVE  CancelStages'
<1> USE DEF callers, sem, loop, table, ring, memory
<1> DEFINE r == Head(sqes).id
<1>0. cqes \in Seq(Cqe) /\ SqeCancels /\ CqeCancels
  BY DEF TypeOK, CancelStages
<1>1. /\ TakeSqe /\ Head(sqes).op = "cancel" /\ cqes' = Append(cqes, CancelCqe(r))
      /\ UNCHANGED <<queued_cancels, pending, freed, leaked>>
  BY DEF KernelTakesCancel, TakeSqe, Post
<1>2. /\ Head(sqes) = sqes[1] /\ 1 \in DOMAIN sqes /\ Head(sqes) \in Sqe
      /\ \A i \in DOMAIN sqes' : i + 1 \in DOMAIN sqes /\ sqes'[i] = sqes[i + 1] /\ sqes'[i] \in Sqe
  BY <1>1, TailSqes
<1>3. DOMAIN sqes' \subseteq Nat \ {0}
  <2>1. sqes' \in Seq(Sqe)
    BY <1>1, TakeSqeType
  <2> QED
    BY <2>1
<1>4. r \in Reads /\ r \in queued_cancels \cup freed
      /\ \A j \in DOMAIN cqes : cqes[j].op = "cancel" => cqes[j].id # r
  <2>1. sqes[1].op = "cancel" /\ sqes[1].id = r /\ 1 \in DOMAIN sqes
    BY <1>1, <1>2
  <2>2. r \in Reads
    BY <2>1, EntryId
  <2> QED
    BY <1>0, <2>1, <2>2 DEF SqeCancels
<1> HIDE DEF r
<1>5. CancelCqe(r) \in Cqe /\ CancelCqe(r).op = "cancel" /\ CancelCqe(r).id = r
  BY <1>4 DEF CancelCqe, Cqe
<1>6. /\ DOMAIN cqes' = 1..(Len(cqes) + 1) /\ DOMAIN cqes = 1..Len(cqes) /\ Len(cqes) \in Nat
      /\ \A i \in 1..Len(cqes) : cqes'[i] = cqes[i]
      /\ cqes'[Len(cqes) + 1] = CancelCqe(r)
  BY <1>0, <1>1, <1>5, Appended
<1>7. \A i \in DOMAIN cqes' : (i \in DOMAIN cqes /\ cqes'[i] = cqes[i]) \/ i = Len(cqes) + 1
  BY <1>6
<1>8. \A i \in DOMAIN sqes' : sqes'[i].op = "cancel" => sqes'[i].id # r
  <2> SUFFICES ASSUME NEW i \in DOMAIN sqes', sqes'[i].op = "cancel", sqes'[i].id = r PROVE FALSE
    OBVIOUS
  <2>1. sqes[i + 1] = sqes[1]
    BY <1>1, <1>2 DEF Sqe, r
  <2>2. i + 1 = 1
    BY <1>0, <1>1, <1>2, <2>1 DEF SqeCancels
  <2> QED
    BY <1>3, <2>2
<1>9. SqeCancels'
  <2> SUFFICES ASSUME NEW i \in DOMAIN sqes', sqes'[i].op = "cancel"
               PROVE  /\ sqes'[i].id \in queued_cancels \cup freed
                      /\ \A j \in DOMAIN sqes' : sqes'[j] = sqes'[i] => j = i
                      /\ \A j \in DOMAIN cqes' : cqes'[j].op = "cancel" => cqes'[j].id # sqes'[i].id
    BY <1>1 DEF SqeCancels
  <2>1. /\ sqes'[i].id \in queued_cancels \cup freed
        /\ \A j \in DOMAIN cqes : cqes[j].op = "cancel" => cqes[j].id # sqes'[i].id
    BY <1>0, <1>2 DEF SqeCancels
  <2>2. ASSUME NEW j \in DOMAIN sqes', sqes'[j] = sqes'[i] PROVE j = i
    <3>1. j + 1 = i + 1
      <4>1. /\ j + 1 \in DOMAIN sqes /\ i + 1 \in DOMAIN sqes /\ sqes[i + 1].op = "cancel"
            /\ sqes[j + 1] = sqes[i + 1]
        BY <1>2, <2>2
      <4> QED
        BY <1>0, <4>1 DEF SqeCancels
    <3> QED
      BY <1>3, <3>1
  <2>3. \A j \in DOMAIN cqes' : cqes'[j].op = "cancel" => cqes'[j].id # sqes'[i].id
    BY <1>5, <1>6, <1>7, <1>8, <2>1
  <2> QED
    BY <2>1, <2>2, <2>3
<1>10. CqeCancels'
  <2> SUFFICES ASSUME NEW i \in DOMAIN cqes', cqes'[i].op = "cancel"
               PROVE  /\ cqes'[i].id \in queued_cancels \cup freed
                      /\ \A j \in DOMAIN cqes' : cqes'[j].op = "cancel" /\ cqes'[j].id = cqes'[i].id => j = i
    BY <1>1 DEF CqeCancels
  <2>1. CASE i \in DOMAIN cqes /\ cqes'[i] = cqes[i]
    BY <1>0, <1>4, <1>5, <1>6, <1>7, <2>1 DEF CqeCancels
  <2>2. CASE i = Len(cqes) + 1
    BY <1>4, <1>5, <1>6, <1>7, <2>2
  <2> QED
    BY <1>7, <2>1, <2>2
<1> QED
  BY <1>1, <1>9, <1>10 DEF CancelStages, Owned

\* Every step keeps at most one cancel per read.
LEMMA CancelStep ==
  ASSUME Countable, TypeOK, OneStage, CancelStages, [Next]_vars
  PROVE  CancelStages'
<1> USE DEF callers, sem, loop, table, ring, memory
<1>0. /\ sqes \in Seq(Sqe) /\ cqes \in Seq(Cqe) /\ queued_cancels \subseteq Owned
      /\ DOMAIN sqes \subseteq Int /\ DOMAIN cqes \subseteq Int
      /\ \A i \in DOMAIN sqes : i + 0 = i
      /\ \A i \in DOMAIN cqes : i + 0 = i
  <2>1. sqes \in Seq(Sqe) /\ cqes \in Seq(Cqe) /\ queued_cancels \subseteq Owned
    BY DEF TypeOK, CancelStages
  <2> QED
    BY <2>1
<1>1. CASE UNCHANGED <<sqes, cqes, queued_cancels, freed, Owned>>
  BY <1>1 DEF CancelStages, SqeCancels, CqeCancels
<1>2. CASE (\E r \in Reads : Caller(r)) \/ Stopper \/ UNCHANGED vars
  BY <1>1, <1>2, CallersFrame DEF vars, Owned
<1>3. CASE RejectRead \/ Panic \/ EndIntake \/ EndReap \/ EnterReturns \/ EnterRetries
  BY <1>1, <1>3 DEF RejectRead, Panic, EndIntake, EndReap, submit_ring, EnterReturns, EnterRetries, Owned
<1>4. CASE EndTurn \/ DeadlinePasses \/ DrainedExit \/ LeakExit
  BY <1>1, <1>4 DEF EndTurn, DeadlinePasses, DrainedExit, LeakExit, Owned
<1>5. CASE ThreadExit
  <2>1. pending = {}
    BY <1>5 DEF ThreadExit, OneStage, TableStage
  <2> QED
    BY <1>1, <1>5, <2>1 DEF ThreadExit, Owned
<1>6. CASE IntakeRead \/ ReapResubmit
  <2>1. PICK r \in Reads : sqes' = Append(sqes, ReadSqe(r))
    <3>1. CASE IntakeRead
      <4>1. chan # <<>> /\ Head(chan).type = "read" /\ sqes' = Append(sqes, ReadSqe(Head(chan).id))
        BY <3>1 DEF IntakeRead
      <4>2. Head(chan) \in Message
        BY <4>1, FirstMessage
      <4> QED
        BY <4>1, <4>2, MessageKinds
    <3>2. CASE ReapResubmit
      <4>1. NextCqe /\ sqes' = Append(sqes, ReadSqe(Head(cqes).id))
        BY <3>2 DEF ReapResubmit
      <4> QED
        BY <4>1, NextCqeType DEF Cqe
    <3> QED
      BY <1>6, <3>1, <3>2
  <2>2. ReadSqe(r) \in Sqe /\ ReadSqe(r).op = "read"
    BY Entry
  <2>3. /\ \A i \in DOMAIN sqes : i \in DOMAIN sqes' /\ sqes'[i] = sqes[i]
        /\ \A i \in DOMAIN sqes' : i \in DOMAIN sqes \/ (i = Len(sqes) + 1 /\ sqes'[i] = ReadSqe(r))
        /\ DOMAIN sqes' \subseteq Int
    BY <2>1, <2>2, SqeQueued
  <2>4. \A i \in DOMAIN sqes' : sqes'[i].op = "cancel" => i + 0 \in DOMAIN sqes /\ sqes'[i] = sqes[i + 0]
    BY <1>0, <2>2, <2>3
  <2>5. DOMAIN sqes' \subseteq Int
    BY <2>3
  <2>6. UNCHANGED <<queued_cancels, freed, leaked>> /\ pending \subseteq pending'
    BY <1>6 DEF IntakeRead, ReapResubmit
  <2>7. CASE IntakeRead
    <3>1. cqes' = cqes
      BY <2>7 DEF IntakeRead
    <3> QED
      BY <1>0, <2>4, <2>5, <2>6, <3>1, CancelFrame DEF Owned
  <2>8. CASE ReapResubmit
    <3>1. cqes # <<>> /\ cqes' = Tail(cqes)
      BY <2>8, NextCqeType DEF ReapResubmit, NextCqe
    <3>2. \A i \in DOMAIN cqes' : i + 1 \in DOMAIN cqes /\ cqes'[i] = cqes[i + 1]
      BY <3>1, TailCqes
    <3>3. DOMAIN cqes' \subseteq Int
      BY <1>0, <3>1, Numbered
    <3> QED
      BY <1>0, <2>4, <2>5, <2>6, <3>2, <3>3, CancelFrame DEF Owned
  <2> QED
    BY <1>6, <2>7, <2>8
<1>7. CASE IntakeCancel
  <2>1. UNCHANGED <<pending, leaked, freed, cqes>>
    BY <1>7 DEF IntakeCancel
  <2>2. UNCHANGED <<queued_cancels, sqes>> \/ \E x \in pending : queue_cancels({x})
    BY <1>7 DEF IntakeCancel
  <2>3. CASE UNCHANGED <<queued_cancels, sqes>>
    BY <1>1, <2>1, <2>3 DEF Owned
  <2>4. ASSUME NEW x \in pending, queue_cancels({x}) PROVE CancelStages'
    BY <2>1, <2>4, QueueStages
  <2> QED
    BY <2>2, <2>3, <2>4
<1>8. CASE IntakeShutdown \/ EnterFails
  <2>1. UNCHANGED <<pending, leaked, freed, cqes>>
    BY <1>8 DEF IntakeShutdown, EnterFails
  <2>2. UNCHANGED <<queued_cancels, sqes>> \/ queue_cancels(pending)
    BY <1>8 DEF IntakeShutdown, EnterFails, BeginShutdown
  <2>3. CASE UNCHANGED <<queued_cancels, sqes>>
    BY <1>1, <2>1, <2>3 DEF Owned
  <2> QED
    BY <2>1, <2>2, <2>3, QueueStages
<1>9. CASE ReapIgnored \/ ReapFinish
  <2>1. cqes # <<>> /\ cqes' = Tail(cqes) /\ sqes' = sqes
    BY <1>9, NextCqeType DEF ReapIgnored, ReapFinish, NextCqe
  <2>2. \A i \in DOMAIN cqes' : i + 1 \in DOMAIN cqes /\ cqes'[i] = cqes[i + 1]
    BY <2>1, TailCqes
  <2>3. DOMAIN cqes' \subseteq Int
    BY <1>0, <2>1, Numbered
  <2>4. /\ queued_cancels' \subseteq Owned'
        /\ queued_cancels \cup freed \subseteq queued_cancels' \cup freed'
    BY <1>0, <1>9 DEF ReapIgnored, ReapFinish, Owned
  <2> QED
    BY <1>0, <2>1, <2>2, <2>3, <2>4, CancelFrame
<1>10. CASE KernelTakesRead
  <2>1. TakeSqe /\ UNCHANGED <<queued_cancels, pending, freed, leaked, cqes>>
    BY <1>10 DEF KernelTakesRead, TakeSqe
  <2>2. \A i \in DOMAIN sqes' : i + 1 \in DOMAIN sqes /\ sqes'[i] = sqes[i + 1]
    BY <2>1, TailSqes
  <2>3. sqes' \in Seq(Sqe)
    BY <2>1, TakeSqeType
  <2>4. DOMAIN sqes' \subseteq Int
    BY <2>3, Numbered
  <2> QED
    BY <1>0, <2>1, <2>2, <2>4, CancelFrame DEF Owned
<1>11. ASSUME NEW r \in Reads, NEW res \in Results \cup {-ECANCELED}, KernelCompletes(r, res)
       PROVE  CancelStages'
  <2>1. UNCHANGED <<queued_cancels, pending, freed, leaked, sqes>> /\ cqes' = Append(cqes, ReadCqe(r, res))
    BY <1>11 DEF KernelCompletes, Post
  <2>2. ReadCqe(r, res) \in Cqe /\ ReadCqe(r, res).op = "read"
    BY Entry
  <2>3. /\ \A i \in DOMAIN cqes : i \in DOMAIN cqes' /\ cqes'[i] = cqes[i]
        /\ \A i \in DOMAIN cqes' : i \in DOMAIN cqes \/ (i = Len(cqes) + 1 /\ cqes'[i] = ReadCqe(r, res))
        /\ DOMAIN cqes' \subseteq Int
    BY <2>1, <2>2, CqePosted
  <2>4. \A i \in DOMAIN cqes' : cqes'[i].op = "cancel" => i + 0 \in DOMAIN cqes /\ cqes'[i] = cqes[i + 0]
    BY <1>0, <2>2, <2>3
  <2>5. DOMAIN cqes' \subseteq Int
    BY <2>3
  <2> QED
    BY <1>0, <2>1, <2>4, <2>5, CancelFrame DEF Owned
<1> QED
  BY <1>2, <1>3, <1>4, <1>5, <1>6, <1>7, <1>8, <1>9, <1>10, <1>11, TakeCancel
     DEF Next, Driver, Kernel, TakesSqe

\* Whoever is told to stop is cancelled: the cancel message and both shutdown paths
\* queue the cancels they owe, and no other step tells a pending read to stop.
LEMMA ShutdownStep ==
  ASSUME Countable, TypeOK, OneStage, ShutdownCancelsAll, [Next]_vars
  PROVE  ShutdownCancelsAll'
<1> USE DEF callers, sem, loop, table, ring, memory
<1>0. /\ pending \subseteq Reads /\ entry \in [Reads -> Pending] /\ sqes \in Seq(Sqe)
      /\ queued_cancels \subseteq Reads /\ shutting_down \in BOOLEAN
  BY DEF TypeOK
<1>1. CASE UNCHANGED <<pending, entry, shutting_down, queued_cancels>>
  BY <1>1 DEF ShutdownCancelsAll
<1>2. CASE (\E r \in Reads : Caller(r)) \/ Stopper \/ UNCHANGED vars
  BY <1>1, <1>2, CallersFrame DEF vars
<1>3. CASE RejectRead \/ Panic \/ EndIntake \/ EndReap \/ EnterReturns \/ EnterRetries
  BY <1>1, <1>3 DEF RejectRead, Panic, EndIntake, EndReap, submit_ring, EnterReturns, EnterRetries
<1>4. CASE EndTurn \/ DeadlinePasses \/ DrainedExit \/ ReapIgnored
  BY <1>1, <1>4 DEF EndTurn, DeadlinePasses, DrainedExit, ReapIgnored
<1>5. CASE LeakExit \/ ThreadExit
  BY <1>5 DEF LeakExit, ThreadExit, ShutdownCancelsAll
<1>6. CASE Kernel
  BY <1>1, <1>6 DEF Kernel, TakesSqe, KernelTakesRead, KernelTakesCancel, TakeSqe, KernelCompletes
<1>7. CASE IntakeRead
  <2> DEFINE r == Head(chan).id
  <2>1. /\ chan # <<>> /\ Head(chan).type = "read" /\ pending' = pending \cup {r}
        /\ entry' = [entry EXCEPT ![r] = Shape[r]]
        /\ ~shutting_down /\ UNCHANGED <<shutting_down, queued_cancels>>
    BY <1>7 DEF IntakeRead
  <2>2. Head(chan) \in Message
    BY <2>1, FirstMessage
  <2>3. r \in Reads
    BY <2>1, <2>2 DEF Message, ShutdownMsg
  <2> HIDE DEF r
  <2>4. ~Shape[r].cancel_requested
    BY <2>3, ShardAssumption
  <2> QED
    BY <1>0, <2>1, <2>3, <2>4 DEF ShutdownCancelsAll
<1>8. CASE IntakeCancel
  <2> DEFINE r == Head(chan).id
  <2>1. UNCHANGED <<pending, shutting_down>>
    BY <1>8 DEF IntakeCancel
  <2>2. CASE r \in pending
    <3>1. entry' = [entry EXCEPT ![r].cancel_requested = TRUE] /\ queue_cancels({r})
      BY <1>8, <2>2 DEF IntakeCancel
    <3> HIDE DEF r
    <3>2. queued_cancels' = queued_cancels \cup {r}
      BY <3>1 DEF queue_cancels
    <3>3. \A x \in pending : x # r => entry'[x] = entry[x]
      BY <1>0, <3>1
    <3> QED
      BY <2>1, <3>2, <3>3 DEF ShutdownCancelsAll
  <2>3. CASE r \notin pending
    BY <1>1, <1>8, <2>1, <2>3 DEF IntakeCancel
  <2> QED
    BY <2>2, <2>3
<1>9. CASE IntakeShutdown \/ EnterFails
  <2>1. UNCHANGED <<pending, entry>>
    BY <1>9 DEF IntakeShutdown, EnterFails
  <2>2. UNCHANGED <<shutting_down, queued_cancels>> \/ queued_cancels' = queued_cancels \cup pending
    BY <1>9 DEF IntakeShutdown, EnterFails, BeginShutdown, queue_cancels
  <2> QED
    BY <2>1, <2>2 DEF ShutdownCancelsAll
<1>10. CASE ReapFinish
  <2> DEFINE r == Head(cqes).id
  <2>1. /\ pending' = pending \ {r} /\ entry' = [entry EXCEPT ![r] = Shape[r]]
        /\ queued_cancels' = queued_cancels \ {r} /\ UNCHANGED shutting_down
    BY <1>10 DEF ReapFinish
  <2> HIDE DEF r
  <2>2. \A x \in pending' : entry'[x] = entry[x] /\ x \in pending /\ x # r
    BY <1>0, <2>1
  <2> QED
    BY <2>1, <2>2 DEF ShutdownCancelsAll
<1>11. CASE ReapResubmit
  <2> DEFINE r == Head(cqes).id
             step == Step(r, Head(cqes).res)
  <2>1. /\ NextCqe /\ r \in pending /\ step.step = "resubmit" /\ entry' = [entry EXCEPT ![r] = step.p]
        /\ UNCHANGED <<pending, queued_cancels, shutting_down>>
    BY <1>11 DEF ReapResubmit, IsReadCompletion
  <2>3. ~shutting_down /\ ~step.p.cancel_requested
    BY <1>11, ResubmitsRunning
  <2> HIDE DEF step, r
  <2>4. \A x \in pending : entry'[x].cancel_requested => entry[x].cancel_requested
    BY <1>0, <2>1, <2>3
  <2> QED
    BY <2>1, <2>3, <2>4 DEF ShutdownCancelsAll
<1> QED
  BY <1>2, <1>3, <1>4, <1>5, <1>6, <1>7, <1>8, <1>9, <1>10, <1>11 DEF Next, Driver
===============================================================================
