--------------------------- MODULE UringShardProofs ---------------------------
(***************************************************************************)
(* The inductive invariant of UringShard and what follows from it, for any *)
(* number of reads, any depth of the ring, any turn budget and any         *)
(* behaviour of the kernel and the callers that the specification allows.  *)
(***************************************************************************)
EXTENDS UringDriverProofs, FiniteSetTheorems

\* There are finitely many reads, so sets of them can be counted.
LEMMA ReadsFinite ==
  ASSUME NEW S \in SUBSET Reads
  PROVE  IsFiniteSet(S) /\ Cardinality(S) \in Nat /\ (Cardinality(S) = 0 => S = {})
BY ShardAssumption, FS_Subset, FS_CardinalityType, FS_EmptySet

\* What the type lemmas, which count no sets themselves, assume of them.
LEMMA Counting == Countable
BY ReadsFinite DEF Countable

-------------------------------------------------------------------------------
(* The reads that hold a permit in the channel.                            *)

Holding == {"sending", "resuming", "granted"}
Holders(h) == {r \in Reads : h[r] \in Holding}

\* The reads with a queued message, by what the channel holds.
LEMMA QueuedOf ==
  ASSUME NEW c \in Seq(Message)
  PROVE  {m.id : m \in {x \in Range(c) : x.type = "read"}} = {r \in Reads : ReadMsg(r) \in Range(c)}
<1>1. \A m \in Range(c) : m \in Message
  BY DEF Range
<1>2. \A m \in Message : m.type = "read" => m.id \in Reads /\ m = ReadMsg(m.id)
  BY MessageKinds
<1>3. \A r \in Reads : ReadMsg(r).type = "read" /\ ReadMsg(r).id = r
  BY DEF ReadMsg
<1> QED
  BY <1>1, <1>2, <1>3

\* The reads with a queued message are those whose message is in the channel.
LEMMA QueuedAre ==
  ASSUME TypeOK
  PROVE  QueuedReads = {r \in Reads : ReadMsg(r) \in Range(chan)}
<1>1. chan \in Seq(Message)
  BY DEF TypeOK
<1> QED
  BY <1>1, QueuedOf DEF QueuedReads

\* Who has not sent its read holds no permit but the one in its hands.
LEMMA UnsentHolds ==
  ASSUME TypeOK, OneStage, NEW r \in Reads
  PROVE  /\ handle[r] \in Unsent => r \notin QueuedReads /\ r \notin Owned
         /\ r \in QueuedReads => handle[r] \notin Holding /\ r \notin Owned
         /\ r \in Owned => handle[r] \notin Holding
<1>1. MessageStage /\ UnsentStage
  BY DEF OneStage
<1>2. r \in QueuedReads => handle[r] \notin Unsent /\ r \notin Owned
  BY <1>1 DEF MessageStage, QueuedReads, Range
<1>3. handle[r] \in Unsent => r \notin Owned
  BY <1>1 DEF UnsentStage
<1> QED
  BY <1>2, <1>3 DEF Unsent, Holding

\* The reads with a queued message after a send ...
LEMMA QueuedSent ==
  ASSUME TypeOK, NEW m \in Message, chan' = Sent(m)
  PROVE  /\ m.type # "read" \/ pc = "exited" => QueuedReads' = QueuedReads
         /\ pc # "exited" => \A r \in Reads : m = ReadMsg(r) => QueuedReads' = QueuedReads \cup {r}
<1>1. chan' \in Seq(Message)
  <2>1. chan \in Seq(Message)
    BY DEF TypeOK
  <2> QED
    BY <2>1, Appended DEF Sent
<1>2. QueuedReads' = {r \in Reads : ReadMsg(r) \in Range(chan')}
  BY <1>1, QueuedOf DEF QueuedReads, ReadMsg
<1>3. /\ Range(chan) \subseteq Range(chan') /\ Range(chan') \subseteq Range(chan) \cup {m}
      /\ pc = "exited" => chan' = chan
      /\ pc # "exited" => m \in Range(chan')
  BY SentRange
<1>4. \A r \in Reads : ReadMsg(r).type = "read" /\ \A x \in Reads : ReadMsg(x) = ReadMsg(r) => x = r
  BY DEF ReadMsg
<1> QED
  BY <1>2, <1>3, <1>4, QueuedAre

\* ... and after a receive.
LEMMA QueuedTaken ==
  ASSUME TypeOK, OneStage, chan # <<>>, chan' = Tail(chan)
  PROVE  /\ Head(chan).type # "read" => QueuedReads' = QueuedReads
         /\ Head(chan).type = "read" => /\ Head(chan).id \in Reads
                                        /\ Head(chan).id \in QueuedReads
                                        /\ QueuedReads' = QueuedReads \ {Head(chan).id}
<1> DEFINE r == Head(chan).id
<1>1. chan \in Seq(Message) /\ MessageStage
  BY DEF TypeOK, OneStage
<1>2. /\ Head(chan) \in Message /\ chan' \in Seq(Message)
      /\ DOMAIN chan = 1..Len(chan) /\ Len(chan) \in Nat /\ Len(chan) # 0 /\ Head(chan) = chan[1]
      /\ DOMAIN chan' = 1..(Len(chan) - 1)
      /\ \A i \in 1..(Len(chan) - 1) : chan'[i] = chan[i + 1]
  BY <1>1, Received
<1>3. QueuedReads' = {x \in Reads : ReadMsg(x) \in Range(chan')}
  BY <1>2, QueuedOf DEF QueuedReads, ReadMsg
<1>4. Range(chan) = Range(chan') \cup {Head(chan)}
  BY <1>1, RangeTail
<1>5. \A x \in Reads : ReadMsg(x).type = "read" /\ ReadMsg(x).id = x
  BY DEF ReadMsg
<1>6. CASE Head(chan).type # "read"
  BY <1>3, <1>4, <1>5, <1>6, QueuedAre
<1>7. CASE Head(chan).type = "read"
  <2>1. r \in Reads /\ Head(chan) = ReadMsg(r)
    BY <1>2, <1>7 DEF Message, ShutdownMsg, ReadMsg
  <2>2. \A i \in DOMAIN chan' : chan'[i] # Head(chan)
    <3> SUFFICES ASSUME NEW i \in DOMAIN chan', chan'[i] = Head(chan) PROVE FALSE
      OBVIOUS
    <3>1. i + 1 \in DOMAIN chan /\ 1 \in DOMAIN chan /\ i \in Nat /\ i # 0 /\ chan[i + 1] = chan[1]
      BY <1>2
    <3>2. i + 1 = 1
      BY <1>1, <1>2, <1>7, <3>1 DEF MessageStage
    <3> QED
      BY <3>1, <3>2
  <2>3. ReadMsg(r) \notin Range(chan')
    BY <2>1, <2>2 DEF Range
  <2> HIDE DEF r
  <2>4. QueuedReads' = QueuedReads \ {r} /\ r \in QueuedReads
    BY <1>3, <1>4, <1>5, <2>1, <2>3, QueuedAre
  <2> QED
    BY <1>7, <2>1, <2>4 DEF r
<1> QED
  BY <1>6, <1>7

-------------------------------------------------------------------------------
(* The counters.                                                           *)

\* Only acceptance and completion count, and each moves one read into or out of
\* the table.
LEMMA StatsStep ==
  ASSUME TypeOK, OneStage, StatsConserved, [Next]_vars
  PROVE  StatsConserved'
<1> USE DEF callers, sem, loop, table, ring, memory
<1> DEFINE St == [submitted : Nat, delivered : Nat, orphan_reclaimed : Nat, in_flight : Nat]
<1>0. stats \in St /\ IsFiniteSet(Owned) /\ Cardinality(Owned) \in Nat
  BY ReadsFinite DEF TypeOK, Owned
<1>1. CASE UNCHANGED stats /\ Owned' = Owned
  BY <1>1 DEF StatsConserved
<1>2. CASE IntakeRead
  <2> DEFINE r == Head(chan).id
  <2>1. /\ stats' = [stats EXCEPT !.submitted = @ + 1, !.in_flight = @ + 1]
        /\ Owned' = Owned \cup {r}
    BY <1>2 DEF IntakeRead, Owned
  <2>2. r \notin Owned
    <3>1. chan # <<>> /\ Head(chan).type = "read"
      BY <1>2 DEF IntakeRead
    <3>2. Head(chan) = chan[1] /\ 1 \in DOMAIN chan
      BY <3>1 DEF TypeOK
    <3> QED
      BY <3>1, <3>2 DEF OneStage, MessageStage
  <2> HIDE DEF r
  <2>3. Cardinality(Owned') = Cardinality(Owned) + 1
    BY <1>0, <2>1, <2>2, FS_AddElement
  <2>4. /\ stats'.submitted = stats.submitted + 1 /\ stats'.in_flight = stats.in_flight + 1
        /\ stats'.delivered = stats.delivered /\ stats'.orphan_reclaimed = stats.orphan_reclaimed
    BY <1>0, <2>1
  <2> QED
    BY <1>0, <2>3, <2>4 DEF StatsConserved
<1>3. CASE ReapFinish
  <2> DEFINE r == Head(cqes).id
  <2>1. stats' = FinishStats(r) /\ r \in pending /\ pending' = pending \ {r} /\ leaked' = leaked
    BY <1>3 DEF ReapFinish, IsReadCompletion
  <2> HIDE DEF r
  <2>2. r \in Owned /\ Owned' = Owned \ {r}
    BY <2>1 DEF OneStage, TableStage, Owned
  <2>3. Cardinality(Owned') = Cardinality(Owned) - 1
    BY <1>0, <2>2, FS_RemoveElement
  <2>4. /\ stats'.submitted = stats.submitted /\ stats'.in_flight = stats.in_flight - 1
        /\ \/ stats'.delivered = stats.delivered + 1 /\ stats'.orphan_reclaimed = stats.orphan_reclaimed
           \/ stats'.delivered = stats.delivered /\ stats'.orphan_reclaimed = stats.orphan_reclaimed + 1
    BY <1>0, <2>1 DEF FinishStats
  <2> QED
    BY <1>0, <2>3, <2>4 DEF StatsConserved
<1>4. CASE UNCHANGED vars
  BY <1>1, <1>4 DEF vars, Owned
<1>5. CASE (\E r \in Reads : Caller(r)) \/ Stopper
  BY <1>1, <1>5, CallersFrame DEF Owned
<1>6. CASE RejectRead \/ IntakeCancel \/ IntakeShutdown \/ Panic
  BY <1>1, <1>6 DEF RejectRead, IntakeCancel, IntakeShutdown, Panic, Owned
<1>7. CASE EndIntake \/ EndReap \/ EnterReturns \/ EnterRetries \/ EnterFails
  BY <1>1, <1>7 DEF EndIntake, EndReap, submit_ring, EnterReturns, EnterRetries, EnterFails, Owned
<1>8. CASE ReapIgnored \/ ReapResubmit \/ EndTurn \/ DeadlinePasses \/ DrainedExit \/ LeakExit
  BY <1>1, <1>8 DEF ReapIgnored, ReapResubmit, EndTurn, DeadlinePasses, DrainedExit, LeakExit, Owned
<1>9. CASE ThreadExit
  <2>1. pending = {}
    BY <1>9 DEF ThreadExit, OneStage, TableStage
  <2> QED
    BY <1>1, <1>9, <2>1 DEF ThreadExit, Owned
<1>10. CASE Kernel
  BY <1>1, <1>10 DEF Kernel, TakesSqe, KernelTakesRead, KernelTakesCancel, TakeSqe,
     KernelCompletes, Owned
<1> QED
  BY <1>2, <1>3, <1>4, <1>5, <1>6, <1>7, <1>8, <1>9, <1>10 DEF Next, Driver

-------------------------------------------------------------------------------
(* The permits.                                                            *)

\* The permit holders are finitely many reads.
LEMMA Counted ==
  ASSUME TypeOK
  PROVE  /\ PermitHolders = Holders(handle) \cup QueuedReads \cup Owned
         /\ PermitHolders \subseteq Reads /\ IsFiniteSet(PermitHolders)
         /\ Cardinality(PermitHolders) \in Nat /\ permits \in Nat /\ Entries \in Nat
<1>1. PermitHolders = Holders(handle) \cup QueuedReads \cup Owned
  BY DEF PermitHolders, Holders, Holding
<1>2. PermitHolders \subseteq Reads
  <2>1. QueuedReads \subseteq Reads
    BY QueuedAre
  <2>2. Owned \subseteq Reads
    BY DEF TypeOK, Owned
  <2> QED
    BY <1>1, <2>1, <2>2 DEF Holders
<1>3. permits \in Nat /\ Entries \in Nat
  BY ShardAssumption DEF TypeOK
<1> QED
  BY <1>1, <1>2, <1>3, ReadsFinite

\* A permit is taken by somebody who had none.
LEMMA PermitTaken ==
  ASSUME TypeOK, PermitsConserved, NEW r \in Reads, r \notin PermitHolders,
         permits' = permits - 1, PermitHolders' = PermitHolders \cup {r}
  PROVE  PermitsConserved'
<1>1. Cardinality(PermitHolders') = Cardinality(PermitHolders) + 1
  BY Counted, FS_AddElement
<1>2. Cardinality(PermitHolders) \in Nat /\ permits \in Nat
  BY Counted
<1> HIDE DEF PermitHolders
<1> QED
  BY <1>1, <1>2 DEF PermitsConserved

\* A permit is given back: it becomes free, or goes to the first waiter, who had none.
LEMMA PermitReleased ==
  ASSUME TypeOK, OneStage, PermitsConserved, NEW r \in Reads, r \in PermitHolders,
         NEW h \in [Reads -> HandleState], \A x \in Reads : handle[x] = "queued" => h[x] = "queued",
         Release(h), UNCHANGED sem_closed,
         Holders(h) \cup QueuedReads' \cup Owned' = PermitHolders \ {r}
  PROVE  PermitsConserved'
<1> DEFINE K == PermitHolders \ {r}
<1>0. /\ Cardinality(PermitHolders) \in Nat /\ permits \in Nat /\ IsFiniteSet(PermitHolders)
      /\ PermitHolders = Holders(handle) \cup QueuedReads \cup Owned
  BY Counted
<1>1. PermitHolders' = Holders(handle') \cup QueuedReads' \cup Owned'
  BY DEF PermitHolders, Holders, Holding
<1>2. IsFiniteSet(K) /\ Cardinality(K) = Cardinality(PermitHolders) - 1
  BY <1>0, FS_RemoveElement
<1>3. CASE sem_queue = <<>>
  <2>1. permits' = permits + 1 /\ handle' = h
    BY <1>3 DEF Release
  <2>2. PermitHolders' = K
    BY <1>1, <2>1
  <2> HIDE DEF K, PermitHolders
  <2> QED
    BY <1>0, <1>2, <2>1, <2>2 DEF PermitsConserved
<1>4. CASE sem_queue # <<>>
  <2> DEFINE y == Head(sem_queue)
  <2>1. permits' = permits /\ handle' = [h EXCEPT ![y] = "granted"]
    BY <1>4 DEF Release
  <2>2. y \in Reads /\ handle[y] = "queued"
    <3>1. sem_queue \in Seq(Reads) /\ Waiters
      BY DEF TypeOK, OneStage
    <3>2. y = sem_queue[1] /\ 1 \in DOMAIN sem_queue /\ y \in Reads
      BY <1>4, <3>1
    <3> QED
      BY <3>1, <3>2 DEF Waiters
  <2> HIDE DEF y
  <2>3. y \notin PermitHolders
    BY <1>0, <2>2, UnsentHolds DEF Unsent, Holders, Holding
  <2>4. Holders(handle') = Holders(h) \cup {y}
    <3>1. handle'[y] = "granted" /\ \A x \in Reads \ {y} : handle'[x] = h[x]
      BY <2>1, <2>2
    <3> QED
      BY <2>2, <3>1 DEF Holders, Holding
  <2>5. PermitHolders' = K \cup {y}
    BY <1>1, <2>4
  <2>6. Cardinality(PermitHolders') = Cardinality(K) + 1
    BY <1>2, <2>3, <2>5, FS_AddElement
  <2> HIDE DEF K, PermitHolders
  <2> QED
    BY <1>0, <1>2, <2>1, <2>6 DEF PermitsConserved
<1> QED
  BY <1>3, <1>4

\* Steps that move no permit, or move one between its handle, message and entry.
LEMMA PermitKept ==
  ASSUME PermitsConserved, permits' = permits, PermitHolders' = PermitHolders
  PROVE  PermitsConserved'
BY DEF PermitsConserved

\* The callers' steps.
LEMMA PermitCallers ==
  ASSUME TypeOK, OneStage, PermitsConserved, (\E r \in Reads : Caller(r)) \/ Stopper
  PROVE  PermitsConserved'
<1> USE DEF callers, sem, loop, table, ring, memory
<1>0. handle \in [Reads -> HandleState] /\ PermitHolders = Holders(handle) \cup QueuedReads \cup Owned
  BY Counted DEF TypeOK
<1>1. PermitHolders' = Holders(handle') \cup QueuedReads' \cup Owned'
  BY DEF PermitHolders, Holders, Holding
<1>2. Owned' = Owned
  BY CallersFrame DEF Owned
\* A handle changes its state and none else does.
<1>3. ASSUME NEW r \in Reads, NEW v \in HandleState, handle' = [handle EXCEPT ![r] = v]
      PROVE  /\ handle[r] \in Holding <=> v \in Holding => Holders(handle') = Holders(handle)
             /\ v \in Holding => Holders(handle') = Holders(handle) \cup {r}
             /\ v \notin Holding => Holders(handle') = Holders(handle) \ {r}
  <2>1. handle'[r] = v /\ \A x \in Reads \ {r} : handle'[x] = handle[x]
    BY <1>0, <1>3
  <2> QED
    BY <2>1 DEF Holders
\* A handle gives up the permit it holds.
<1>4. ASSUME NEW r \in Reads, handle[r] \in Holding, NEW v \in HandleState, v \notin Holding,
             Release([handle EXCEPT ![r] = v]), UNCHANGED <<sem_closed, QueuedReads>>
      PROVE  PermitsConserved'
  <2> DEFINE h == [handle EXCEPT ![r] = v]
  <2>1. h \in [Reads -> HandleState] /\ h[r] = v /\ \A x \in Reads \ {r} : h[x] = handle[x]
    BY <1>0, <1>4
  <2>2. Release(h) /\ handle[r] # "queued"
    BY <1>4 DEF Holding
  <2> HIDE DEF h
  <2>3. Holders(h) = Holders(handle) \ {r} /\ r \in Holders(handle)
    BY <1>4, <2>1 DEF Holders
  <2>4. r \notin QueuedReads /\ r \notin Owned
    BY <1>4, UnsentHolds DEF Unsent, Holding
  <2>5. Holders(h) \cup QueuedReads' \cup Owned' = PermitHolders \ {r} /\ r \in PermitHolders
    BY <1>0, <1>2, <1>4, <2>3, <2>4
  <2>6. \A x \in Reads : handle[x] = "queued" => h[x] = "queued"
    BY <2>1, <2>2
  <2> QED
    BY <1>4, <2>1, <2>2, <2>5, <2>6, PermitReleased
\* A handle takes a free permit.
<1>5. ASSUME NEW r \in Reads, handle[r] \in Unsent \ Holding, NEW v \in Holding,
             handle' = [handle EXCEPT ![r] = v], permits' = permits - 1, UNCHANGED QueuedReads
      PROVE  PermitsConserved'
  <2>1. r \notin PermitHolders
    BY <1>0, <1>5, UnsentHolds DEF Holders
  <2>2. v \in HandleState
    BY <1>5 DEF Holding, HandleState
  <2>3. PermitHolders' = PermitHolders \cup {r}
    BY <1>0, <1>1, <1>2, <1>3, <1>5, <2>2
  <2> QED
    BY <1>5, <2>1, <2>3, PermitTaken
\* A handle moves and no permit does.
<1>6. ASSUME NEW r \in Reads, NEW v \in HandleState, handle' = [handle EXCEPT ![r] = v],
             handle[r] \in Holding <=> v \in Holding, UNCHANGED <<permits, QueuedReads>>
      PROVE  PermitsConserved'
  <2>1. PermitHolders' = PermitHolders
    BY <1>0, <1>1, <1>2, <1>3, <1>6
  <2> QED
    BY <1>6, <2>1, PermitKept
<1>7. chan' = chan => UNCHANGED QueuedReads
  BY DEF QueuedReads
<1>8. ASSUME NEW r \in Reads, Submit(r) PROVE PermitsConserved'
  <2>1. handle[r] = "idle" /\ UNCHANGED QueuedReads
    BY <1>7, <1>8 DEF Submit
  <2>2. \/ handle' = [handle EXCEPT ![r] = "inert"] /\ permits' = permits
        \/ handle' = [handle EXCEPT ![r] = "sending"] /\ permits' = permits - 1
        \/ handle' = [handle EXCEPT ![r] = "waiting"] /\ permits' = permits
    BY <1>8 DEF Submit
  <2>3. /\ {"inert", "waiting"} \subseteq HandleState \ Holding /\ "sending" \in Holding
        /\ "idle" \in Unsent \ Holding
    BY DEF HandleState, Holding, Unsent
  <2> QED
    BY <1>5, <1>6, <2>1, <2>2, <2>3
<1>9. ASSUME NEW r \in Reads, SendRead(r) PROVE PermitsConserved'
  <2>1. /\ handle[r] \in {"sending", "resuming"} /\ chan' = Sent(ReadMsg(r)) /\ UNCHANGED sem_closed
        /\ ReadMsg(r) \in Message
    BY <1>9 DEF SendRead, ReadMsg, Message
  <2>2. CASE pc = "exited"
    <3> DEFINE v == IF handle[r] = "sending" THEN "inert" ELSE "finished"
    <3>1. Release([handle EXCEPT ![r] = v])
      BY <1>9, <2>2 DEF SendRead, ReceiverGone
    <3>2. v \in HandleState /\ v \notin Holding /\ handle[r] \in Holding
      BY <2>1 DEF HandleState, Holding
    <3> HIDE DEF v
    <3>3. UNCHANGED QueuedReads
      BY <2>1, <2>2, QueuedSent
    <3> QED
      BY <1>4, <2>1, <3>1, <3>2, <3>3
  <2>3. CASE pc # "exited"
    <3>1. handle' = [handle EXCEPT ![r] = "submitted"] /\ permits' = permits
      BY <1>9, <2>3 DEF SendRead, ReceiverGone
    <3>2. QueuedReads' = QueuedReads \cup {r}
      BY <2>1, <2>3, QueuedSent
    <3>3. "submitted" \in HandleState /\ "submitted" \notin Holding /\ handle[r] \in Holding
      BY <2>1 DEF HandleState, Holding
    <3>4. PermitHolders' = PermitHolders
      <4>1. Holders(handle') = Holders(handle) \ {r}
        BY <1>3, <3>1, <3>3
      <4>2. r \in Holders(handle)
        BY <3>3 DEF Holders
      <4> QED
        BY <1>0, <1>1, <1>2, <3>2, <4>1, <4>2
    <3> QED
      BY <3>1, <3>4, PermitKept
  <2> QED
    BY <2>2, <2>3
<1>10. ASSUME NEW r \in Reads, PollAcquire(r) PROVE PermitsConserved'
  <2>1. UNCHANGED <<QueuedReads, sem_closed>> /\ handle[r] \in {"waiting", "queued", "granted"}
    BY <1>7, <1>10 DEF PollAcquire
  <2>2. /\ {"finished", "queued"} \subseteq HandleState \ Holding
        /\ {"granted", "resuming"} \subseteq HandleState \cap Holding
        /\ {"waiting", "queued"} \subseteq Unsent \ Holding
    BY DEF HandleState, Holding, Unsent
  <2>3. \/ handle[r] = "granted" /\ Release([handle EXCEPT ![r] = "finished"])
        \/ handle[r] # "granted" /\ handle' = [handle EXCEPT ![r] = "finished"] /\ permits' = permits
        \/ handle[r] = "granted" /\ handle' = [handle EXCEPT ![r] = "resuming"] /\ permits' = permits
        \/ handle[r] = "waiting" /\ handle' = [handle EXCEPT ![r] = "resuming"] /\ permits' = permits - 1
        \/ handle[r] = "waiting" /\ handle' = [handle EXCEPT ![r] = "queued"] /\ permits' = permits
    BY <1>10 DEF PollAcquire
  <2> QED
    BY <1>4, <1>5, <1>6, <2>1, <2>2, <2>3
<1>11. ASSUME NEW r \in Reads, DropQuietly(r) PROVE PermitsConserved'
  <2>1. /\ UNCHANGED <<QueuedReads, sem_closed>>
        /\ handle[r] \in {"waiting", "queued", "granted", "inert", "submitted"}
    BY <1>7, <1>11 DEF DropQuietly
  <2>2. /\ "dropped" \in HandleState \ Holding /\ "granted" \in Holding
        /\ handle[r] # "granted" => handle[r] \notin Holding
    BY <2>1 DEF HandleState, Holding
  <2>3. \/ handle[r] = "granted" /\ Release([handle EXCEPT ![r] = "dropped"])
        \/ handle[r] # "granted" /\ handle' = [handle EXCEPT ![r] = "dropped"] /\ permits' = permits
    BY <1>11 DEF DropQuietly
  <2> QED
    BY <1>4, <1>6, <2>1, <2>2, <2>3
<1>12. ASSUME NEW r \in Reads, PollResult(r) \/ DropClose(r) \/ DropSend(r) PROVE PermitsConserved'
  <2>1. /\ permits' = permits /\ handle[r] \in {"submitted", "inert", "dropping"}
        /\ \E v \in {"finished", "dropping", "dropped"} : handle' = [handle EXCEPT ![r] = v]
        /\ chan' = chan \/ chan' = Sent(CancelMsg(r))
    BY <1>12 DEF PollResult, DropClose, DropSend
  <2>2. CancelMsg(r) \in Message /\ CancelMsg(r).type # "read"
    BY DEF CancelMsg, Message
  <2>3. UNCHANGED QueuedReads
    BY <1>7, <2>1, <2>2, QueuedSent
  <2>4. {"finished", "dropping", "dropped"} \subseteq HandleState \ Holding /\ handle[r] \notin Holding
    BY <2>1 DEF HandleState, Holding
  <2> QED
    BY <1>6, <2>1, <2>3, <2>4
<1>13. CASE Stopper
  <2>1. /\ UNCHANGED <<handle, permits>> /\ (chan' = chan \/ chan' = Sent(ShutdownMsg))
    BY <1>13 DEF Stopper, CloseAdmission, RequestShutdown, JoinSend, Joined
  <2>2. ShutdownMsg \in Message /\ ShutdownMsg.type # "read"
    BY DEF ShutdownMsg, Message
  <2>3. UNCHANGED QueuedReads
    BY <1>7, <2>1, <2>2, QueuedSent
  <2> QED
    BY <1>0, <1>1, <1>2, <2>1, <2>3, PermitKept
<1> QED
  BY <1>8, <1>9, <1>10, <1>11, <1>12, <1>13 DEF Caller, Poll

\* The driver's intake and reap.
LEMMA PermitDriver ==
  ASSUME TypeOK, OneStage, PermitsConserved,
         RejectRead \/ IntakeRead \/ IntakeCancel \/ IntakeShutdown \/ ReapFinish
  PROVE  PermitsConserved'
<1> USE DEF callers, sem, loop, table, ring, memory
<1>0. handle \in [Reads -> HandleState] /\ PermitHolders = Holders(handle) \cup QueuedReads \cup Owned
  BY Counted DEF TypeOK
<1>1. PermitHolders' = Holders(handle') \cup QueuedReads' \cup Owned'
  BY DEF PermitHolders, Holders, Holding
\* A read that is neither accepted nor pending any longer gives its permit back.
<1>2. ASSUME NEW r \in Reads, r \in QueuedReads \cup Owned, Release(handle), UNCHANGED sem_closed,
             QueuedReads' \cup Owned' = (QueuedReads \cup Owned) \ {r}
      PROVE  PermitsConserved'
  <2>1. r \notin Holders(handle)
    BY <1>2, UnsentHolds DEF Holders
  <2>2. Holders(handle) \cup QueuedReads' \cup Owned' = PermitHolders \ {r} /\ r \in PermitHolders
    BY <1>0, <1>2, <2>1
  <2> QED
    BY <1>0, <1>2, <2>2, PermitReleased
<1>3. CASE RejectRead
  <2> DEFINE r == Head(chan).id
  <2>1. /\ chan # <<>> /\ chan' = Tail(chan) /\ Head(chan).type = "read" /\ Release(handle)
        /\ UNCHANGED sem_closed /\ Owned' = Owned
    BY <1>3 DEF RejectRead, TakeMessage, Owned
  <2>2. r \in Reads /\ r \in QueuedReads /\ QueuedReads' = QueuedReads \ {r}
    BY <2>1, QueuedTaken
  <2> HIDE DEF r
  <2>3. r \notin Owned
    BY <2>2, UnsentHolds
  <2> QED
    BY <1>2, <2>1, <2>2, <2>3
<1>4. CASE IntakeRead
  <2> DEFINE r == Head(chan).id
  <2>1. /\ chan # <<>> /\ chan' = Tail(chan) /\ Head(chan).type = "read"
        /\ UNCHANGED <<handle, permits>> /\ Owned' = Owned \cup {r}
    BY <1>4 DEF IntakeRead, TakeMessage, Owned
  <2>2. r \in Reads /\ r \in QueuedReads /\ QueuedReads' = QueuedReads \ {r}
    BY <2>1, QueuedTaken
  <2> HIDE DEF r
  <2> QED
    BY <1>0, <1>1, <2>1, <2>2, PermitKept
<1>5. CASE IntakeCancel \/ IntakeShutdown
  <2>1. /\ chan # <<>> /\ chan' = Tail(chan) /\ Head(chan).type # "read"
        /\ UNCHANGED <<handle, permits>> /\ Owned' = Owned
    BY <1>5 DEF IntakeCancel, IntakeShutdown, TakeMessage, Owned
  <2>2. QueuedReads' = QueuedReads
    BY <2>1, QueuedTaken
  <2> QED
    BY <1>0, <1>1, <2>1, <2>2, PermitKept
<1>6. CASE ReapFinish
  <2> DEFINE r == Head(cqes).id
  <2>1. r \in pending /\ pending' = pending \ {r} /\ UNCHANGED <<leaked, chan, sem_closed>> /\ Release(handle)
    BY <1>6 DEF ReapFinish, IsReadCompletion
  <2> HIDE DEF r
  <2>2. r \in Reads /\ r \in Owned /\ Owned' = Owned \ {r}
    BY <2>1 DEF TypeOK, OneStage, TableStage, Owned
  <2>3. QueuedReads' = QueuedReads /\ r \notin QueuedReads
    BY <2>1, <2>2, UnsentHolds DEF QueuedReads
  <2> QED
    BY <1>2, <2>1, <2>2, <2>3
<1> QED
  BY <1>3, <1>4, <1>5, <1>6

\* No step loses a permit or releases one twice.
LEMMA PermitStep ==
  ASSUME TypeOK, OneStage, PermitsConserved, [Next]_vars
  PROVE  PermitsConserved'
<1> USE DEF callers, sem, loop, table, ring, memory
<1>1. CASE UNCHANGED <<handle, permits, chan, Owned>>
  BY <1>1, PermitKept DEF PermitHolders, QueuedReads
<1>2. CASE EndIntake \/ EndReap \/ EnterReturns \/ EnterRetries \/ EnterFails \/ Panic
  BY <1>1, <1>2 DEF EndIntake, EndReap, submit_ring, EnterReturns, EnterRetries, EnterFails, Panic, Owned
<1>3. CASE ReapIgnored \/ ReapResubmit \/ EndTurn \/ DeadlinePasses \/ UNCHANGED vars
  BY <1>1, <1>3 DEF ReapIgnored, ReapResubmit, EndTurn, DeadlinePasses, vars, Owned
<1>4. CASE DrainedExit \/ LeakExit
  BY <1>1, <1>4 DEF DrainedExit, LeakExit, CloseSemaphore, Owned
<1>5. CASE Kernel
  BY <1>1, <1>5 DEF Kernel, TakesSqe, KernelTakesRead, KernelTakesCancel, TakeSqe, KernelCompletes, Owned
<1>6. CASE ThreadExit
  <2>1. /\ chan' = <<>> /\ permits' = permits + Cardinality(QueuedReads)
        /\ UNCHANGED <<handle, leaked>> /\ pending' = {} /\ pc = "returning"
    BY <1>6 DEF ThreadExit
  <2>2. Owned' = Owned
    BY <2>1 DEF OneStage, TableStage, Owned
  <2>3. QueuedReads' = {}
    BY <2>1 DEF QueuedReads, Range
  <2>4. PermitHolders = Holders(handle) \cup QueuedReads \cup Owned
    BY Counted
  <2>5. PermitHolders' = Holders(handle') \cup QueuedReads' \cup Owned'
    BY DEF PermitHolders, Holders, Holding
  <2>6. \A r \in QueuedReads : r \in Reads /\ r \notin Holders(handle) /\ r \notin Owned
    BY QueuedAre, UnsentHolds DEF Holders
  <2>7. PermitHolders' = PermitHolders \ QueuedReads /\ PermitHolders \cap QueuedReads = QueuedReads
    BY <2>1, <2>2, <2>3, <2>4, <2>5, <2>6
  <2>8. /\ IsFiniteSet(PermitHolders) /\ Cardinality(PermitHolders) \in Nat
        /\ Cardinality(QueuedReads) \in Nat /\ permits \in Nat
    BY <2>6, Counted, ReadsFinite
  <2>9. Cardinality(PermitHolders') = Cardinality(PermitHolders) - Cardinality(QueuedReads)
    <3>1. IsFiniteSet(QueuedReads)
      BY <2>6, ReadsFinite
    <3> HIDE DEF PermitHolders, QueuedReads
    <3>2. Cardinality(PermitHolders \ QueuedReads)
            = Cardinality(PermitHolders) - Cardinality(PermitHolders \cap QueuedReads)
      BY <2>8, <3>1, FS_Difference
    <3> QED
      BY <2>7, <3>2
  <2> HIDE DEF PermitHolders, QueuedReads
  <2> QED
    BY <2>1, <2>8, <2>9 DEF PermitsConserved
<1> QED
  BY <1>2, <1>3, <1>4, <1>5, <1>6, PermitCallers, PermitDriver DEF Next, Driver

\* At most one cancel per read, counted.
LEMMA CancelCount ==
  ASSUME CancelStages, NEW r \in Reads
  PROVE  Cardinality({i \in DOMAIN sqes : sqes[i] = CancelSqe(r)})
           + Cardinality({i \in DOMAIN cqes : cqes[i] = CancelCqe(r)}) <= 1
<1> DEFINE A == {i \in DOMAIN sqes : sqes[i] = CancelSqe(r)}
           B == {i \in DOMAIN cqes : cqes[i] = CancelCqe(r)}
<1>0. SqeCancels /\ CqeCancels
  BY DEF CancelStages
<1>1. \A i \in A : i \in DOMAIN sqes /\ sqes[i].op = "cancel" /\ sqes[i].id = r
  BY DEF CancelSqe
<1>2. \A i \in B : i \in DOMAIN cqes /\ cqes[i].op = "cancel" /\ cqes[i].id = r
  BY DEF CancelCqe
<1>3. \A i, j \in A : i = j
  BY <1>0, <1>1 DEF SqeCancels
<1>4. \A i, j \in B : i = j
  BY <1>0, <1>2 DEF CqeCancels
<1>5. \A i \in A, j \in B : FALSE
  BY <1>0, <1>1, <1>2 DEF SqeCancels
<1> HIDE DEF A, B
<1>6. ASSUME NEW S, \A i, j \in S : i = j
      PROVE  S = {} \/ \E i : S = {i}
  BY <1>6
<1>7. (A = {} \/ \E i : A = {i}) /\ (B = {} \/ \E i : B = {i}) /\ (A = {} \/ B = {})
  BY <1>3, <1>4, <1>5, <1>6
<1>8. Cardinality({}) = 0 /\ \A i : Cardinality({i}) = 1
  BY FS_EmptySet, FS_Singleton
<1>9. Cardinality(A) \in {0, 1} /\ Cardinality(B) \in {0, 1} /\ (Cardinality(A) = 0 \/ Cardinality(B) = 0)
  BY <1>7, <1>8
<1>10. Cardinality(A) + Cardinality(B) <= 1
  BY <1>9
<1> QED
  BY <1>10 DEF A, B

-------------------------------------------------------------------------------
(* The theorems.                                                           *)

\* The inductive invariant.
Inv == TypeOK /\ OneStage /\ StatsConserved

\* A new shard has nothing in flight.
LEMMA InitInv == Init => Inv
<1> SUFFICES ASSUME Init PROVE Inv
  OBVIOUS
<1>1. SqEntries \in Nat /\ CqEntries \in Nat /\ Entries \in Nat /\ Shape \in [Reads -> Pending]
  <2>1. SqEntries \in Nat /\ Entries \in Nat /\ Shape \in [Reads -> Pending]
    BY ShardAssumption
  <2> QED
    BY <2>1 DEF CqEntries
<1>2. TypeOK
  <2>1. /\ handle \in [Reads -> HandleState] /\ rx_closed \subseteq Reads
        /\ result \in [Reads -> {"none", "ok", "err", "gone"}]
        /\ permits \in Nat /\ sem_queue \in Seq(Reads) /\ sem_closed \in BOOLEAN
        /\ chan \in Seq(Message)
    <3>1. handle \in [Reads -> HandleState]
      BY DEF Init, HandleState
    <3>2. result \in [Reads -> {"none", "ok", "err", "gone"}]
      BY DEF Init
    <3>3. permits \in Nat /\ rx_closed \subseteq Reads /\ sem_closed \in BOOLEAN
      BY <1>1 DEF Init
    <3>4. sem_queue \in Seq(Reads) /\ chan \in Seq(Message)
      BY DEF Init
    <3> QED
      BY <3>1, <3>2, <3>3, <3>4
  <2>2. /\ budget \in [messages : Nat, allocation : Nat, completions : Nat]
        /\ stats \in [submitted : Nat, delivered : Nat, orphan_reclaimed : Nat, in_flight : Nat]
    BY DEF Init, FreshBudget
  <2>3. /\ sqes \in Seq(Sqe) /\ sq_len \in 0..Len(sqes) /\ sq_len <= SqEntries
        /\ cqes \in Seq(Cqe) /\ cq_len \in 0..Len(cqes) /\ cq_len <= CqEntries
    BY <1>1 DEF Init
  <2> QED
    BY <1>1, <2>1, <2>2, <2>3 DEF Init, TypeOK
<1>3. OneStage
  BY DEF Init, OneStage, MessageStage, SqeStage, CqeStage, KernelStage, UnsentStage, TableStage,
         Waiters, Owned
<1>4. StatsConserved
  BY FS_EmptySet DEF Init, StatsConserved, Owned
<1> QED
  BY <1>2, <1>3, <1>4 DEF Inv

\* Every step of every thread keeps the invariant.
LEMMA NextInv == Inv /\ [Next]_vars => Inv'
<1> SUFFICES ASSUME TypeOK, OneStage, StatsConserved, [Next]_vars PROVE Inv'
  BY DEF Inv
<1>1. StatsConserved'
  BY StatsStep
<1>2. CASE (\E r \in Reads : Caller(r)) \/ Stopper
  BY <1>1, <1>2, TypeCallers, StageCallers DEF Inv
<1>3. CASE RejectRead \/ IntakeRead \/ IntakeCancel \/ IntakeShutdown \/ Panic
  BY <1>1, <1>3, Counting, TypeIntake, StageIntake DEF Inv
<1>4. CASE EndIntake \/ EndReap \/ EnterReturns \/ EnterRetries \/ EnterFails
  BY <1>1, <1>4, Counting, TypeSubmit, StageTurn DEF Inv
<1>5. CASE ReapIgnored \/ ReapFinish \/ ReapResubmit
  BY <1>1, <1>5, Counting, TypeReap, StageReap DEF Inv
<1>6. CASE EndTurn \/ DeadlinePasses
  BY <1>1, <1>6, Counting, TypeExit, StageTurn DEF Inv
<1>7. CASE DrainedExit \/ LeakExit \/ ThreadExit
  BY <1>1, <1>7, Counting, TypeExit, StageExit DEF Inv
<1>8. CASE Kernel
  BY <1>1, <1>8, TypeKernel, StageKernel DEF Inv
<1>9. CASE UNCHANGED vars
  <2>1. /\ UNCHANGED <<chan, handle, result, pending, leaked, freed, sqes, cqes, kernel>>
        /\ UNCHANGED <<sem_queue, sem_closed, pc>>
    BY <1>9 DEF vars, callers, sem, loop, table, ring, memory
  <2>2. Owned' = Owned
    BY <2>1 DEF Owned
  <2>3. MessageStage' /\ UnsentStage'
    BY <2>1, <2>2 DEF OneStage, MessageStage, UnsentStage
  <2>4. SqeStage' /\ CqeStage' /\ KernelStage'
    BY <2>1, <2>2 DEF OneStage, SqeStage, CqeStage, KernelStage
  <2>5. TableStage' /\ Waiters'
    BY <2>1, <2>2 DEF OneStage, TableStage, Waiters
  <2>6. OneStage'
    BY <2>3, <2>4, <2>5 DEF OneStage
  <2> QED
    BY <1>1, <1>9, <2>6, TypeStutter DEF Inv
<1> QED
  BY <1>2, <1>3, <1>4, <1>5, <1>6, <1>7, <1>8, <1>9 DEF Next, Driver

\* The invariant holds of every reachable state.
THEOREM Invariance == Spec => []Inv
BY InitInv, NextInv, PTL DEF Spec

\* Every variable keeps its type, and neither ring is ever overfilled.
THEOREM TypeCorrectness == Spec => []TypeOK
<1>1. Inv => TypeOK
  BY DEF Inv
<1> QED
  BY <1>1, Invariance, PTL

\* A read is in one stage at a time, from its handle to its last completion.
THEOREM StagesAreExclusive == Spec => []OneStage
<1>1. Inv => OneStage
  BY DEF Inv
<1> QED
  BY <1>1, Invariance, PTL

\* The counters add up, and in_flight counts the pending and leaked reads.
THEOREM CountersAddUp == Spec => []StatsConserved
<1>1. Inv => StatsConserved
  BY DEF Inv
<1> QED
  BY <1>1, Invariance, PTL

\* Cancel safety: no buffer is freed while the kernel may write to it or an SQE
\* over it is queued, whatever callers, shutdown, a bounded drain or a panic do.
THEOREM CancelSafety == Spec => []NoUseAfterFree
<1>1. Inv => NoUseAfterFree
  <2> SUFFICES ASSUME Inv, NEW r \in Reads, MayBeWritten(r) PROVE r \notin freed
    BY DEF NoUseAfterFree
  <2>1. r \in Owned
    BY DEF Inv, OneStage, KernelStage, SqeStage, MayBeWritten, Range, ReadSqe
  <2> QED
    BY <2>1 DEF Inv, OneStage, TableStage
<1> QED
  BY <1>1, Invariance, PTL

\* A thread that has exited left no read with the kernel whose buffer, and whose
\* ring, it did not leak.
THEOREM ExitIsDrainedOrLeaked == Spec => []CleanExitIsDrained
<1>1. Inv => CleanExitIsDrained
  <2> SUFFICES ASSUME Inv, pc = "exited", NEW r \in Reads, MayBeWritten(r) PROVE r \in leaked
    BY DEF CleanExitIsDrained
  <2>1. r \in Owned
    BY DEF Inv, OneStage, KernelStage, SqeStage, MayBeWritten, Range, ReadSqe
  <2> QED
    BY <2>1 DEF Inv, OneStage, TableStage, Owned
<1> QED
  BY <1>1, Invariance, PTL

\* No permit is lost and none is released twice: the semaphore's free permits and
\* those that handles, queued messages and the table hold make up the ring's entries.
THEOREM PermitsAddUp == Spec => []PermitsConserved
<1>1. Init => PermitsConserved
  <2> SUFFICES ASSUME Init PROVE PermitsConserved
    OBVIOUS
  <2>0. QueuedReads = {}
    <3>1. DOMAIN chan = {}
      BY DEF Init
    <3> QED
      BY <3>1, QueuedMessage
  <2>1. PermitHolders = {}
    BY <2>0 DEF Init, PermitHolders, Owned
  <2>2. permits = Entries /\ Entries \in Nat
    BY ShardAssumption DEF Init
  <2> HIDE DEF PermitHolders
  <2> QED
    BY <2>1, <2>2, FS_EmptySet DEF PermitsConserved
<1>2. Inv /\ PermitsConserved /\ [Next]_vars => PermitsConserved'
  BY PermitStep DEF Inv
<1> QED
  BY <1>1, <1>2, Invariance, PTL DEF Spec

\* What is to be cancelled is cancelled, and once: at most one AsyncCancel per read is
\* ever on its way to the kernel or back, and a shard that shuts down has queued one
\* for every read in its table.
THEOREM CancelsOnce == Spec => []CancelledOnce
<1>1. Init => CancelStages /\ ShutdownCancelsAll
  BY DEF Init, CancelStages, SqeCancels, CqeCancels, ShutdownCancelsAll
<1>2. Inv /\ CancelStages /\ ShutdownCancelsAll /\ [Next]_vars => CancelStages' /\ ShutdownCancelsAll'
  BY Counting, CancelStep, ShutdownStep DEF Inv
<1>3. CancelStages /\ ShutdownCancelsAll => CancelledOnce
  BY CancelCount DEF CancelledOnce, OneCancelPerRead, CancelStages
<1> QED
  BY <1>1, <1>2, <1>3, Invariance, PTL DEF Spec

\* Unless enters fail, a completion waits in the overflow list outside the reap
\* phase only behind a full CQ (submit_if_needed enters for the list alone).
THEOREM OverflowIsFetched == Spec => []OverflowFetched
<1>1. Init => OverflowFetched
  BY DEF Init, OverflowFetched, Overflowed
<1>2. Inv /\ OverflowFetched /\ [Next]_vars => OverflowFetched'
  BY OverflowStep DEF Inv
<1> QED
  BY <1>1, <1>2, Invariance, PTL DEF Spec

\* The two facts hold of every reachable state.
LEMMA Answers == Spec => [](HandedOver /\ ClosedFirst)
<1>1. Init => HandedOver /\ ClosedFirst
  <2>1. Init => HandedOver
    BY DEF Init, HandedOver
  <2>2. Init => ClosedFirst
    BY DEF Init, ClosedFirst, Range
  <2> QED
    BY <2>1, <2>2
<1>2. Inv /\ HandedOver /\ ClosedFirst /\ [Next]_vars => HandedOver' /\ ClosedFirst'
  BY AnswerStep DEF Inv
<1> QED
  BY <1>1, <1>2, Invariance, PTL DEF Spec

\* Nobody who awaits a submitted handle is left waiting by a thread that exited.
THEOREM NobodyIsStranded == Spec => []NobodyStranded
<1>1. Inv /\ HandedOver => NobodyStranded
  <2> SUFFICES ASSUME Inv, HandedOver, pc = "exited", NEW r \in Reads, handle[r] = "submitted"
               PROVE  result[r] # "none"
    BY DEF NobodyStranded
  <2>1. chan = <<>> /\ pending = {}
    BY DEF Inv, HandedOver, OneStage, TableStage
  <2>2. ReadMsg(r) \notin Range(chan)
    BY <2>1 DEF Range
  <2> QED
    BY <2>1, <2>2 DEF HandedOver
<1> QED
  BY <1>1, Answers, Invariance, PTL

\* A read that is told to stop is over: nothing is delivered to a handle that was
\* dropped with a cancel, and no further kernel read is queued for it.
THEOREM StopIsFinal == Spec => StoppedIsOver
<1>1. ASSUME Inv, HandedOver, ClosedFirst, [Next]_vars, NEW r \in Reads
      PROVE  /\ (CancelMsg(r) \in Range(chan) \/ (r \in pending /\ entry[r].cancel_requested))
                  => result'[r] = result[r]
             /\ r \in pending /\ (shutting_down \/ entry[r].cancel_requested)
                  /\ ReadSqe(r) \notin Range(sqes) => ReadSqe(r) \notin Range(sqes')
  <2>1. \A x \in rx_closed : result'[x] = result[x]
    BY <1>1, AnswerStep DEF Inv
  <2>2. CancelMsg(r) \in Range(chan) \/ (r \in pending /\ entry[r].cancel_requested) => r \in rx_closed
    BY <1>1 DEF ClosedFirst
  <2>3. r \in pending /\ (shutting_down \/ entry[r].cancel_requested) /\ ReadSqe(r) \notin Range(sqes)
          => ReadSqe(r) \notin Range(sqes')
    BY <1>1, Counting, NoFurtherRead DEF Inv
  <2> QED
    BY <2>1, <2>2, <2>3
<1>2. Inv /\ (HandedOver /\ ClosedFirst) /\ [Next]_vars =>
        [\A r \in Reads :
           /\ (CancelMsg(r) \in Range(chan) \/ (r \in pending /\ entry[r].cancel_requested))
                => result'[r] = result[r]
           /\ r \in pending /\ (shutting_down \/ entry[r].cancel_requested)
                /\ ReadSqe(r) \notin Range(sqes) => ReadSqe(r) \notin Range(sqes')]_vars
  BY <1>1
<1> QED
  BY <1>2, Invariance, Answers, PTL DEF StoppedIsOver, Spec

\* The shard keeps the promise of ReadOwnership: a buffer is reclaimed only between
\* kernel reads, a read is answered at most once, and a leaked one never succeeds.
THEOREM Refinement == Spec => KeepsOwnership
<1>1. Init => Ownership!Init
  BY DEF Init, Ownership!Init
<1>2. Inv /\ [Next]_vars => [Ownership!Next]_(Ownership!vars)
  BY OwnershipStep DEF Inv
<1> QED
  BY <1>1, <1>2, Invariance, PTL DEF Spec, KeepsOwnership, Ownership!Spec
===============================================================================
