---------------------------- MODULE AdmissionProofs ---------------------------
(***************************************************************************)
(* What closing admission means, proved of ReadAdmission for any number of *)
(* shards, reads, permits and bytes, any of the two shard policies, and    *)
(* any number of threads that close at once.                               *)
(***************************************************************************)
EXTENDS ReadAdmission, TLAPS, WellFoundedInduction, FiniteSetTheorems

-------------------------------------------------------------------------------
(* Closing.                                                                *)

CloserPc == {"idle", "lock", "bytes", "counts", "sweep", "send", "done"}
Field == {"free", "queue", "closed"}

\* The types that closing depends on.
SemType ==
  /\ DOMAIN count = Shards /\ \A s \in Shards : DOMAIN count[s] = Field
  /\ DOMAIN bytes = Field

CloseType ==
  /\ registry \in [closed : BOOLEAN, counts : SUBSET Shards]
  /\ closer \in [Closers -> [pc : CloserPc, taken : SUBSET Shards]]
  /\ DOMAIN thread = Shards

\* A shard's thread closes once, behind its last step.
ClosesLast == \A s \in Shards : thread[s] # "exited" => closer[s].pc = "idle"

\* Every semaphore is registered, closed, or in the hands of a close on its way to it.
Reached ==
  Limited => \A s \in Shards :
    \/ s \in registry.counts \/ count[s].closed
    \/ \E c \in Closers : closer[c].pc \in {"bytes", "counts"} /\ s \in closer[c].taken

\* A registry that was closed has been emptied, and whoever did it closes the bytes.
RegistryClosed ==
  (Limited /\ registry.closed) =>
    /\ registry.counts = {}
    /\ bytes.closed \/ \E c \in Closers : closer[c].pc = "bytes"

\* A closer has closed what it has gone through.
Passed(c) ==
  /\ Limited /\ closer[c].pc \in {"counts", "sweep", "send", "done"} => bytes.closed
  /\ closer[c].pc = "sweep" => \A s \in Shards \ closer[c].taken : count[s].closed
  /\ closer[c].pc = "send" \/ (closer[c].pc = "done" /\ c \in Stoppers) =>
       \A s \in Shards : count[s].closed

CloseInv ==
  /\ SemType /\ CloseType /\ ClosesLast
  /\ Reached /\ RegistryClosed /\ \A c \in Closers : Passed(c)

\* No step opens what is closed.
StaysClosed ==
  /\ \A s \in Shards : count[s].closed => count'[s].closed
  /\ bytes.closed => bytes'.closed

\* A set of naturals has a least element.
LEMMA LeastNatural ==
  ASSUME NEW T \in SUBSET Nat, T # {}
  PROVE  \E x \in T : \A y \in T : x <= y
<1> DEFINE Below == OpToRel(<, Nat)
<1>1. IsWellFoundedOn(Below, Nat)
  BY NatLessThanWellFounded
<1> HIDE DEF Below
<1>2. PICK x \in T : \A y \in T : ~ (<<y, x>> \in Below)
  BY <1>1, WFMin
<1>3. \A y \in T : y < x => <<y, x>> \in Below
  BY <1>2 DEF Below, OpToRel
<1>4. \A y \in T : ~ (y < x)
  BY <1>2, <1>3
<1> QED
  BY <1>4, T \subseteq Nat

\* The semaphore to close next is one of those to close.
LEMMA LeastShard ==
  ASSUME NEW T \in SUBSET Shards, T # {}
  PROVE  Min(T) \in T
<1>1. T \in SUBSET Nat
  BY AdmissionAssumption DEF Shards
<1>2. \E x \in T : \A y \in T : x <= y
  BY <1>1, LeastNatural
<1> QED
  BY <1>2 DEF Min

\* An update of one field of one semaphore leaves the others as they are.
LEMMA CountField ==
  ASSUME SemType, NEW x, NEW v, UNCHANGED bytes,
         \/ count' = [count EXCEPT ![x].free = v]
         \/ count' = [count EXCEPT ![x].queue = v]
  PROVE  StaysClosed /\ SemType'
  BY DEF SemType, StaysClosed, Field

\* Likewise for the byte semaphore.
LEMMA BytesField ==
  ASSUME SemType, NEW v, NEW w, UNCHANGED count,
         \/ bytes' = [bytes EXCEPT !.free = v]
         \/ bytes' = [bytes EXCEPT !.free = v, !.queue = w]
  PROVE  StaysClosed /\ SemType'
  BY DEF SemType, StaysClosed, Field

\* What the callers do opens no semaphore.
LEMMA ReadsKeepClosed ==
  ASSUME SemType, NEW r \in Reads, Submit(r) \/ Running(r) \/ Poll(r) \/ DropWaiting(r) \/ Complete(r)
  PROVE  StaysClosed /\ SemType'
<1> USE DEF scan, reader, sems
<1>1. CASE UNCHANGED sems
  BY <1>1 DEF SemType, StaysClosed
<1>2. CASE Submit(r) \/ CheckBytes(r) \/ RoundRobinMiss(r) \/ ScanMiss(r) \/ EndScan(r)
  BY <1>1, <1>2 DEF Submit, CheckBytes, RoundRobinMiss, ScanMiss, EndScan
<1>3. CASE SendRead(r) \/ Complete(r)
  BY <1>1, <1>3 DEF SendRead, Complete
<1>4. CASE TakeCount(r)
  BY <1>4, CountField DEF TakeCount
<1>5. CASE TryBytes(r)
  BY <1>1, <1>5, BytesField DEF TryBytes
<1>6. CASE ReturnCount(r)
  BY <1>6, CountField DEF ReturnCount, ReleaseCount
<1>7. CASE ReturnBytes(r)
  BY <1>7, BytesField DEF ReturnBytes, ReleaseBytes
<1>8. CASE PollCount(r)
  BY <1>1, <1>8, CountField DEF PollCount
<1>9. CASE PollBytes(r)
  BY <1>1, <1>9, BytesField DEF PollBytes
<1>10. CASE DropWaiting(r)
  <2>1. /\ count' = [s \in Shards |-> [count[s] EXCEPT !.queue = Without(@, r)]]
        /\ bytes' = [bytes EXCEPT !.queue = Without(@, r)]
    BY <1>10 DEF DropWaiting
  <2> QED
    BY <2>1 DEF SemType, StaysClosed, Field
<1> QED
  BY <1>2, <1>3, <1>4, <1>5, <1>6, <1>7, <1>8, <1>9, <1>10 DEF Running, Poll

\* No step opens a semaphore that is closed.
LEMMA KeepsClosed ==
  ASSUME SemType, [Next]_vars
  PROVE  StaysClosed /\ SemType'
<1> USE DEF scan, reader, sems
<1>1. CASE UNCHANGED sems
  BY <1>1 DEF SemType, StaysClosed
<1>2. CASE UNCHANGED vars
  BY <1>1, <1>2 DEF vars
<1>3. ASSUME NEW x, count' = [count EXCEPT ![x] = Closed(@)], UNCHANGED bytes
      PROVE  StaysClosed /\ SemType'
  BY <1>3 DEF SemType, StaysClosed, Field, Closed
<1>4. ASSUME NEW s \in Shards, BeginDrain(s) \/ Exit(s)
      PROVE  StaysClosed /\ SemType'
  BY <1>1, <1>3, <1>4 DEF BeginDrain, Exit, EndDrain, DropReceiver, ThreadCloses
<1>5. ASSUME NEW c \in Closers, RequestShutdown(c) \/ Close(c)
      PROVE  StaysClosed /\ SemType'
  <2>1. CASE CloseBytes(c)
    BY <2>1 DEF CloseBytes, Closed, SemType, StaysClosed, Field
  <2>2. CASE CloseCount(c)
    BY <1>3, <2>2 DEF CloseCount
  <2> QED
    BY <1>1, <1>5, <2>1, <2>2 DEF RequestShutdown, Close, CloseRegistry, EndClose, SendShutdown
<1> QED
  BY <1>2, <1>4, <1>5, ReadsKeepClosed DEF Next

\* What a closer has gone through stays closed.
LEMMA PassedStays ==
  ASSUME StaysClosed, NEW d \in Closers, Passed(d), closer'[d] = closer[d]
  PROVE  Passed(d)'
  BY DEF StaysClosed, Passed

\* What a closer has taken is on its way until it is closed.
LEMMA ReachedStays ==
  ASSUME StaysClosed, Reached, UNCHANGED registry,
         \A d \in Closers : closer[d].pc \in {"bytes", "counts"} => \A s \in closer[d].taken :
           \/ count'[s].closed
           \/ closer'[d].pc \in {"bytes", "counts"} /\ s \in closer'[d].taken
  PROVE  Reached'
  BY DEF StaysClosed, Reached

\* Whoever closed the registry closes the bytes.
LEMMA RegistryStays ==
  ASSUME StaysClosed, RegistryClosed, UNCHANGED registry,
         \A d \in Closers : closer[d].pc = "bytes" => bytes'.closed \/ closer'[d].pc = "bytes"
  PROVE  RegistryClosed'
  BY DEF StaysClosed, RegistryClosed

\* A step of nobody who closes.
LEMMA NoCloser ==
  ASSUME CloseInv, StaysClosed, SemType', UNCHANGED <<registry, closer>>, DOMAIN thread' = Shards,
         \A s \in Shards : thread[s] = "exited" => thread'[s] = "exited"
  PROVE  CloseInv'
<1>1. CloseType' /\ ClosesLast'
  BY DEF CloseInv, CloseType, ClosesLast
<1>2. Reached' /\ RegistryClosed'
  BY ReachedStays, RegistryStays DEF CloseInv
<1>3. \A d \in Closers : Passed(d)'
  BY PassedStays DEF CloseInv
<1> QED
  BY <1>1, <1>2, <1>3 DEF CloseInv

\* The steps of one who closes admission, and the step by which a thread begins to.
LEMMA CloserStep ==
  ASSUME CloseInv, StaysClosed, SemType', NEW c \in Closers,
         RequestShutdown(c) \/ Close(c) \/ (c \in Shards /\ ThreadCloses(c))
  PROVE  CloseInv'
<1> USE DEF scan, reader, sems
<1>0. /\ closer \in [Closers -> [pc : CloserPc, taken : SUBSET Shards]]
      /\ registry \in [closed : BOOLEAN, counts : SUBSET Shards]
      /\ DOMAIN thread = Shards /\ Shards \subseteq Closers
  BY DEF CloseInv, CloseType, Closers
<1>00. ClosesLast /\ Reached /\ RegistryClosed /\ \A d \in Closers : Passed(d)
  BY DEF CloseInv
<1>1. ASSUME NEW v \in [pc : CloserPc, taken : SUBSET Shards], closer' = [closer EXCEPT ![c] = v],
             Passed(c)', UNCHANGED registry,
             c \in Shards => thread'[c] = "exited", DOMAIN thread' = Shards,
             \A s \in Shards : thread[s] = "exited" => thread'[s] = "exited",
             closer[c].pc = "bytes" => bytes'.closed \/ v.pc = "bytes",
             closer[c].pc \in {"bytes", "counts"} => \A s \in closer[c].taken :
               count'[s].closed \/ (v.pc \in {"bytes", "counts"} /\ s \in v.taken)
      PROVE  CloseInv'
  <2>1. closer'[c] = v /\ \A d \in Closers : d # c => closer'[d] = closer[d]
    BY <1>0, <1>1
  <2>2. CloseType'
    BY <1>0, <1>1 DEF CloseType
  <2>3. ClosesLast'
    BY <1>0, <1>00, <1>1, <2>1 DEF ClosesLast
  <2>4. Reached'
    BY <1>00, <1>1, <2>1, ReachedStays
  <2>5. RegistryClosed'
    BY <1>00, <1>1, <2>1, RegistryStays
  <2>6. \A d \in Closers : Passed(d)'
    BY <1>00, <1>1, <2>1, PassedStays
  <2> QED
    BY <2>2, <2>3, <2>4, <2>5, <2>6 DEF CloseInv
<1>2. closer[c].pc # "idle" /\ c \in Shards => thread[c] = "exited"
  BY <1>00 DEF ClosesLast
<1>3. CASE RequestShutdown(c)
  <2> DEFINE v == [pc |-> IF Limited THEN "lock" ELSE "sweep", taken |-> Shards]
  <2>1. /\ c \notin Shards /\ closer[c].pc = "idle" /\ closer' = [closer EXCEPT ![c] = v]
        /\ UNCHANGED <<registry, thread>>
    BY <1>3, AdmissionAssumption DEF RequestShutdown
  <2>2. v \in [pc : CloserPc, taken : SUBSET Shards] /\ closer'[c] = v
    BY <1>0, <2>1 DEF CloserPc
  <2>3. Passed(c)'
    BY <2>1, <2>2 DEF Passed
  <2> HIDE DEF v
  <2> QED
    BY <1>0, <1>1, <2>1, <2>2, <2>3
<1>4. CASE c \in Shards /\ ThreadCloses(c)
  <2> DEFINE v == [closer[c] EXCEPT !.pc = IF Limited THEN "lock" ELSE "idle"]
  <2>1. /\ thread[c] = "dropping" /\ thread' = [thread EXCEPT ![c] = "exited"]
        /\ closer' = [closer EXCEPT ![c] = v] /\ UNCHANGED registry
    BY <1>4 DEF ThreadCloses
  <2>2. v \in [pc : CloserPc, taken : SUBSET Shards] /\ closer'[c] = v /\ closer[c].pc = "idle"
    BY <1>0, <1>00, <1>4, <2>1 DEF CloserPc, ClosesLast
  <2>3. Passed(c)'
    BY <1>0, <2>2 DEF Passed
  <2>4. DOMAIN thread' = Shards /\ \A s \in Shards : s = c \/ thread[s] = "exited" => thread'[s] = "exited"
    BY <1>0, <2>1
  <2> HIDE DEF v
  <2> QED
    BY <1>0, <1>1, <1>4, <2>1, <2>2, <2>3, <2>4
<1>5. CASE CloseRegistry(c)
  <2> DEFINE v == [pc |-> "bytes", taken |-> registry.counts]
  <2>1. /\ closer[c].pc = "lock" /\ closer' = [closer EXCEPT ![c] = v]
        /\ registry' = [closed |-> TRUE, counts |-> {}] /\ UNCHANGED thread
    BY <1>5 DEF CloseRegistry
  <2>2. /\ v \in [pc : CloserPc, taken : SUBSET Shards]
        /\ closer'[c] = v /\ \A d \in Closers : d # c => closer'[d] = closer[d]
    BY <1>0, <2>1 DEF CloserPc
  <2>3. CloseType'
    BY <1>0, <2>1, <2>2 DEF CloseType
  <2>4. ClosesLast'
    BY <1>0, <1>00, <1>2, <2>1, <2>2 DEF ClosesLast
  <2>5. Reached'
    BY <1>00, <2>1, <2>2 DEF Reached, StaysClosed
  <2>6. RegistryClosed'
    BY <2>1, <2>2 DEF RegistryClosed
  <2>7. \A d \in Closers : Passed(d)'
    BY <1>00, <2>2, PassedStays DEF Passed
  <2> QED
    BY <2>3, <2>4, <2>5, <2>6, <2>7 DEF CloseInv
<1>6. CASE CloseBytes(c)
  <2> DEFINE v == [closer[c] EXCEPT !.pc = "counts"]
  <2>1. /\ closer[c].pc = "bytes" /\ closer' = [closer EXCEPT ![c] = v]
        /\ bytes' = Closed(bytes) /\ UNCHANGED <<registry, thread>>
    BY <1>6 DEF CloseBytes
  <2>2. /\ v \in [pc : CloserPc, taken : SUBSET Shards] /\ closer'[c] = v
        /\ v.pc = "counts" /\ v.taken = closer[c].taken
    BY <1>0, <2>1 DEF CloserPc
  <2>3. bytes'.closed
    BY <2>1 DEF Closed, CloseInv, SemType, Field
  <2>4. Passed(c)'
    BY <2>2, <2>3 DEF Passed
  <2> HIDE DEF v
  <2> QED
    BY <1>0, <1>1, <1>2, <2>1, <2>2, <2>3, <2>4
<1>7. CASE CloseCount(c)
  <2> DEFINE s == Min(closer[c].taken)
             v == [closer[c] EXCEPT !.taken = closer[c].taken \ {s}]
  <2>1. /\ closer[c].pc \in {"counts", "sweep"} /\ closer[c].taken # {}
        /\ closer' = [closer EXCEPT ![c] = v]
        /\ count' = [count EXCEPT ![s] = Closed(@)] /\ UNCHANGED <<registry, thread, bytes>>
    BY <1>7 DEF CloseCount, Rest
  <2>2. s \in closer[c].taken /\ s \in Shards
    BY <1>0, <2>1, LeastShard
  <2> HIDE DEF s
  <2>3. /\ v \in [pc : CloserPc, taken : SUBSET Shards] /\ closer'[c] = v
        /\ v.pc = closer[c].pc /\ v.taken = closer[c].taken \ {s}
    BY <1>0, <2>1
  <2>4. count'[s].closed
    BY <2>1, <2>2 DEF Closed, CloseInv, SemType, Field
  <2> HIDE DEF v
  <2>5. Passed(c)'
    BY <1>00, <2>1, <2>3, <2>4 DEF Passed, StaysClosed
  <2> QED
    BY <1>0, <1>1, <1>2, <2>1, <2>2, <2>3, <2>4, <2>5
<1>8. CASE EndClose(c)
  <2> DEFINE v == IF closer[c].pc = "sweep" THEN [pc |-> "send", taken |-> Shards]
                  ELSE IF c \in Stoppers THEN [pc |-> "sweep", taken |-> Shards]
                  ELSE [pc |-> "done", taken |-> {}]
  <2>1. /\ closer[c].pc \in {"counts", "sweep"} /\ closer[c].taken = {}
        /\ closer' = [closer EXCEPT ![c] = v] /\ UNCHANGED <<registry, thread, sems>>
    BY <1>8 DEF EndClose
  <2>2. v \in [pc : CloserPc, taken : SUBSET Shards] /\ closer'[c] = v
    BY <1>0, <2>1 DEF CloserPc
  <2>3. Passed(c)'
    BY <1>00, <2>1, <2>2 DEF Passed
  <2> HIDE DEF v
  <2> QED
    BY <1>0, <1>1, <1>2, <2>1, <2>2, <2>3
<1>9. CASE SendShutdown(c)
  <2> DEFINE s == Min(closer[c].taken)
             rest == closer[c].taken \ {s}
             v == [pc |-> IF rest = {} THEN "done" ELSE "send", taken |-> rest]
  <2>1. /\ closer[c].pc = "send" /\ closer' = [closer EXCEPT ![c] = v]
        /\ thread' = [thread EXCEPT ![s] = IF @ = "running" THEN "asked" ELSE @]
        /\ UNCHANGED <<registry, sems>>
    BY <1>9 DEF SendShutdown
  <2> HIDE DEF s
  <2>2. v \in [pc : CloserPc, taken : SUBSET Shards] /\ closer'[c] = v /\ v.pc \in {"done", "send"}
    BY <1>0, <2>1 DEF CloserPc
  <2> HIDE DEF rest, v
  <2>3. Passed(c)'
    BY <1>00, <2>1, <2>2 DEF Passed
  <2>4. DOMAIN thread' = Shards /\ \A x \in Shards : thread[x] = "exited" => thread'[x] = "exited"
    BY <1>0, <2>1
  <2> QED
    BY <1>0, <1>1, <1>2, <2>1, <2>2, <2>3, <2>4
<1> QED
  BY <1>3, <1>4, <1>5, <1>6, <1>7, <1>8, <1>9 DEF Close

\* Admission starts open, with every semaphore registered.
LEMMA InitClose == Init => CloseInv
<1> SUFFICES ASSUME Init PROVE CloseInv
  OBVIOUS
<1>1. SemType
  BY DEF Init, SemType, NewSemaphore, Field
<1>2. CloseType /\ ClosesLast
  BY DEF Init, CloseType, ClosesLast, CloserPc, Closers
<1>3. Reached /\ RegistryClosed
  BY DEF Init, Reached, RegistryClosed
<1>4. \A c \in Closers : Passed(c)
  BY DEF Init, Passed
<1> QED
  BY <1>1, <1>2, <1>3, <1>4 DEF CloseInv

\* Every step preserves what closing has reached.
LEMMA NextClose ==
  ASSUME CloseInv, [Next]_vars
  PROVE  CloseInv'
<1> USE DEF scan, reader, sems
<1>1. StaysClosed /\ SemType'
  BY KeepsClosed DEF CloseInv
<1>2. DOMAIN thread = Shards
  BY DEF CloseInv, CloseType
<1>3. CASE UNCHANGED <<registry, closer, thread>>
  BY <1>1, <1>2, <1>3, NoCloser
<1>4. CASE UNCHANGED vars
  BY <1>3, <1>4 DEF vars
<1>5. ASSUME NEW r \in Reads, Submit(r) \/ Running(r) \/ Poll(r) \/ DropWaiting(r) \/ Complete(r)
      PROVE  CloseInv'
  <2>1. CASE Running(r)
    BY <1>3, <2>1 DEF Running, CheckBytes, TakeCount, RoundRobinMiss, ScanMiss, EndScan, TryBytes,
       SendRead, ReturnCount, ReturnBytes
  <2> QED
    BY <1>3, <1>5, <2>1 DEF Submit, Poll, PollCount, PollBytes, DropWaiting, Complete
<1>6. ASSUME NEW s \in Shards, BeginDrain(s) \/ Exit(s)
      PROVE  CloseInv'
  <2>1. CASE ThreadCloses(s)
    BY <1>1, <2>1, CloserStep DEF Closers
  <2>2. CASE BeginDrain(s) \/ EndDrain(s) \/ DropReceiver(s)
    <3>1. /\ UNCHANGED <<registry, closer>> /\ thread[s] # "exited"
          /\ \E t : thread' = [thread EXCEPT ![s] = t]
      BY <2>2 DEF BeginDrain, EndDrain, DropReceiver
    <3>2. DOMAIN thread' = Shards /\ \A x \in Shards : thread[x] = "exited" => thread'[x] = "exited"
      BY <1>2, <3>1
    <3> QED
      BY <1>1, <3>1, <3>2, NoCloser
  <2> QED
    BY <1>6, <2>1, <2>2 DEF Exit
<1>7. ASSUME NEW c \in Closers, RequestShutdown(c) \/ Close(c)
      PROVE  CloseInv'
  BY <1>1, <1>7, CloserStep
<1> QED
  BY <1>4, <1>5, <1>6, <1>7 DEF Next

\* What every closing thread has gone through is closed, and what it has not is still
\* registered or in somebody's hands.
THEOREM CloseInvariance == Spec => []CloseInv
<1>1. CloseInv /\ [Next]_vars => CloseInv'
  BY NextClose
<1> QED
  BY InitClose, <1>1, PTL DEF Spec

\* Nobody who closes admission leaves any of it open: once the registry is closed and no
\* close is in progress every semaphore is, and each request_shutdown, however many run
\* at once and with whatever shards exiting, closes all admission before it returns.
THEOREM AdmissionCloses == Spec => []ClosedForAll
<1>1. CloseInv => ClosedForAll
  <2> SUFFICES ASSUME CloseInv PROVE ClosedForAll
    OBVIOUS
  <2>1. CloseIsComplete
    BY DEF CloseInv, CloseIsComplete, Closing, Reached, RegistryClosed
  <2>2. ShutdownClosesAll
    BY DEF CloseInv, ShutdownClosesAll, Passed, Closers
  <2> QED
    BY <2>1, <2>2 DEF ClosedForAll
<1> QED
  BY CloseInvariance, <1>1, PTL

-------------------------------------------------------------------------------
(* Selecting a shard.                                                      *)

Selecting == {"idle", "check", "scan", "scanned", "refused"}

\* Where a read may go once it has returned its permits.
Endings == {"refused", "deferred", "failed", "dropped", "done"}

ScanType ==
  /\ rr \in Shards /\ start \in [Reads -> Shards] /\ at \in [Reads -> Shards]
  /\ waiting \in [Reads -> Shards \cup {NoShard}] /\ owner \in [Reads -> Shards \cup {NoShard}]
  /\ DOMAIN pc = Reads /\ DOMAIN after = Reads

\* Who waits at a semaphore is bound to a shard.
BoundTo(q, o) == q \in Seq(Reads) /\ \A i \in DOMAIN q : o[q[i]] # NoShard
Queues == BoundTo(bytes.queue, owner) /\ \A s \in Shards : BoundTo(count[s].queue, owner)

\* The shards that r's scan meets before t are closed.
ClosedBefore(r, t) == \A s \in Shards : ScanOrder(r, s) < ScanOrder(r, t) => count[s].closed

\* How far the scan of a read has come, by what its caller is doing.
Scanning(r) ==
  /\ pc[r] \in {"idle", "check"} => waiting[r] = NoShard
  /\ pc[r] = "check" => Limited /\ capacity_aware(r) /\ at[r] = start[r]
  /\ pc[r] = "scan" => IF capacity_aware(r) THEN waiting[r] = NoShard => ClosedBefore(r, at[r])
                       ELSE at[r] = start[r]
  /\ pc[r] = "scanned" => capacity_aware(r) /\
       (waiting[r] = NoShard => \A s \in Shards : count[s].closed)
  /\ capacity_aware(r) /\ waiting[r] # NoShard => ClosedBefore(r, waiting[r])

\* What a read is refused for.
Refusal(r) ==
  \/ Limited /\ bytes.closed
  \/ ~capacity_aware(r) /\ count[start[r]].closed
  \/ capacity_aware(r) /\ \A s \in Shards : count[s].closed

\* What is known of a read that is refused, or that holds or waits for permits.
Selected(r) ==
  /\ pc[r] = "refused" => Refusal(r)
  /\ pc[r] \notin Selecting => owner[r] # NoShard
  /\ pc[r] = "trybytes" => Limited
  /\ pc[r] \in {"retiring", "unwinding"} => after[r] \in Endings
  /\ after[r] = "refused" => Limited /\ bytes.closed

ReadsInv == \A r \in Reads : Scanning(r) /\ Selected(r)

ScanInv == ScanType /\ Queues /\ ReadsInv

\* No shard has the index that stands for none.
LEMMA NoShardIsNone == NoShard \notin Shards /\ Shards \subseteq Int
  BY AdmissionAssumption DEF Shards, NoShard

\* The place of shard s in a scan that begins at t: the start comes first.
LEMMA Order ==
  ASSUME NEW t \in Shards, NEW s \in Shards
  PROVE  /\ (s - t + NShards) % NShards = IF s >= t THEN s - t ELSE s - t + NShards
         /\ ~((s - t + NShards) % NShards < (t - t + NShards) % NShards)
<1>0. NShards \in Nat \ {0} /\ s \in 0..(NShards - 1) /\ t \in 0..(NShards - 1)
  BY AdmissionAssumption DEF Shards
<1>1. ASSUME NEW x \in 0..(NShards - 1)
      PROVE  (x - t + NShards) % NShards = IF x >= t THEN x - t ELSE x - t + NShards
  <2> DEFINE d == x - t
  <2>1. CASE x >= t
    <3>1. d \in 0..(NShards - 1)
      BY <1>0, <1>1, <2>1
    <3> HIDE DEF d
    <3>2. (d + NShards) % NShards = d
      BY <1>0, <3>1
    <3> QED
      BY <2>1, <3>2 DEF d
  <2>2. CASE ~(x >= t)
    <3>1. d + NShards \in 0..(NShards - 1)
      BY <1>0, <1>1, <2>2
    <3> HIDE DEF d
    <3>2. (d + NShards) % NShards = d + NShards
      BY <1>0, <3>1
    <3> QED
      BY <2>2, <3>2 DEF d
  <2> QED
    BY <2>1, <2>2
<1>2. /\ (s - t + NShards) % NShards = IF s >= t THEN s - t ELSE s - t + NShards
      /\ (t - t + NShards) % NShards = IF t >= t THEN t - t ELSE t - t + NShards
  BY <1>0, <1>1
<1> QED
  BY <1>0, <1>2

\* Each shard of a scan comes right behind the one before, and the last before the start.
LEMMA ScanGoesOn ==
  ASSUME NEW r \in Reads, start[r] \in Shards, NEW a \in Shards, NEW s \in Shards
  PROVE  /\ (a + 1) % NShards \in Shards
         /\ (a + 1) % NShards = start[r] \/ ScanOrder(r, s) < ScanOrder(r, (a + 1) % NShards)
              => s = a \/ ScanOrder(r, s) < ScanOrder(r, a)
<1> DEFINE b == (a + 1) % NShards
<1>0. /\ NShards \in Nat \ {0} /\ s \in 0..(NShards - 1) /\ a \in 0..(NShards - 1)
      /\ start[r] \in 0..(NShards - 1)
  BY AdmissionAssumption DEF Shards
<1>1. b = IF a + 1 = NShards THEN 0 ELSE a + 1
  <2>1. CASE a + 1 = NShards
    BY <1>0, <2>1
  <2>2. CASE a + 1 # NShards
    <3> DEFINE e == a + 1
    <3>1. e \in 0..(NShards - 1)
      BY <1>0, <2>2
    <3> HIDE DEF e
    <3>2. e % NShards = e
      BY <1>0, <3>1
    <3> QED
      BY <2>2, <3>2 DEF e
  <2> QED
    BY <2>1, <2>2
<1> HIDE DEF b
<1>2. b \in Shards
  BY <1>0, <1>1 DEF Shards
<1>3. /\ ScanOrder(r, s) = IF s >= start[r] THEN s - start[r] ELSE s - start[r] + NShards
      /\ ScanOrder(r, a) = IF a >= start[r] THEN a - start[r] ELSE a - start[r] + NShards
      /\ ScanOrder(r, b) = IF b >= start[r] THEN b - start[r] ELSE b - start[r] + NShards
  BY <1>2, Order DEF ScanOrder
<1>4. ASSUME b = start[r] \/ ScanOrder(r, s) < ScanOrder(r, b), s # a
      PROVE  ScanOrder(r, s) < ScanOrder(r, a)
  BY <1>0, <1>1, <1>3, <1>4
<1> QED
  BY <1>2, <1>4 DEF b

\* Queues of bound reads stay so.
LEMMA BoundQueue ==
  ASSUME NEW q, NEW o, BoundTo(q, o)
  PROVE  /\ q # <<>> => BoundTo(Tail(q), o) /\ Head(q) \in Reads /\ o[Head(q)] # NoShard
         /\ \A r \in Reads : o[r] # NoShard => BoundTo(Append(q, r), o)
         /\ \A k \in Nat : BoundTo(SubSeq(q, k + 1, Len(q)), o)
         /\ BoundTo(<<>>, o)
<1>1. q \in Seq(Reads) /\ \A i \in DOMAIN q : o[q[i]] # NoShard
  BY DEF BoundTo
<1>2. q # <<>> => BoundTo(Tail(q), o) /\ Head(q) \in Reads /\ o[Head(q)] # NoShard
  BY <1>1 DEF BoundTo
<1>3. \A r \in Reads : o[r] # NoShard => BoundTo(Append(q, r), o)
  BY <1>1 DEF BoundTo
<1>4. ASSUME NEW k \in Nat PROVE BoundTo(SubSeq(q, k + 1, Len(q)), o)
  BY <1>1 DEF BoundTo
<1>5. BoundTo(<<>>, o)
  BY DEF BoundTo
<1> QED
  BY <1>2, <1>3, <1>4, <1>5

\* So does one that a waiter leaves.
LEMMA BoundWithout ==
  ASSUME NEW q, NEW o, BoundTo(q, o), NEW r
  PROVE  BoundTo(Without(q, r), o)
<1>1. q \in Seq(Reads) /\ \A i \in DOMAIN q : o[q[i]] # NoShard
  BY DEF BoundTo
<1>2. CASE \A i \in DOMAIN q : q[i] # r
  BY <1>2 DEF Without
<1>3. CASE \E i \in DOMAIN q : q[i] = r
  <2> DEFINE k == CHOOSE i \in DOMAIN q : q[i] = r
             t == [i \in 1..(Len(q) - 1) |-> q[IF i < k THEN i ELSE i + 1]]
  <2>1. k \in 1..Len(q) /\ Len(q) \in Nat /\ DOMAIN q = 1..Len(q)
    BY <1>1, <1>3
  <2>2. Without(q, r) = t
    BY <1>3 DEF Without
  <2> HIDE DEF k
  <2>3. \A i \in 1..(Len(q) - 1) : (IF i < k THEN i ELSE i + 1) \in DOMAIN q
    BY <2>1
  <2>4. \A i \in 1..(Len(q) - 1) : t[i] \in Reads /\ o[t[i]] # NoShard
    BY <1>1, <2>3
  <2>5. Len(q) - 1 \in Nat
    BY <2>1
  <2>6. t \in Seq(Reads) /\ DOMAIN t = 1..(Len(q) - 1)
    BY <2>4, <2>5
  <2> HIDE DEF t
  <2> QED
    BY <2>2, <2>4, <2>6 DEF BoundTo
<1> QED
  BY <1>2, <1>3

OwnerStays == \A r \in Reads : owner[r] # NoShard => owner'[r] # NoShard

\* Queues of bound reads stay so, if what is new in them is bound.
LEMMA QueuesFrame ==
  ASSUME Queues, OwnerStays, bytes'.queue = bytes.queue \/ BoundTo(bytes'.queue, owner),
         \A s \in Shards : count'[s].queue = count[s].queue \/ BoundTo(count'[s].queue, owner)
  PROVE  Queues'
<1>1. ASSUME NEW q, BoundTo(q, owner) PROVE BoundTo(q, owner')
  <2>1. \A i \in DOMAIN q : q[i] \in Reads
    BY <1>1 DEF BoundTo
  <2> QED
    BY <1>1, <2>1 DEF BoundTo, OwnerStays
<1>2. BoundTo(bytes'.queue, owner) /\ \A s \in Shards : BoundTo(count'[s].queue, owner)
  BY DEF Queues
<1>3. BoundTo(bytes'.queue, owner')
  BY <1>1, <1>2
<1>4. \A s \in Shards : BoundTo(count'[s].queue, owner')
  BY <1>1, <1>2
<1> QED
  BY <1>3, <1>4 DEF Queues

\* Some of the waiters of a queue are so many.
LEMMA PartCounted ==
  ASSUME NEW n \in Nat, NEW S \in SUBSET (1..n)
  PROVE  Cardinality(S) \in Nat
<1>1. IsFiniteSet(1..n)
  BY FS_Interval
<1>2. IsFiniteSet(S)
  BY <1>1, FS_Subset
<1> QED
  BY <1>2, FS_CardinalityType

\* The queues after an update of one semaphore.
LEMMA CountQueue ==
  ASSUME SemType, Queues, OwnerStays, UNCHANGED bytes, NEW x, NEW v,
         \/ count' = [count EXCEPT ![x].free = v]
         \/ count' = [count EXCEPT ![x].queue = v] /\ BoundTo(v, owner)
         \/ count' = [count EXCEPT ![x] = Closed(@)]
  PROVE  Queues'
<1>1. BoundTo(<<>>, owner)
  BY BoundQueue DEF Queues
<1>2. \A s \in Shards : count'[s].queue = count[s].queue \/ BoundTo(count'[s].queue, owner)
  <2>0. DOMAIN count = Shards /\ \A s \in Shards : DOMAIN count[s] = {"free", "queue", "closed"}
    BY DEF SemType, Field
  <2>1. CASE count' = [count EXCEPT ![x].free = v]
    BY <2>0, <2>1
  <2>2. CASE count' = [count EXCEPT ![x].queue = v] /\ BoundTo(v, owner)
    BY <2>0, <2>2
  <2>3. CASE count' = [count EXCEPT ![x] = Closed(@)]
    BY <1>1, <2>0, <2>3 DEF Closed
  <2> QED
    BY <2>1, <2>2, <2>3
<1> QED
  BY <1>2, QueuesFrame

\* Likewise for the byte semaphore.
LEMMA BytesQueue ==
  ASSUME SemType, Queues, OwnerStays, UNCHANGED count, NEW f, NEW v,
         \/ bytes' = [bytes EXCEPT !.free = f]
         \/ bytes' = [bytes EXCEPT !.free = f, !.queue = v] /\ BoundTo(v, owner)
         \/ bytes' = Closed(bytes)
  PROVE  Queues'
<1>1. BoundTo(<<>>, owner)
  BY BoundQueue DEF Queues
<1>2. bytes'.queue = bytes.queue \/ BoundTo(bytes'.queue, owner)
  BY <1>1 DEF SemType, Field, Closed
<1> QED
  BY <1>2, QueuesFrame

\* The steps of callers keep the queues bound.
LEMMA ReadsQueues ==
  ASSUME SemType, ScanInv, OwnerStays, NEW r \in Reads,
         Submit(r) \/ Running(r) \/ Poll(r) \/ DropWaiting(r) \/ Complete(r)
  PROVE  Queues'
<1> USE DEF scan, reader, sems
<1>0. Queues /\ Selected(r) /\ ScanType
  BY DEF ScanInv, ReadsInv
<1>1. CASE UNCHANGED sems
  BY <1>0, <1>1, QueuesFrame
<1>2. CASE Submit(r) \/ CheckBytes(r) \/ RoundRobinMiss(r) \/ ScanMiss(r) \/ EndScan(r)
  BY <1>1, <1>2 DEF Submit, CheckBytes, RoundRobinMiss, ScanMiss, EndScan
<1>3. CASE SendRead(r) \/ Complete(r)
  BY <1>1, <1>3 DEF SendRead, Complete
<1>4. CASE TakeCount(r)
  BY <1>0, <1>4, CountQueue DEF TakeCount
<1>5. CASE TryBytes(r)
  BY <1>0, <1>1, <1>5, BytesQueue DEF TryBytes
<1>6. CASE ReturnCount(r)
  <2> DEFINE s == owner[r]
             q == count[s].queue
  <2>1. owner[r] \in Shards
    BY <1>0, <1>6 DEF ReturnCount, Selected, Selecting, ScanType
  <2>2. BoundTo(q, owner)
    BY <1>0, <2>1 DEF Queues
  <2>3. /\ UNCHANGED bytes
        /\ \/ count' = [count EXCEPT ![s].free = @ + 1]
           \/ q # <<>> /\ count' = [count EXCEPT ![s].queue = Tail(q)]
    BY <1>6 DEF ReturnCount, ReleaseCount
  <2>4. q # <<>> => BoundTo(Tail(q), owner)
    BY <2>2, BoundQueue
  <2> QED
    BY <1>0, <2>3, <2>4, CountQueue
<1>7. CASE ReturnBytes(r)
  <2> DEFINE q == bytes.queue
  <2>1. BoundTo(q, owner) /\ UNCHANGED count
    BY <1>0, <1>7 DEF Queues, ReturnBytes
  <2>2. PICK f, S : S \subseteq DOMAIN q /\
          bytes' = [bytes EXCEPT !.free = f, !.queue = SubSeq(q, Cardinality(S) + 1, Len(q))]
    BY <1>7 DEF ReturnBytes, ReleaseBytes
  <2>3. Cardinality(S) \in Nat
    <3>1. DOMAIN q = 1..Len(q) /\ Len(q) \in Nat
      BY <2>1 DEF BoundTo
    <3>2. S \in SUBSET (1..Len(q))
      BY <2>2, <3>1
    <3> HIDE DEF q
    <3> QED
      BY <3>1, <3>2, PartCounted
  <2>4. BoundTo(SubSeq(q, Cardinality(S) + 1, Len(q)), owner)
    BY <2>1, <2>3, BoundQueue
  <2> QED
    BY <1>0, <2>1, <2>2, <2>4, BytesQueue
<1>8. CASE PollCount(r)
  <2> DEFINE s == owner[r]
             q == count[s].queue
  <2>1. owner[r] \in Shards /\ owner[r] # NoShard
    BY <1>0, <1>8 DEF PollCount, Selected, Selecting, ScanType
  <2>2. BoundTo(Append(q, r), owner)
    BY <1>0, <2>1, BoundQueue DEF Queues
  <2>3. /\ UNCHANGED bytes
        /\ \/ UNCHANGED count
           \/ count' = [count EXCEPT ![s].free = @ - 1]
           \/ count' = [count EXCEPT ![s].queue = Append(q, r)]
    BY <1>8 DEF PollCount
  <2> QED
    BY <1>0, <1>1, <2>2, <2>3, CountQueue
<1>9. CASE PollBytes(r)
  <2>1. owner[r] # NoShard
    BY <1>0, <1>9 DEF PollBytes, Selected, Selecting
  <2>2. BoundTo(Append(bytes.queue, r), owner)
    BY <1>0, <2>1, BoundQueue DEF Queues
  <2>3. /\ UNCHANGED count
        /\ \/ UNCHANGED bytes
           \/ bytes' = [bytes EXCEPT !.free = @ - Charge[r]]
           \/ bytes' = [bytes EXCEPT !.free = 0, !.queue = Append(bytes.queue, r)]
    BY <1>9 DEF PollBytes
  <2> QED
    BY <1>0, <1>1, <2>2, <2>3, BytesQueue
<1>10. CASE DropWaiting(r)
  <2>1. /\ count' = [s \in Shards |-> [count[s] EXCEPT !.queue = Without(count[s].queue, r)]]
        /\ bytes' = [bytes EXCEPT !.queue = Without(bytes.queue, r)]
    BY <1>10 DEF DropWaiting
  <2>2. /\ bytes'.queue = Without(bytes.queue, r)
        /\ \A s \in Shards : count'[s].queue = Without(count[s].queue, r)
    BY <2>1 DEF SemType, Field
  <2>3. BoundTo(bytes'.queue, owner)
    BY <1>0, <2>2, BoundWithout DEF Queues
  <2>4. \A s \in Shards : BoundTo(count'[s].queue, owner)
    BY <1>0, <2>2, BoundWithout DEF Queues
  <2> QED
    BY <1>0, <2>3, <2>4, QueuesFrame
<1> QED
  BY <1>2, <1>3, <1>4, <1>5, <1>6, <1>7, <1>8, <1>9, <1>10 DEF Running, Poll

\* So does every other step.
LEMMA KeepsQueues ==
  ASSUME SemType, ScanInv, OwnerStays, [Next]_vars
  PROVE  Queues'
<1> USE DEF scan, reader, sems
<1>0. Queues
  BY DEF ScanInv
<1>1. CASE UNCHANGED sems
  BY <1>0, <1>1, QueuesFrame
<1>2. CASE UNCHANGED vars
  BY <1>1, <1>2 DEF vars
<1>3. ASSUME NEW s \in Shards, BeginDrain(s) \/ Exit(s)
      PROVE  Queues'
  BY <1>0, <1>1, <1>3, CountQueue DEF BeginDrain, Exit, EndDrain, DropReceiver, ThreadCloses
<1>4. ASSUME NEW c \in Closers, RequestShutdown(c) \/ Close(c)
      PROVE  Queues'
  <2>1. CASE CloseBytes(c)
    BY <1>0, <2>1, BytesQueue DEF CloseBytes
  <2>2. CASE CloseCount(c)
    BY <1>0, <2>2, CountQueue DEF CloseCount
  <2> QED
    BY <1>1, <1>4, <2>1, <2>2 DEF RequestShutdown, Close, CloseRegistry, EndClose, SendShutdown
<1> QED
  BY <1>2, <1>3, <1>4, ReadsQueues DEF Next

\* Behind a shard that a scan has reached, the shards met before it stay closed.
LEMMA ClosedBeforeStays ==
  ASSUME StaysClosed, NEW r \in Reads, start'[r] = start[r]
  PROVE  /\ at'[r] = at[r] /\ ClosedBefore(r, at[r]) => ClosedBefore(r, at[r])'
         /\ waiting'[r] = waiting[r] /\ ClosedBefore(r, waiting[r]) => ClosedBefore(r, waiting[r])'
<1>1. ASSUME NEW t, ClosedBefore(r, t) PROVE ClosedBefore(r, t)'
  BY <1>1 DEF ClosedBefore, StaysClosed, ScanOrder
<1>2. ASSUME NEW t, NEW u, u = t, ClosedBefore(r, t)
      PROVE  \A s \in Shards : ScanOrder(r, s)' < ScanOrder(r, u)' => count'[s].closed
  BY <1>1, <1>2 DEF ClosedBefore
<1> QED
  BY <1>2 DEF ClosedBefore

\* What is known of a scan that is over: the shard it waits at is the first that was full.
LEMMA ScanOver ==
  ASSUME StaysClosed, NEW r \in Reads, Scanning(r), start'[r] = start[r], waiting'[r] = waiting[r],
         pc'[r] \notin {"idle", "check", "scan", "scanned"}
  PROVE  Scanning(r)'
<1>1. capacity_aware(r)' <=> capacity_aware(r)
  BY DEF capacity_aware
<1>2. capacity_aware(r) /\ waiting[r] # NoShard => ClosedBefore(r, waiting[r])'
  <2>1. capacity_aware(r) /\ waiting[r] # NoShard => ClosedBefore(r, waiting[r])
    BY DEF Scanning
  <2> QED
    BY <2>1, ClosedBeforeStays
<1> QED
  BY <1>1, <1>2 DEF Scanning

\* What is known of a scan stays so while its caller does nothing.
LEMMA ScanKept ==
  ASSUME StaysClosed, NEW r \in Reads, Scanning(r), start'[r] = start[r], at'[r] = at[r],
         waiting'[r] = waiting[r], pc'[r] = pc[r]
  PROVE  Scanning(r)'
<1>1. capacity_aware(r)' <=> capacity_aware(r)
  BY DEF capacity_aware
<1>2. /\ ClosedBefore(r, at[r]) => ClosedBefore(r, at[r])'
      /\ ClosedBefore(r, waiting[r]) => ClosedBefore(r, waiting[r])'
  BY ClosedBeforeStays
<1>3. (\A s \in Shards : count[s].closed) => \A s \in Shards : count'[s].closed
  BY DEF StaysClosed
<1> QED
  BY <1>1, <1>2, <1>3 DEF Scanning

\* A read stays refused for what it was refused for.
LEMMA RefusalStays ==
  ASSUME ScanType, StaysClosed, NEW r \in Reads, Refusal(r), start'[r] = start[r]
  PROVE  Refusal(r)'
<1>1. start[r] \in Shards /\ (capacity_aware(r)' <=> capacity_aware(r))
  BY DEF ScanType, capacity_aware
<1> QED
  BY <1>1 DEF Refusal, StaysClosed

\* What has to be known of a read whose caller goes on, for it to be selected as it should.
LEMMA SelectKept ==
  ASSUME StaysClosed, NEW r \in Reads, Selected(r), after'[r] = after[r],
         pc'[r] = "refused" => Refusal(r)', pc'[r] \notin Selecting => owner'[r] # NoShard,
         pc'[r] = "trybytes" => Limited, pc'[r] \notin {"retiring", "unwinding"}
  PROVE  Selected(r)'
<1>1. after[r] = "refused" => Limited /\ bytes'.closed
  BY DEF Selected, StaysClosed
<1> QED
  BY <1>1 DEF Selected

\* What is known of a read stays so while its caller does nothing, and when it goes on
\* with a shard to return its permits to.
LEMMA ReadFrame ==
  ASSUME ScanType, StaysClosed, NEW r \in Reads, Scanning(r), Selected(r),
         start'[r] = start[r], at'[r] = at[r], waiting'[r] = waiting[r], owner'[r] = owner[r],
         \/ pc'[r] = pc[r] /\ after'[r] = after[r]
         \/ /\ pc'[r] \notin Selecting \cup {"trybytes"} /\ owner[r] # NoShard
            /\ pc'[r] \in {"retiring", "unwinding"} => after'[r] \in Endings
            /\ after'[r] = "refused" => Limited /\ bytes'.closed
  PROVE  Scanning(r)' /\ Selected(r)'
<1>1. CASE pc'[r] = pc[r] /\ after'[r] = after[r]
  <2>1. Scanning(r)'
    BY <1>1, ScanKept
  <2>2. after[r] = "refused" => Limited /\ bytes'.closed
    BY DEF Selected, StaysClosed
  <2>3. pc[r] = "refused" => Refusal(r)'
    BY RefusalStays DEF Selected
  <2>4. Selected(r)'
    BY <1>1, <2>2, <2>3 DEF Selected
  <2> QED
    BY <2>1, <2>4
<1>2. CASE ~(pc'[r] = pc[r] /\ after'[r] = after[r])
  <2>1. Scanning(r)'
    BY <1>2, ScanOver DEF Selecting
  <2>2. Selected(r)'
    BY <1>2 DEF Selected, Selecting
  <2> QED
    BY <2>1, <2>2
<1> QED
  BY <1>1, <1>2

\* A read that has returned its permits ends as it was going to.
LEMMA ReadEnds ==
  ASSUME ScanType, StaysClosed, NEW r \in Reads, Scanning(r), Selected(r),
         start'[r] = start[r], at'[r] = at[r], waiting'[r] = waiting[r], owner'[r] = owner[r],
         pc[r] \in {"retiring", "unwinding"}, pc'[r] = after[r], after'[r] = after[r]
  PROVE  Scanning(r)' /\ Selected(r)'
<1>1. after[r] \in Endings /\ owner[r] # NoShard
  BY DEF Selected, Selecting
<1>2. Scanning(r)'
  BY <1>1, ScanOver DEF Endings
<1>3. after[r] = "refused" => Refusal(r)'
  BY DEF Selected, StaysClosed, Refusal
<1>4. Selected(r)'
  BY <1>1, <1>3, SelectKept DEF Endings
<1> QED
  BY <1>2, <1>4

\* A step of one read, with the others where they are.
LEMMA OneRead ==
  ASSUME ScanType, StaysClosed, ReadsInv, NEW r \in Reads, Scanning(r)' /\ Selected(r)',
         \A x \in Reads \ {r} :
           /\ start'[x] = start[x] /\ at'[x] = at[x] /\ waiting'[x] = waiting[x]
           /\ owner'[x] = owner[x] /\ pc'[x] = pc[x] /\ after'[x] = after[x]
  PROVE  ReadsInv'
<1>1. ASSUME NEW x \in Reads \ {r} PROVE Scanning(x)' /\ Selected(x)'
  BY <1>1, ReadFrame DEF ReadsInv
<1> QED
  BY <1>1 DEF ReadsInv

\* A call begins its scan at the shard whose turn it is.
LEMMA SubmitStep ==
  ASSUME ScanType, StaysClosed, ReadsInv, NEW r \in Reads, Submit(r)
  PROVE  ScanType' /\ OwnerStays /\ ReadsInv'
<1>1. /\ pc[r] = "idle" /\ rr' = (rr + 1) % NShards
      /\ start' = [start EXCEPT ![r] = rr] /\ at' = [at EXCEPT ![r] = rr]
      /\ pc' = [pc EXCEPT ![r] = IF capacity_aware(r) /\ Limited THEN "check" ELSE "scan"]
      /\ waiting' = waiting /\ owner' = owner /\ after' = after
  BY DEF Submit
<1>2. Scanning(r) /\ Selected(r) /\ rr \in Shards /\ start[r] \in Shards
  BY DEF ReadsInv, ScanType
<1>3. (rr + 1) % NShards \in Shards
  BY <1>2, ScanGoesOn
<1>4. ScanType' /\ OwnerStays
  BY <1>1, <1>2, <1>3 DEF ScanType, OwnerStays
<1>5. /\ start'[r] = rr /\ at'[r] = rr
      /\ pc'[r] = IF capacity_aware(r) /\ Limited THEN "check" ELSE "scan"
  BY <1>1 DEF ScanType
<1>6. waiting'[r] = NoShard /\ owner'[r] = owner[r] /\ after'[r] = after[r]
  BY <1>1, <1>2 DEF Scanning
<1>7. ClosedBefore(r, at[r])'
  BY <1>2, <1>5, Order DEF ClosedBefore, ScanOrder
<1>8. Scanning(r)'
  BY <1>5, <1>6, <1>7 DEF Scanning, capacity_aware
<1>9. Selected(r)'
  BY <1>2, <1>5, <1>6, SelectKept DEF Selecting
<1>10. \A x \in Reads \ {r} : start'[x] = start[x] /\ at'[x] = at[x] /\ pc'[x] = pc[x]
  BY <1>1 DEF ScanType
<1> QED
  BY <1>1, <1>4, <1>8, <1>9, <1>10, OneRead

\* A step of the selection that leaves the scan where it is.
LEMMA SameScan ==
  ASSUME ScanType, StaysClosed, ReadsInv, NEW r \in Reads, NEW p, NEW o \in Shards \cup {NoShard},
         rr' = rr, start' = start, at' = at, waiting' = waiting, after' = after,
         pc' = [pc EXCEPT ![r] = p], owner' = [owner EXCEPT ![r] = o],
         o = NoShard => owner[r] = NoShard, Scanning(r)', Selected(r)'
  PROVE  ScanType' /\ OwnerStays /\ ReadsInv'
<1>1. ScanType'
  BY DEF ScanType
<1>2. OwnerStays
  BY DEF ScanType, OwnerStays
<1>3. \A x \in Reads \ {r} : pc'[x] = pc[x] /\ owner'[x] = owner[x]
  BY DEF ScanType
<1> QED
  BY <1>1, <1>2, <1>3, OneRead

\* The values such a step gives the read.
LEMMA SameScanValues ==
  ASSUME ScanType, NEW r \in Reads, NEW p, NEW o,
         pc' = [pc EXCEPT ![r] = p], owner' = [owner EXCEPT ![r] = o]
  PROVE  pc'[r] = p /\ owner'[r] = o
BY DEF ScanType

\* The byte budget is looked at before the scan.
LEMMA CheckBytesStep ==
  ASSUME ScanType, StaysClosed, ReadsInv, NEW r \in Reads, CheckBytes(r)
  PROVE  ScanType' /\ OwnerStays /\ ReadsInv'
<1> DEFINE p == IF bytes.closed THEN "refused" ELSE "scan"
<1>1. pc[r] = "check" /\ pc' = [pc EXCEPT ![r] = p]
  BY DEF CheckBytes
<1>2. rr' = rr /\ start' = start /\ at' = at /\ waiting' = waiting
  BY DEF CheckBytes, scan
<1>3. owner' = owner /\ after' = after /\ bytes' = bytes
  BY DEF CheckBytes, sems
<1>4. Scanning(r) /\ Selected(r) /\ start[r] \in Shards /\ owner[r] \in Shards \cup {NoShard}
  BY DEF ReadsInv, ScanType
<1>5. p \in {"refused", "scan"} /\ (p = "refused" => bytes'.closed)
  BY <1>3
<1> HIDE DEF p
<1>6. owner' = [owner EXCEPT ![r] = owner[r]]
  BY <1>3 DEF ScanType
<1>7. pc'[r] = p /\ owner'[r] = owner[r]
  BY <1>1, <1>6, SameScanValues
<1>8. Limited /\ capacity_aware(r) /\ at[r] = start[r] /\ waiting[r] = NoShard
  BY <1>1, <1>4 DEF Scanning
<1>9. ClosedBefore(r, at[r])'
  BY <1>2, <1>4, <1>8, Order DEF ClosedBefore, ScanOrder
<1>10. Scanning(r)'
  BY <1>2, <1>5, <1>7, <1>8, <1>9 DEF Scanning, capacity_aware
<1>11. Selected(r)'
  BY <1>3, <1>4, <1>5, <1>7, <1>8, SelectKept DEF Selecting, Refusal
<1> QED
  BY <1>1, <1>2, <1>3, <1>4, <1>6, <1>10, <1>11, SameScan

\* A count permit is taken, and with it the shard.
LEMMA TakeCountStep ==
  ASSUME ScanType, StaysClosed, ReadsInv, NEW r \in Reads, TakeCount(r)
  PROVE  ScanType' /\ OwnerStays /\ ReadsInv'
<1> DEFINE p == IF Limited THEN "trybytes" ELSE "sending"
<1>1. pc' = [pc EXCEPT ![r] = p] /\ owner' = [owner EXCEPT ![r] = at[r]] /\ after' = after
  BY DEF TakeCount
<1>2. rr' = rr /\ start' = start /\ at' = at /\ waiting' = waiting
  BY DEF TakeCount, scan
<1>3. Scanning(r) /\ Selected(r) /\ at[r] \in Shards
  BY DEF ReadsInv, ScanType
<1>4. p \in {"trybytes", "sending"} /\ (p = "trybytes" => Limited)
  OBVIOUS
<1> HIDE DEF p
<1>5. pc'[r] = p /\ owner'[r] = at[r] /\ at[r] # NoShard
  BY <1>1, <1>3, SameScanValues, NoShardIsNone
<1>6. Scanning(r)'
  BY <1>2, <1>3, <1>4, <1>5, ScanOver
<1>7. Selected(r)'
  BY <1>1, <1>3, <1>4, <1>5, SelectKept
<1> QED
  BY <1>1, <1>2, <1>3, <1>5, <1>6, <1>7, SameScan

\* Round robin is refused by its shard, or waits at it.
LEMMA RoundRobinStep ==
  ASSUME ScanType, StaysClosed, ReadsInv, NEW r \in Reads, RoundRobinMiss(r)
  PROVE  ScanType' /\ OwnerStays /\ ReadsInv'
<1> DEFINE p == IF count[at[r]].closed THEN "refused" ELSE "deferred"
<1>1. /\ pc[r] = "scan" /\ ~capacity_aware(r)
      /\ pc' = [pc EXCEPT ![r] = p] /\ owner' = [owner EXCEPT ![r] = at[r]] /\ after' = after
  BY DEF RoundRobinMiss
<1>2. rr' = rr /\ start' = start /\ at' = at /\ waiting' = waiting
  BY DEF RoundRobinMiss, scan
<1>3. Scanning(r) /\ Selected(r) /\ at[r] \in Shards
  BY DEF ReadsInv, ScanType
<1>4. at[r] = start[r]
  BY <1>1, <1>3 DEF Scanning
<1>5. p \in {"refused", "deferred"} /\ (p = "refused" => count'[at[r]].closed)
  BY <1>3 DEF StaysClosed
<1> HIDE DEF p
<1>6. pc'[r] = p /\ owner'[r] = at[r] /\ at[r] # NoShard
  BY <1>1, <1>3, SameScanValues, NoShardIsNone
<1>7. Scanning(r)'
  BY <1>2, <1>3, <1>5, <1>6, ScanOver
<1>8. p = "refused" => Refusal(r)'
  BY <1>1, <1>2, <1>4, <1>5 DEF Refusal, capacity_aware
<1>9. Selected(r)'
  BY <1>1, <1>3, <1>5, <1>6, <1>8, SelectKept
<1> QED
  BY <1>1, <1>2, <1>3, <1>6, <1>7, <1>9, SameScan

\* What one more shard without a free permit tells a scan: b is the shard it goes on to.
LEMMA MissTells ==
  ASSUME StaysClosed, NEW r \in Reads, start[r] \in Shards, at[r] \in Shards,
         NEW b, b = (at[r] + 1) % NShards, start'[r] = start[r], at'[r] = b,
         waiting[r] = NoShard => ClosedBefore(r, at[r]), waiting'[r] = NoShard,
         waiting'[r] = IF count[at[r]].closed \/ waiting[r] # NoShard THEN waiting[r] ELSE at[r]
  PROVE  /\ b = start[r] => \A s \in Shards : count'[s].closed
         /\ ClosedBefore(r, at[r])'
<1>1. waiting[r] = NoShard /\ count[at[r]].closed
  BY NoShardIsNone
<1>2. ASSUME NEW s \in Shards, b = start[r] \/ ScanOrder(r, s) < ScanOrder(r, b)
      PROVE  count'[s].closed
  <2>1. s = at[r] \/ ScanOrder(r, s) < ScanOrder(r, at[r])
    BY <1>2, ScanGoesOn
  <2>2. count[s].closed
    BY <1>1, <2>1 DEF ClosedBefore
  <2> QED
    BY <2>2 DEF StaysClosed
<1>3. ASSUME NEW s \in Shards, ScanOrder(r, s)' < ScanOrder(r, at[r])' PROVE count'[s].closed
  <2>1. ScanOrder(r, s)' = ScanOrder(r, s) /\ ScanOrder(r, at[r])' = ScanOrder(r, b)
    BY DEF ScanOrder
  <2> QED
    BY <1>2, <1>3, <2>1
<1> QED
  BY <1>2, <1>3 DEF ClosedBefore

\* The first shard that a scan found full is one behind closed shards only.
LEMMA FirstFullTells ==
  ASSUME StaysClosed, NEW r \in Reads, start'[r] = start[r],
         waiting[r] = NoShard => ClosedBefore(r, at[r]),
         waiting[r] # NoShard => ClosedBefore(r, waiting[r]), waiting'[r] # NoShard,
         waiting'[r] = IF count[at[r]].closed \/ waiting[r] # NoShard THEN waiting[r] ELSE at[r]
  PROVE  ClosedBefore(r, waiting[r])'
<1> DEFINE w == waiting'[r]
<1>1. ClosedBefore(r, w)
  OBVIOUS
<1> HIDE DEF w
<1>2. \A s \in Shards : ScanOrder(r, s)' = ScanOrder(r, s) /\ ScanOrder(r, waiting[r])' = ScanOrder(r, w)
  BY DEF ScanOrder, w
<1> QED
  BY <1>1, <1>2 DEF ClosedBefore, StaysClosed

\* The capacity-aware scan goes on to the next shard.
LEMMA ScanMissStep ==
  ASSUME ScanType, StaysClosed, ReadsInv, NEW r \in Reads, ScanMiss(r)
  PROVE  ScanType' /\ OwnerStays /\ ReadsInv'
<1> DEFINE b == (at[r] + 1) % NShards
           w == IF count[at[r]].closed \/ waiting[r] # NoShard THEN waiting[r] ELSE at[r]
           p == IF b = start[r] THEN "scanned" ELSE "scan"
<1>1. pc[r] = "scan" /\ capacity_aware(r) /\ at' = [at EXCEPT ![r] = b]
  BY DEF ScanMiss, NextShard
<1>2. waiting' = [waiting EXCEPT ![r] = w] /\ pc' = [pc EXCEPT ![r] = p]
  BY DEF ScanMiss, FirstFull, AfterMiss, NextShard
<1>3. rr' = rr /\ start' = start /\ owner' = owner /\ after' = after
  BY DEF ScanMiss
<1>4. Scanning(r) /\ Selected(r)
  BY DEF ReadsInv
<1>5. start[r] \in Shards /\ at[r] \in Shards /\ waiting[r] \in Shards \cup {NoShard}
  BY DEF ScanType
<1>6. b \in Shards
  BY <1>5, ScanGoesOn
<1>7. w \in Shards \cup {NoShard} /\ p \in {"scanned", "scan"} /\ (p = "scanned" => b = start[r])
  BY <1>5
<1>8. /\ waiting[r] = NoShard => ClosedBefore(r, at[r])
      /\ waiting[r] # NoShard => ClosedBefore(r, waiting[r])
  BY <1>1, <1>4 DEF Scanning
<1>9. at'[r] = b /\ waiting'[r] = w /\ pc'[r] = p
  BY <1>1, <1>2 DEF ScanType
<1>10. waiting'[r] = NoShard => (b = start[r] => \A s \in Shards : count'[s].closed)
                                /\ ClosedBefore(r, at[r])'
  BY <1>3, <1>5, <1>8, <1>9, MissTells
<1>11. waiting'[r] # NoShard => ClosedBefore(r, waiting[r])'
  BY <1>3, <1>8, <1>9, FirstFullTells
<1> HIDE DEF b, w, p
<1>12. ScanType'
  BY <1>1, <1>2, <1>3, <1>6, <1>7 DEF ScanType
<1>13. Scanning(r)'
  BY <1>1, <1>7, <1>9, <1>10, <1>11 DEF Scanning, capacity_aware
<1>14. Selected(r)'
  BY <1>3, <1>4, <1>7, <1>9, SelectKept DEF Selecting
<1>15. \A x \in Reads \ {r} : at'[x] = at[x] /\ waiting'[x] = waiting[x] /\ pc'[x] = pc[x]
  BY <1>1, <1>2 DEF ScanType
<1>16. OwnerStays
  BY <1>3 DEF OwnerStays
<1> QED
  BY <1>3, <1>12, <1>13, <1>14, <1>15, <1>16, OneRead

\* The scan is over: the read is refused, or waits at the first shard that was full.
LEMMA EndScanStep ==
  ASSUME ScanType, StaysClosed, ReadsInv, NEW r \in Reads, EndScan(r)
  PROVE  ScanType' /\ OwnerStays /\ ReadsInv'
<1>1. rr' = rr /\ start' = start /\ at' = at /\ waiting' = waiting /\ after' = after
  BY DEF EndScan, scan
<1>2. pc[r] = "scanned" /\ bytes' = bytes
  BY DEF EndScan, sems
<1>3. Scanning(r) /\ Selected(r)
  BY DEF ReadsInv
<1>4. owner[r] \in Shards \cup {NoShard} /\ waiting[r] \in Shards \cup {NoShard}
  BY DEF ScanType
<1>5. CASE (Limited /\ bytes.closed) \/ waiting[r] = NoShard
  <2>1. pc' = [pc EXCEPT ![r] = "refused"] /\ owner' = owner
    BY <1>5 DEF EndScan
  <2>2. owner' = [owner EXCEPT ![r] = owner[r]]
    BY <2>1 DEF ScanType
  <2>3. pc'[r] = "refused"
    BY <2>1, <2>2, SameScanValues
  <2>4. capacity_aware(r) /\ (waiting[r] = NoShard => \A s \in Shards : count[s].closed)
    BY <1>2, <1>3 DEF Scanning
  <2>5. Refusal(r)'
    BY <1>2, <1>5, <2>4 DEF Refusal, StaysClosed, capacity_aware
  <2>6. Scanning(r)'
    BY <1>1, <1>3, <2>3, ScanOver
  <2>7. Selected(r)'
    BY <1>1, <1>3, <2>3, <2>5, SelectKept DEF Selecting
  <2> QED
    BY <1>1, <1>4, <2>1, <2>2, <2>6, <2>7, SameScan
<1>6. CASE ~((Limited /\ bytes.closed) \/ waiting[r] = NoShard)
  <2>1. pc' = [pc EXCEPT ![r] = "deferred"] /\ owner' = [owner EXCEPT ![r] = waiting[r]]
    BY <1>6 DEF EndScan
  <2>2. pc'[r] = "deferred" /\ owner'[r] = waiting[r] /\ waiting[r] # NoShard
    BY <1>6, <2>1, SameScanValues
  <2>3. Scanning(r)'
    BY <1>1, <1>3, <2>2, ScanOver
  <2>4. Selected(r)'
    BY <1>1, <1>3, <2>2, SelectKept
  <2> QED
    BY <1>1, <1>4, <2>1, <2>2, <2>3, <2>4, SameScan
<1> QED
  BY <1>5, <1>6

\* The selection of a shard, step by step.
LEMMA SelectStep ==
  ASSUME ScanType, StaysClosed, ReadsInv, NEW r \in Reads,
         \/ Submit(r) \/ CheckBytes(r) \/ TakeCount(r)
         \/ RoundRobinMiss(r) \/ ScanMiss(r) \/ EndScan(r)
  PROVE  ScanType' /\ OwnerStays /\ ReadsInv'
BY SubmitStep, CheckBytesStep, TakeCountStep, RoundRobinStep, ScanMissStep, EndScanStep

\* A read that has a shard stays with it: it asks for its permits, sends, waits or ends.
LEMMA PermitSteps ==
  ASSUME ScanType, StaysClosed, ReadsInv, NEW r \in Reads,
         TryBytes(r) \/ SendRead(r) \/ PollCount(r) \/ PollBytes(r) \/ DropWaiting(r) \/ Complete(r)
  PROVE  ScanType' /\ OwnerStays /\ ReadsInv'
<1> USE DEF scan, reader, sems
<1>0. DOMAIN pc = Reads /\ DOMAIN after = Reads /\ Scanning(r) /\ Selected(r)
  BY DEF ScanType, ReadsInv
<1>1. ASSUME UNCHANGED <<rr, start, at, waiting, owner>>, NEW p, NEW a,
             pc' = [pc EXCEPT ![r] = p], after' = after \/ after' = [after EXCEPT ![r] = a],
             pc[r] \notin Selecting, p \notin Selecting \cup {"trybytes"},
             p \in {"retiring", "unwinding"} => after'[r] \in Endings,
             after'[r] = "refused" => Limited /\ bytes'.closed
      PROVE  ScanType' /\ OwnerStays /\ ReadsInv'
  <2>1. ScanType' /\ OwnerStays
    BY <1>0, <1>1 DEF ScanType, OwnerStays
  <2>2. pc'[r] = p /\ \A x \in Reads \ {r} : pc'[x] = pc[x] /\ after'[x] = after[x]
    BY <1>0, <1>1
  <2>3. owner[r] # NoShard
    BY <1>0, <1>1 DEF Selected
  <2>4. Scanning(r)' /\ Selected(r)'
    BY <1>0, <1>1, <2>2, <2>3, ReadFrame
  <2> QED
    BY <1>1, <2>1, <2>2, <2>4, OneRead
<1>2. after[r] = "refused" => Limited /\ bytes'.closed
  BY <1>0 DEF Selected, StaysClosed
<1>3. CASE TryBytes(r)
  <2>1. Limited /\ UNCHANGED <<rr, start, at, waiting, owner>> /\ pc[r] \notin Selecting
    BY <1>0, <1>3 DEF TryBytes, Selected, Selecting
  <2>2. CASE pc' = [pc EXCEPT ![r] = "sending"] /\ UNCHANGED after
    BY <1>1, <1>2, <2>1, <2>2 DEF Selecting
  <2>3. CASE WithoutBytes(r, IF bytes.closed THEN "refused" ELSE "deferred") /\ UNCHANGED bytes
    <3> DEFINE a == IF bytes.closed THEN "refused" ELSE "deferred"
    <3>1. /\ pc' = [pc EXCEPT ![r] = "unwinding"] /\ after' = [after EXCEPT ![r] = a]
          /\ a \in Endings /\ (a = "refused" => bytes'.closed)
      BY <2>3 DEF WithoutBytes, Endings
    <3> HIDE DEF a
    <3>2. after'[r] = a
      BY <1>0, <3>1
    <3> QED
      BY <1>1, <2>1, <3>1, <3>2 DEF Selecting
  <2> QED
    BY <1>3, <2>2, <2>3 DEF TryBytes
<1>4. CASE SendRead(r) \/ Complete(r)
  <2>1. /\ UNCHANGED <<rr, start, at, waiting, owner>> /\ pc[r] \notin Selecting
        /\ \/ pc' = [pc EXCEPT ![r] = "inflight"] /\ UNCHANGED after
           \/ \E a \in {"failed", "done"} : pc' = [pc EXCEPT ![r] = "retiring"]
                                            /\ after' = [after EXCEPT ![r] = a]
    BY <1>4 DEF SendRead, Complete, Selecting
  <2>2. CASE pc' = [pc EXCEPT ![r] = "inflight"] /\ UNCHANGED after
    BY <1>1, <1>2, <2>1, <2>2 DEF Selecting
  <2>3. ASSUME NEW a \in {"failed", "done"}, pc' = [pc EXCEPT ![r] = "retiring"],
               after' = [after EXCEPT ![r] = a]
        PROVE  ScanType' /\ OwnerStays /\ ReadsInv'
    <3>1. after'[r] = a
      BY <1>0, <2>3
    <3> QED
      BY <1>1, <2>1, <2>3, <3>1 DEF Selecting, Endings
  <2> QED
    BY <2>1, <2>2, <2>3
<1>5. CASE PollCount(r) \/ PollBytes(r) \/ DropWaiting(r)
  <2>1. /\ UNCHANGED <<rr, start, at, waiting, owner>> /\ pc[r] \notin Selecting
        /\ \/ \E p \in {"bytes", "sending", "queued", "bqueued"} :
                pc' = [pc EXCEPT ![r] = p] /\ UNCHANGED after
           \/ \E p \in {"unwinding", "failed", "dropped"}, a \in {"failed", "dropped"} :
                pc' = [pc EXCEPT ![r] = p] /\ after' = [after EXCEPT ![r] = a]
    <3>1. CASE PollCount(r)
      BY <3>1 DEF PollCount, Selecting
    <3>2. CASE PollBytes(r)
      BY <3>2 DEF PollBytes, Selecting
    <3>3. CASE DropWaiting(r)
      BY <3>3 DEF DropWaiting, Selecting
    <3> QED
      BY <1>5, <3>1, <3>2, <3>3
  <2>2. ASSUME NEW p \in {"bytes", "sending", "queued", "bqueued"},
               pc' = [pc EXCEPT ![r] = p], UNCHANGED after
        PROVE  ScanType' /\ OwnerStays /\ ReadsInv'
    BY <1>1, <1>2, <2>1, <2>2 DEF Selecting
  <2>3. ASSUME NEW p \in {"unwinding", "failed", "dropped"}, NEW a \in {"failed", "dropped"},
               pc' = [pc EXCEPT ![r] = p], after' = [after EXCEPT ![r] = a]
        PROVE  ScanType' /\ OwnerStays /\ ReadsInv'
    <3>1. after'[r] = a
      BY <1>0, <2>3
    <3> QED
      BY <1>1, <2>1, <2>3, <3>1 DEF Selecting, Endings
  <2> QED
    BY <2>1, <2>2, <2>3
<1> QED
  BY <1>3, <1>4, <1>5

\* A read that returns permits goes where it was going, and those it wakes have a shard.
LEMMA ReturnSteps ==
  ASSUME SemType, ScanInv, StaysClosed, NEW r \in Reads, ReturnCount(r) \/ ReturnBytes(r)
  PROVE  ScanType' /\ OwnerStays /\ ReadsInv'
<1> USE DEF scan, reader, sems
<1>0. /\ ScanType /\ Queues /\ ReadsInv /\ DOMAIN pc = Reads
      /\ \A x \in Reads : Scanning(x) /\ Selected(x)
  BY DEF ScanInv, ScanType, ReadsInv
<1>1. /\ pc[r] \in {"retiring", "unwinding"} /\ owner[r] \in Shards
      /\ UNCHANGED <<rr, start, at, waiting, owner, after>>
  BY <1>0 DEF ReturnCount, ReturnBytes, Selected, Selecting, ScanType
<1>2. ASSUME DOMAIN pc' = Reads,
             \A x \in Reads : \/ pc'[x] = pc[x]
                              \/ pc'[x] \in {"granted", "bgranted"} /\ owner[x] # NoShard
                              \/ x = r /\ pc'[x] = after[x]
      PROVE  ScanType' /\ OwnerStays /\ ReadsInv'
  <2>1. ScanType' /\ OwnerStays
    BY <1>0, <1>1, <1>2 DEF ScanType, OwnerStays
  <2>2. ASSUME NEW x \in Reads PROVE Scanning(x)' /\ Selected(x)'
    <3>1. Scanning(x) /\ Selected(x) /\ (after[x] = "refused" => Limited /\ bytes'.closed)
      BY <1>0, <2>2 DEF Selected, StaysClosed
    <3>2. CASE pc'[x] = pc[x]
      BY <1>0, <1>1, <3>1, <3>2, ReadFrame
    <3>3. CASE pc'[x] \in {"granted", "bgranted"} /\ owner[x] # NoShard
      BY <1>0, <1>1, <3>1, <3>3, ReadFrame DEF Selecting
    <3>4. CASE x = r /\ pc'[x] = after[x]
      BY <1>0, <1>1, <3>1, <3>4, ReadEnds
    <3> QED
      BY <1>2, <3>2, <3>3, <3>4
  <2> QED
    BY <2>1, <2>2 DEF ReadsInv
<1>3. CASE ReturnCount(r)
  <2> DEFINE q == count[owner[r]].queue
             p == [pc EXCEPT ![r] = IF got[r] = 0 THEN after[r] ELSE pc[r]]
  <2>1. pc' = p \/ (q # <<>> /\ pc' = [p EXCEPT ![Head(q)] = "granted"])
    BY <1>3 DEF ReturnCount, ReleaseCount
  <2>2. q # <<>> => Head(q) \in Reads /\ owner[Head(q)] # NoShard
    BY <1>0, <1>1, BoundQueue DEF Queues
  <2>3. DOMAIN p = Reads /\ \A x \in Reads : p[x] = pc[x] \/ (x = r /\ p[x] = after[x])
    BY <1>0
  <2> HIDE DEF p, q
  <2>4. DOMAIN pc' = Reads
    BY <2>1, <2>3
  <2>5. \A x \in Reads : pc'[x] = p[x] \/ (pc'[x] = "granted" /\ owner[x] # NoShard)
    BY <2>1, <2>2, <2>3
  <2> QED
    BY <1>2, <2>3, <2>4, <2>5
<1>4. CASE ReturnBytes(r)
  <2> DEFINE q == bytes.queue
             p == [pc EXCEPT ![r] = IF has[r] THEN pc[r] ELSE after[r]]
  <2>1. /\ DOMAIN pc' = Reads
        /\ \A x \in Reads : pc'[x] = p[x] \/ (pc'[x] = "bgranted" /\ \E i \in DOMAIN q : q[i] = x)
    BY <1>4 DEF ReturnBytes, ReleaseBytes
  <2>2. \A i \in DOMAIN q : owner[q[i]] # NoShard
    BY <1>0 DEF Queues, BoundTo
  <2>3. \A x \in Reads : p[x] = pc[x] \/ (x = r /\ p[x] = after[x])
    BY <1>0
  <2> HIDE DEF p, q
  <2> QED
    BY <1>2, <2>1, <2>2, <2>3
<1> QED
  BY <1>3, <1>4

\* A shard's thread leaks its reads or fails them.
LEMMA ThreadSteps ==
  ASSUME ScanType, StaysClosed, ReadsInv, NEW s \in Shards, EndDrain(s) \/ DropReceiver(s)
  PROVE  ScanType' /\ OwnerStays /\ ReadsInv'
<1> USE DEF scan, reader, sems
<1>1. /\ UNCHANGED <<rr, start, at, waiting, owner>> /\ DOMAIN pc' = Reads /\ DOMAIN after' = Reads
      /\ \A x \in Reads :
           \/ pc'[x] = pc[x] /\ after'[x] = after[x]
           \/ pc[x] = "inflight" /\ pc'[x] = "leaked" /\ after'[x] = after[x]
           \/ pc[x] = "inflight" /\ pc'[x] = "retiring" /\ after'[x] = "failed"
  <2>1. CASE EndDrain(s)
    BY <2>1 DEF EndDrain, InFlight, ScanType
  <2>2. CASE DropReceiver(s)
    BY <2>2 DEF DropReceiver, InFlight, ScanType
  <2> QED
    BY <2>1, <2>2
<1>2. ScanType' /\ OwnerStays
  BY <1>1 DEF ScanType, OwnerStays
<1>3. ASSUME NEW x \in Reads PROVE Scanning(x)' /\ Selected(x)'
  <2>1. Scanning(x) /\ Selected(x) /\ (after[x] = "refused" => Limited /\ bytes'.closed)
    BY <1>3 DEF ReadsInv, Selected, StaysClosed
  <2>2. CASE pc'[x] = pc[x] /\ after'[x] = after[x]
    BY <1>1, <2>1, <2>2, ReadFrame
  <2>3. CASE pc[x] = "inflight" /\ pc'[x] = "leaked" /\ after'[x] = after[x]
    <3>1. owner[x] # NoShard
      BY <2>1, <2>3 DEF Selected, Selecting
    <3> QED
      BY <1>1, <2>1, <2>3, <3>1, ReadFrame DEF Selecting
  <2>4. CASE pc[x] = "inflight" /\ pc'[x] = "retiring" /\ after'[x] = "failed"
    <3>1. owner[x] # NoShard
      BY <2>1, <2>4 DEF Selected, Selecting
    <3> QED
      BY <1>1, <2>1, <2>4, <3>1, ReadFrame DEF Selecting, Endings
  <2> QED
    BY <1>1, <2>2, <2>3, <2>4
<1> QED
  BY <1>2, <1>3 DEF ReadsInv

\* No read has been selected a shard when the driver starts.
LEMMA InitScan == Init => ScanInv
<1> SUFFICES ASSUME Init PROVE ScanInv
  OBVIOUS
<1>1. 0 \in Shards
  BY AdmissionAssumption DEF Shards
<1>2. ScanType
  BY <1>1 DEF Init, ScanType
<1>3. Queues
  <2>1. bytes.queue = <<>> /\ \A s \in Shards : count[s].queue = <<>>
    BY DEF Init, NewSemaphore
  <2>2. BoundTo(<<>>, owner)
    BY DEF BoundTo
  <2> QED
    BY <2>1, <2>2 DEF Queues
<1>4. \A r \in Reads : Scanning(r) /\ Selected(r)
  BY DEF Init, Scanning, Selected, Selecting
<1> QED
  BY <1>2, <1>3, <1>4 DEF ScanInv, ReadsInv

\* Every step preserves what is known of the reads being selected a shard.
LEMMA NextScan ==
  ASSUME SemType, ScanInv, [Next]_vars
  PROVE  ScanInv'
<1> USE DEF scan, reader, sems
<1>0. StaysClosed
  BY KeepsClosed
<1>1. ScanType' /\ OwnerStays /\ ReadsInv'
  <2>0. ScanType /\ ReadsInv
    BY DEF ScanInv
  <2>1. CASE UNCHANGED <<rr, start, at, waiting, pc, owner, after>>
    <3>1. ScanType' /\ OwnerStays
      BY <2>0, <2>1 DEF ScanType, OwnerStays
    <3>2. ASSUME NEW r \in Reads PROVE Scanning(r)' /\ Selected(r)'
      BY <1>0, <2>0, <2>1, <3>2, ReadFrame DEF ReadsInv
    <3> QED
      BY <3>1, <3>2 DEF ReadsInv
  <2>2. CASE UNCHANGED vars
    BY <2>1, <2>2 DEF vars
  <2>3. ASSUME NEW r \in Reads, Submit(r) \/ Running(r) \/ Poll(r) \/ DropWaiting(r) \/ Complete(r)
        PROVE  ScanType' /\ OwnerStays /\ ReadsInv'
    BY <1>0, <2>0, <2>3, SelectStep, PermitSteps, ReturnSteps DEF Running, Poll
  <2>4. ASSUME NEW s \in Shards, BeginDrain(s) \/ Exit(s)
        PROVE  ScanType' /\ OwnerStays /\ ReadsInv'
    BY <1>0, <2>0, <2>1, <2>4, ThreadSteps DEF BeginDrain, Exit, ThreadCloses
  <2>5. ASSUME NEW c \in Closers, RequestShutdown(c) \/ Close(c)
        PROVE  ScanType' /\ OwnerStays /\ ReadsInv'
    BY <2>1, <2>5 DEF RequestShutdown, Close, CloseRegistry, CloseBytes, CloseCount, EndClose, SendShutdown
  <2> QED
    BY <2>2, <2>3, <2>4, <2>5 DEF Next
<1>2. Queues'
  BY <1>1, KeepsQueues
<1> QED
  BY <1>1, <1>2 DEF ScanInv

\* A read passes over a shard, to wait at another or to be refused, only if the shard is
\* closed: the scan of select_read_shard meets the shards one after the other, while
\* others take and return permits and any of the shards may close behind its back.
THEOREM ClosedShardsArePassed == Spec => []PassesOnlyClosed
<1>1. SemType /\ ScanInv /\ [Next]_vars => (SemType /\ ScanInv)'
  BY KeepsClosed, NextScan
<1>2. Init => SemType /\ ScanInv
  BY InitClose, InitScan DEF CloseInv
<1>3. ScanInv => PassesOnlyClosed
  <2> SUFFICES ASSUME ScanInv PROVE PassesOnlyClosed
    OBVIOUS
  <2>1. RefusedOnlyIfClosed
    BY DEF ScanInv, ReadsInv, Selected, Refusal, RefusedOnlyIfClosed
  <2>2. ASSUME NEW r \in Reads, capacity_aware(r), pc[r] \in Deferred, owner[r] = waiting[r]
        PROVE  ClosedBefore(r, owner[r])
    <3>1. owner[r] # NoShard
      BY <2>2 DEF ScanInv, ReadsInv, Selected, Selecting, Deferred
    <3> QED
      BY <2>2, <3>1 DEF ScanInv, ReadsInv, Scanning
  <2>3. WaitsOnFirstHealthy
    BY <2>2 DEF WaitsOnFirstHealthy, ClosedBefore
  <2> QED
    BY <2>1, <2>3 DEF PassesOnlyClosed
<1> QED
  BY <1>1, <1>2, <1>3, PTL DEF Spec
===============================================================================
