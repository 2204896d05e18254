----------------------------- MODULE ReadAdmission ----------------------------
(***************************************************************************)
(* Admission of reads to a driver of several shards (src/src/driver.rs):   *)
(* the count semaphore of each shard, the byte semaphore all share, the    *)
(* two shard policies of `select_read_shard`, the deferred acquire of a    *)
(* ReadHandle (`acquire_read_permits`), and the closing of admission by    *)
(* `request_shutdown` and by the exit of any shard's thread.               *)
(*                                                                         *)
(* Every operation on a semaphore or on the registry is a step of its own. *)
(* What a shard does with an admitted read is UringShard's subject; here   *)
(* it completes, is rejected, is dropped with the channel, or leaks.       *)
(***************************************************************************)
EXTENDS Integers, FiniteSets, Sequences, FiniteSetsExt

CONSTANTS
    NShards, Entries,     \* shards of the driver, permits of each
    Limited, MaxBytes,    \* is there a byte budget (max_in_flight_bytes), and its size
    CapacityAware,        \* the shard policy
    Reads, Charge,        \* reads, and the allocation each is charged for
    Streams,              \* those of read_current, always round robin
    MayDrop,              \* reads whose handle may be dropped while it waits
    MayFail,              \* shards that may shut down by themselves
    Stoppers              \* threads that call request_shutdown

Shards == 0..(NShards - 1)
Closers == Shards \cup Stoppers
NoShard == -1

ASSUME AdmissionAssumption ==
  /\ NShards \in Nat \ {0} /\ Entries \in Nat \ {0} /\ MaxBytes \in Nat
  /\ {Limited, CapacityAware} \subseteq BOOLEAN
  /\ Charge \in [Reads -> 1..MaxBytes]      \* submit refuses what exceeds the budget
  /\ MayDrop \cup Streams \subseteq Reads /\ MayFail \subseteq Shards
  /\ Stoppers \cap Shards = {}

VARIABLES
    rr, start, at, waiting,   \* the cursor; per read: where its scan began and is, first full shard
    pc,                       \* per read: what its caller is doing
    owner,                    \* per read: the shard it is bound to
    has, got,                 \* per read: holds a count permit; byte permits assigned to it
    after,                    \* per read: where it goes once its permits are returned
    count,                    \* per shard: its semaphore [free, queue, closed]
    bytes,                    \* the byte semaphore
    registry,                 \* AdmissionRegistry [closed, counts]
    closer,                   \* per thread that closes admission: [pc, taken]
    thread                    \* per shard: its thread, "asked" once Msg::Shutdown is sent

scan   == <<rr, start, at, waiting>>
reader == <<pc, owner, has, got, after>>
sems   == <<count, bytes>>
vars   == <<scan, reader, sems, registry, closer, thread>>

NewSemaphore(n) == [free |-> n, queue |-> <<>>, closed |-> FALSE]

Init ==
  /\ rr = 0
  /\ start = [r \in Reads |-> 0] /\ at = [r \in Reads |-> 0]
  /\ waiting = [r \in Reads |-> NoShard]
  /\ pc = [r \in Reads |-> "idle"] /\ owner = [r \in Reads |-> NoShard]
  /\ has = [r \in Reads |-> FALSE] /\ got = [r \in Reads |-> 0]
  /\ after = [r \in Reads |-> "idle"]
  /\ count = [s \in Shards |-> NewSemaphore(Entries)]
  /\ bytes = NewSemaphore(MaxBytes)
  /\ registry = [closed |-> FALSE, counts |-> IF Limited THEN Shards ELSE {}]
  /\ closer = [c \in Closers |-> [pc |-> "idle", taken |-> {}]]
  /\ thread = [s \in Shards |-> "running"]

-------------------------------------------------------------------------------
(* External: tokio's semaphore.  Permits that come back go to the waiters  *)
(* in turn, to the first as far as they reach; the rest is free.           *)

Closed(sem) == [sem EXCEPT !.closed = TRUE, !.queue = <<>>]

\* A waiter whose acquire future is dropped leaves the queue.
Without(q, r) ==
  IF \A i \in DOMAIN q : q[i] # r THEN q
  ELSE LET k == CHOOSE i \in DOMAIN q : q[i] = r
       IN  [i \in 1..(Len(q) - 1) |-> q[IF i < k THEN i ELSE i + 1]]

\* What waiter i of the byte queue is given of n permits.
Share(q, i, n, g) ==
  LET missing(k) == Charge[q[k]] - g[q[k]]
      left == n - MapThenSumSet(missing, 1..(i - 1))
  IN  IF left <= 0 THEN 0 ELSE IF left < missing(i) THEN left ELSE missing(i)

\* n byte permits come back while the waiters q hold g: what each holds then.
Shares(q, n, g) ==
  [r \in Reads |-> IF \E i \in DOMAIN q : q[i] = r
                   THEN g[r] + Share(q, CHOOSE i \in DOMAIN q : q[i] = r, n, g) ELSE g[r]]

\* A count permit comes back: to the first waiter, else it is free.
ReleaseCount(s, p, h) ==
  IF count[s].queue = <<>>
  THEN count' = [count EXCEPT ![s].free = @ + 1] /\ pc' = p /\ has' = h
  ELSE LET w == Head(count[s].queue)
       IN  /\ count' = [count EXCEPT ![s].queue = Tail(@)]
           /\ pc' = [p EXCEPT ![w] = "granted"]
           /\ has' = [h EXCEPT ![w] = TRUE]

\* n byte permits come back to the waiters q; those served, the first ones, leave it.
ReleaseBytes(q, n, p, g) ==
  LET shares == Shares(q, n, g)
      used == MapThenSumSet(LAMBDA r : shares[r] - g[r], Reads)
      served == {i \in DOMAIN q : shares[q[i]] = Charge[q[i]]}
  IN  /\ got' = shares
      /\ bytes' = [bytes EXCEPT !.free = @ + (n - used),
                                !.queue = SubSeq(q, Cardinality(served) + 1, Len(q))]
      /\ pc' = [r \in Reads |-> IF (\E i \in DOMAIN q : q[i] = r) /\ shares[r] = Charge[r]
                                THEN "bgranted" ELSE p[r]]

-------------------------------------------------------------------------------
(* submit: select_read_shard and what submit does with its answer.         *)

capacity_aware(r) == CapacityAware /\ r \notin Streams

Submit(r) ==
  /\ pc[r] = "idle"
  /\ rr' = (rr + 1) % NShards
  /\ start' = [start EXCEPT ![r] = rr] /\ at' = [at EXCEPT ![r] = rr]
  /\ pc' = [pc EXCEPT ![r] = IF capacity_aware(r) /\ Limited THEN "check" ELSE "scan"]
  /\ UNCHANGED <<waiting, owner, has, got, after, sems, registry, closer, thread>>

\* A closed byte budget ends a capacity-aware selection before the scan.
CheckBytes(r) ==
  /\ pc[r] = "check"
  /\ pc' = [pc EXCEPT ![r] = IF bytes.closed THEN "refused" ELSE "scan"]
  /\ UNCHANGED <<scan, owner, has, got, after, sems, registry, closer, thread>>

CountFree(s) == ~count[s].closed /\ count[s].free > 0

\* try_acquire_owned of the count permit of shard at[r].
TakeCount(r) ==
  /\ pc[r] = "scan" /\ CountFree(at[r])
  /\ count' = [count EXCEPT ![at[r]].free = @ - 1]
  /\ has' = [has EXCEPT ![r] = TRUE] /\ owner' = [owner EXCEPT ![r] = at[r]]
  /\ pc' = [pc EXCEPT ![r] = IF Limited THEN "trybytes" ELSE "sending"]
  /\ UNCHANGED <<scan, got, after, bytes, registry, closer, thread>>

NextShard(r) == (at[r] + 1) % NShards

\* Round robin stays with its shard: closed refuses, full waits.
RoundRobinMiss(r) ==
  /\ ~capacity_aware(r) /\ pc[r] = "scan"
  /\ count[at[r]].closed \/ count[at[r]].free = 0
  /\ pc' = [pc EXCEPT ![r] = IF count[at[r]].closed THEN "refused" ELSE "deferred"]
  /\ owner' = [owner EXCEPT ![r] = at[r]]
  /\ UNCHANGED <<scan, has, got, after, sems, registry, closer, thread>>

\* waiting.get_or_insert
FirstFull(r) == IF waiting[r] = NoShard THEN at[r] ELSE waiting[r]

\* Defect: a closed shard ends the scan.
AfterMiss_closed(r) == IF count[at[r]].closed THEN "refused"
                       ELSE IF NextShard(r) = start[r] THEN "scanned" ELSE "scan"

AfterMiss(r) == IF NextShard(r) = start[r] THEN "scanned" ELSE "scan"

\* The capacity-aware scan goes on behind a full or a closed shard.
ScanMiss(r) ==
  /\ capacity_aware(r) /\ pc[r] = "scan"
  /\ count[at[r]].closed \/ count[at[r]].free = 0
  /\ waiting' = [waiting EXCEPT ![r] = IF count[at[r]].closed THEN @ ELSE FirstFull(r)]
  /\ at' = [at EXCEPT ![r] = NextShard(r)]
  /\ pc' = [pc EXCEPT ![r] = AfterMiss(r)]
  /\ UNCHANGED <<rr, start, owner, has, got, after, sems, registry, closer, thread>>

\* No shard had a permit: wait for the first that was full, unless closed meanwhile.
EndScan(r) ==
  /\ pc[r] = "scanned"
  /\ IF (Limited /\ bytes.closed) \/ waiting[r] = NoShard
     THEN pc' = [pc EXCEPT ![r] = "refused"] /\ UNCHANGED owner
     ELSE pc' = [pc EXCEPT ![r] = "deferred"] /\ owner' = [owner EXCEPT ![r] = waiting[r]]
  /\ UNCHANGED <<scan, has, got, after, sems, registry, closer, thread>>

\* Defect: the read is deferred with its count permit still held.
WithoutBytes_keeping(r, next) == pc' = [pc EXCEPT ![r] = next] /\ after' = after

\* Without bytes the count permit is dropped again.
WithoutBytes(r, next) ==
  pc' = [pc EXCEPT ![r] = "unwinding"] /\ after' = [after EXCEPT ![r] = next]

\* try_acquire_many_owned of the byte permits.
TryBytes(r) ==
  /\ pc[r] = "trybytes"
  /\ \/ /\ ~bytes.closed /\ bytes.free >= Charge[r]
        /\ bytes' = [bytes EXCEPT !.free = @ - Charge[r]]
        /\ got' = [got EXCEPT ![r] = Charge[r]]
        /\ pc' = [pc EXCEPT ![r] = "sending"]
        /\ UNCHANGED after
     \/ /\ bytes.closed \/ bytes.free < Charge[r]
        /\ WithoutBytes(r, IF bytes.closed THEN "refused" ELSE "deferred")
        /\ UNCHANGED <<bytes, got>>
  /\ UNCHANGED <<scan, owner, has, count, registry, closer, thread>>

ReceiverGone(s) == thread[s] \in {"dropping", "exited"}

\* The send of Msg::Read with its permits; without a receiver they are dropped.
SendRead(r) ==
  /\ pc[r] = "sending"
  /\ IF ReceiverGone(owner[r])
     THEN pc' = [pc EXCEPT ![r] = "retiring"] /\ after' = [after EXCEPT ![r] = "failed"]
     ELSE pc' = [pc EXCEPT ![r] = "inflight"] /\ UNCHANGED after
  /\ UNCHANGED <<scan, owner, has, got, sems, registry, closer, thread>>

-------------------------------------------------------------------------------
(* ReadHandle::poll of a deferred read: acquire_read_permits.              *)

\* count.acquire_owned().await
PollCount(r) ==
  /\ pc[r] \in {"deferred", "queued", "granted"}
  /\ LET s == owner[r]
     IN  \/ /\ count[s].closed
            /\ pc' = [pc EXCEPT ![r] = IF has[r] THEN "unwinding" ELSE "failed"]
            /\ after' = [after EXCEPT ![r] = "failed"]
            /\ UNCHANGED <<has, count>>
         \/ /\ ~count[s].closed /\ pc[r] = "granted"
            /\ pc' = [pc EXCEPT ![r] = IF Limited THEN "bytes" ELSE "sending"]
            /\ UNCHANGED <<has, after, count>>
         \/ /\ ~count[s].closed /\ pc[r] = "deferred" /\ count[s].free > 0
            /\ count' = [count EXCEPT ![s].free = @ - 1]
            /\ has' = [has EXCEPT ![r] = TRUE]
            /\ pc' = [pc EXCEPT ![r] = IF Limited THEN "bytes" ELSE "sending"]
            /\ UNCHANGED after
         \/ /\ ~count[s].closed /\ pc[r] = "deferred" /\ count[s].free = 0
            /\ count' = [count EXCEPT ![s].queue = Append(@, r)]
            /\ pc' = [pc EXCEPT ![r] = "queued"]
            /\ UNCHANGED <<has, after>>
  /\ UNCHANGED <<scan, owner, got, bytes, registry, closer, thread>>

\* bytes.acquire_many_owned(charge).await: a waiter takes what there is.
PollBytes(r) ==
  /\ pc[r] \in {"bytes", "bqueued", "bgranted"}
  /\ \/ /\ bytes.closed
        /\ pc' = [pc EXCEPT ![r] = "unwinding"] /\ after' = [after EXCEPT ![r] = "failed"]
        /\ UNCHANGED <<got, bytes>>
     \/ /\ ~bytes.closed /\ pc[r] = "bgranted"
        /\ pc' = [pc EXCEPT ![r] = "sending"]
        /\ UNCHANGED <<got, after, bytes>>
     \/ /\ ~bytes.closed /\ pc[r] = "bytes" /\ bytes.free >= Charge[r]
        /\ bytes' = [bytes EXCEPT !.free = @ - Charge[r]]
        /\ got' = [got EXCEPT ![r] = Charge[r]]
        /\ pc' = [pc EXCEPT ![r] = "sending"]
        /\ UNCHANGED after
     \/ /\ ~bytes.closed /\ pc[r] = "bytes" /\ bytes.free < Charge[r]
        /\ bytes' = [bytes EXCEPT !.free = 0, !.queue = Append(@, r)]
        /\ got' = [got EXCEPT ![r] = bytes.free]
        /\ pc' = [pc EXCEPT ![r] = "bqueued"]
        /\ UNCHANGED after
  /\ UNCHANGED <<scan, owner, has, count, registry, closer, thread>>

\* The handle of a waiting read is dropped, and with it the acquire future.
DropWaiting(r) ==
  /\ r \in MayDrop /\ pc[r] \in {"deferred", "queued", "granted", "bqueued", "bgranted"}
  /\ pc' = [pc EXCEPT ![r] = IF has[r] THEN "unwinding" ELSE "dropped"]
  /\ after' = [after EXCEPT ![r] = "dropped"]
  /\ count' = [s \in Shards |-> [count[s] EXCEPT !.queue = Without(@, r)]]
  /\ bytes' = [bytes EXCEPT !.queue = Without(@, r)]
  /\ UNCHANGED <<scan, owner, has, got, registry, closer, thread>>

\* Permits go back: those of an acquire future bytes first, ReadPermits count first.
ReturnCount(r) ==
  /\ \/ pc[r] = "retiring" /\ has[r]
     \/ pc[r] = "unwinding" /\ got[r] = 0
  /\ LET next == IF got[r] = 0 THEN after[r] ELSE pc[r]
     IN  ReleaseCount(owner[r], [pc EXCEPT ![r] = next], [has EXCEPT ![r] = FALSE])
  /\ UNCHANGED <<scan, owner, got, after, bytes, registry, closer, thread>>

ReturnBytes(r) ==
  /\ \/ pc[r] = "retiring" /\ ~has[r]
     \/ pc[r] = "unwinding" /\ got[r] > 0
  /\ LET next == IF has[r] THEN pc[r] ELSE after[r]
     IN  ReleaseBytes(bytes.queue, got[r], [pc EXCEPT ![r] = next], [got EXCEPT ![r] = 0])
  /\ UNCHANGED <<scan, owner, has, after, count, registry, closer, thread>>

-------------------------------------------------------------------------------
(* A shard's thread, as far as it concerns admission.                      *)

InFlight(s) == {r \in Reads : pc[r] = "inflight" /\ owner[r] = s}

\* A read ends (or is rejected): its entry, or its message, drops the permits.
Complete(r) ==
  /\ pc[r] = "inflight" /\ thread[owner[r]] \in {"running", "asked", "draining"}
  /\ pc' = [pc EXCEPT ![r] = "retiring"] /\ after' = [after EXCEPT ![r] = "done"]
  /\ UNCHANGED <<scan, owner, has, got, sems, registry, closer, thread>>

\* Submissions fail only on a shard that was given something to submit.
HasServed(s) == \E r \in Reads : owner[r] = s /\ pc[r] \in {"inflight", "retiring", "done"}

\* Msg::Shutdown is taken, or a run of failed submissions has the same effect.
BeginDrain(s) ==
  /\ thread[s] = "asked" \/ (thread[s] = "running" /\ s \in MayFail /\ HasServed(s))
  /\ thread' = [thread EXCEPT ![s] = "draining"]
  /\ UNCHANGED <<scan, reader, sems, registry, closer>>

\* Either exit of `drive` closes the shard's semaphore.  A bounded drain that times
\* out leaks reads, with their permits, for good.
EndDrain(s) ==
  /\ thread[s] = "draining"
  /\ count' = [count EXCEPT ![s] = Closed(@)]
  /\ thread' = [thread EXCEPT ![s] = "returning"]
  /\ \E L \in SUBSET InFlight(s) : pc' = [r \in Reads |-> IF r \in L THEN "leaked" ELSE pc[r]]
  /\ UNCHANGED <<scan, owner, has, got, after, bytes, registry, closer>>

\* `drive` has returned: the channel goes, with every message still in it.
DropReceiver(s) ==
  /\ thread[s] = "returning"
  /\ thread' = [thread EXCEPT ![s] = "dropping"]
  /\ pc' = [r \in Reads |-> IF r \in InFlight(s) THEN "retiring" ELSE pc[r]]
  /\ after' = [r \in Reads |-> IF r \in InFlight(s) THEN "failed" ELSE after[r]]
  /\ UNCHANGED <<scan, owner, has, got, sems, registry, closer>>

\* Defect: the thread closes nothing but its own semaphore.
ThreadCloses_own(s) ==
  /\ thread[s] = "dropping"
  /\ thread' = [thread EXCEPT ![s] = "exited"]
  /\ UNCHANGED <<scan, reader, sems, registry, closer>>

\* CloseByteAdmission::drop, behind it.
ThreadCloses(s) ==
  /\ thread[s] = "dropping"
  /\ thread' = [thread EXCEPT ![s] = "exited"]
  /\ closer' = [closer EXCEPT ![s].pc = IF Limited THEN "lock" ELSE "idle"]
  /\ UNCHANGED <<scan, reader, sems, registry>>

-------------------------------------------------------------------------------
(* ByteAdmission::close, by a thread that exits or by request_shutdown.    *)

\* Defect: a second request returns because a first has begun.
RequestShutdown_once(c) ==
  /\ c \in Stoppers /\ closer[c].pc = "idle"
  /\ closer' = [closer EXCEPT ![c] = IF Limited /\ registry.closed THEN [pc |-> "done", taken |-> {}]
                                     ELSE [pc |-> IF Limited THEN "lock" ELSE "sweep", taken |-> Shards]]
  /\ UNCHANGED <<scan, reader, sems, registry, thread>>

\* request_shutdown begins; count-only admission has only the sweep.
RequestShutdown(c) ==
  /\ c \in Stoppers /\ closer[c].pc = "idle"
  /\ closer' = [closer EXCEPT ![c] = [pc |-> IF Limited THEN "lock" ELSE "sweep", taken |-> Shards]]
  /\ UNCHANGED <<scan, reader, sems, registry, thread>>

\* Under the lock: mark closed and take the registered semaphores.
CloseRegistry(c) ==
  /\ closer[c].pc = "lock"
  /\ registry' = [closed |-> TRUE, counts |-> {}]
  /\ closer' = [closer EXCEPT ![c] = [pc |-> "bytes", taken |-> registry.counts]]
  /\ UNCHANGED <<scan, reader, sems, thread>>

CloseBytes(c) ==
  /\ closer[c].pc = "bytes"
  /\ bytes' = Closed(bytes)
  /\ closer' = [closer EXCEPT ![c].pc = "counts"]
  /\ UNCHANGED <<scan, reader, count, registry, thread>>

Rest(c, s) == closer[c].taken \ {s}

\* Close what was taken, then, in request_shutdown, every shard's semaphore.
CloseCount(c) ==
  /\ closer[c].pc \in {"counts", "sweep"} /\ closer[c].taken # {}
  /\ LET s == Min(closer[c].taken)
     IN  /\ count' = [count EXCEPT ![s] = Closed(@)]
         /\ closer' = [closer EXCEPT ![c].taken = Rest(c, s)]
  /\ UNCHANGED <<scan, reader, bytes, registry, thread>>

\* The loop is over: `close` returns; request_shutdown sweeps, then sends.
EndClose(c) ==
  /\ closer[c].pc \in {"counts", "sweep"} /\ closer[c].taken = {}
  /\ closer' = [closer EXCEPT ![c] =
                  IF closer[c].pc = "sweep" THEN [pc |-> "send", taken |-> Shards]
                  ELSE IF c \in Stoppers THEN [pc |-> "sweep", taken |-> Shards]
                  ELSE [pc |-> "done", taken |-> {}]]
  /\ UNCHANGED <<scan, reader, sems, registry, thread>>

\* Msg::Shutdown to one shard after the other; a thread that is gone ignores it.
SendShutdown(c) ==
  /\ closer[c].pc = "send"
  /\ LET s == Min(closer[c].taken)
         rest == closer[c].taken \ {s}
     IN  /\ thread' = [thread EXCEPT ![s] = IF @ = "running" THEN "asked" ELSE @]
         /\ closer' = [closer EXCEPT ![c] = [pc |-> IF rest = {} THEN "done" ELSE "send", taken |-> rest]]
  /\ UNCHANGED <<scan, reader, sems, registry>>

-------------------------------------------------------------------------------
\* A caller inside submit, or returning permits, runs on.
Running(r) == \/ CheckBytes(r) \/ TakeCount(r) \/ RoundRobinMiss(r) \/ ScanMiss(r) \/ EndScan(r)
              \/ TryBytes(r) \/ SendRead(r) \/ ReturnCount(r) \/ ReturnBytes(r)

Poll(r) == PollCount(r) \/ PollBytes(r)

\* Exiting once begun.
Exit(s) == EndDrain(s) \/ DropReceiver(s) \/ ThreadCloses(s)

Close(c) == CloseRegistry(c) \/ CloseBytes(c) \/ CloseCount(c) \/ EndClose(c) \/ SendShutdown(c)

Next ==
  \/ \E r \in Reads : Submit(r) \/ Running(r) \/ Poll(r) \/ DropWaiting(r) \/ Complete(r)
  \/ \E s \in Shards : BeginDrain(s) \/ Exit(s)
  \/ \E c \in Closers : RequestShutdown(c) \/ Close(c)

Spec == Init /\ [][Next]_vars

-------------------------------------------------------------------------------
Deferred == {"deferred", "queued", "granted", "bytes", "bqueued", "bgranted"}
Settled == {"refused", "failed", "dropped", "done", "leaked"}

IsSemaphore(sem) == /\ sem.free \in Nat /\ sem.closed \in BOOLEAN
                    /\ \A i \in DOMAIN sem.queue : sem.queue[i] \in Reads

\* Every variable has its type.
TypeOK ==
  /\ rr \in Shards /\ start \in [Reads -> Shards] /\ at \in [Reads -> Shards]
  /\ waiting \in [Reads -> Shards \cup {NoShard}] /\ owner \in [Reads -> Shards \cup {NoShard}]
  /\ pc \in [Reads -> Deferred \cup Settled \cup
                      {"idle", "check", "scan", "scanned", "trybytes", "sending", "inflight",
                       "retiring", "unwinding"}]
  /\ has \in [Reads -> BOOLEAN] /\ got \in [Reads -> Nat]
  /\ \A s \in Shards : IsSemaphore(count[s])
  /\ IsSemaphore(bytes)
  /\ registry.counts \subseteq Shards

\* No permit is lost or returned twice: a shard's count permits, and the bytes of the
\* budget, are free or with exactly the reads that hold them, partial reservations of
\* waiters included (ReadPermits, acquire_read_permits and their drops).
PermitsConserved ==
  /\ \A s \in Shards : count[s].free + Cardinality({r \in Reads : has[r] /\ owner[r] = s}) = Entries
  /\ bytes.free + MapThenSumSet(LAMBDA r : got[r], Reads) = MaxBytes

\* Permits are held by reads in flight, leaked or on their way, and by deferred reads
\* that wait for the second kind: a read that has settled, or waits for a count permit,
\* holds nothing (try_read_permits and select_read_shard drop what they took).
NothingHeldIdle ==
  \A r \in Reads :
    /\ pc[r] \in (Settled \ {"leaked"}) \cup {"idle", "check", "scan", "scanned", "deferred", "queued"}
         => ~has[r] /\ got[r] = 0
    /\ pc[r] = "inflight" /\ Limited => has[r] /\ got[r] = Charge[r]

\* Every variable has its type, and every permit of either kind is accounted for.
PermitsAccounted == TypeOK /\ PermitsConserved /\ NothingHeldIdle

Closing == \E c \in Closers : closer[c].pc \in {"bytes", "counts", "sweep"}

\* Once admission is closed and no close is in progress, no semaphore is open, though a
\* close that comes second finds nothing to take and may return first (ByteAdmission::close).
CloseIsComplete ==
  (Limited /\ registry.closed /\ ~Closing) =>
    /\ bytes.closed
    /\ \A s \in Shards : count[s].closed

\* "every call closes all admission before returning": concurrent calls included.
ShutdownClosesAll ==
  \A c \in Stoppers : closer[c].pc \in {"send", "done"} =>
    /\ Limited => bytes.closed
    /\ \A s \in Shards : count[s].closed

\* Nobody who closes admission leaves any of it open, whoever else closes it.
ClosedForAll == CloseIsComplete /\ ShutdownClosesAll

\* A read is refused only by a closed byte budget, by its shard if that is fixed, or,
\* under the capacity-aware policy, if every shard is closed (select_read_shard).
RefusedOnlyIfClosed ==
  \A r \in Reads : pc[r] = "refused" =>
    \/ Limited /\ bytes.closed
    \/ ~capacity_aware(r) /\ count[start[r]].closed
    \/ capacity_aware(r) /\ \A s \in Shards : count[s].closed

\* How far behind the start of r's scan shard s lies.
ScanOrder(r, s) == (s - start[r] + NShards) % NShards

\* A capacity-aware read that found no permit waits on the first healthy shard: those
\* it passed over on the way are closed (ShardPolicy::CapacityAware).
WaitsOnFirstHealthy ==
  \A r \in Reads : (capacity_aware(r) /\ pc[r] \in Deferred /\ owner[r] = waiting[r]) =>
    \A s \in Shards : ScanOrder(r, s) < ScanOrder(r, owner[r]) => count[s].closed

\* A read passes over a shard, to wait at another or to be refused, only if it is closed.
PassesOnlyClosed == RefusedOnlyIfClosed /\ WaitsOnFirstHealthy
===============================================================================
