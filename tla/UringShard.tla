------------------------------ MODULE UringShard ------------------------------
(***************************************************************************)
(* One shard of the driver (src/src/driver.rs): the ReadHandles of its     *)
(* callers, the count semaphore, the message channel, the driver thread's  *)
(* turn (`drive`), the io_uring ring and the kernel behind it, and the     *)
(* shutdown of the shard.                                                  *)
(*                                                                         *)
(* Every thread runs in small steps: a caller between acquiring its permit *)
(* and sending its message, a drop between closing the receiver and        *)
(* sending the cancel, the driver between any two messages, SQEs or CQEs,  *)
(* and the kernel completing reads at any time.                            *)
(*                                                                         *)
(* Each read id is used once (ids are monotonic) and has one ReadHandle.   *)
(* The wake-ups of the loop are left out: its poll(2) also returns on the  *)
(* heartbeat, so a turn may start at any time.  Of the counters, those     *)
(* that only count cancel outcomes and submit errors are left out.         *)
(***************************************************************************)
EXTENDS Reap, FiniteSets, Sequences, Functions

CONSTANTS
    Reads,                 \* read ids
    Shape,                 \* the fresh Pending entry of each read
    Results,               \* raw results a read completion may carry
    Entries,               \* permits of the count semaphore
    SqEntries,             \* SQ depth: `entries` rounded up by the kernel
    TURN_MESSAGES, TURN_ALLOCATION, TURN_COMPLETIONS,   \* TurnBudget
    MAX_SUBMIT_ERRORS,     \* MAX_CONSECUTIVE_SUBMIT_ERRORS
    Faults,                \* may io_uring_enter fail or stop early, or the thread panic?
    MayDrop,               \* reads whose caller may drop its handle unresolved
    MayStop                \* may the driver be asked to shut down?

ASSUME ShardAssumption ==
  /\ IsFiniteSet(Reads)
  /\ Shape \in [Reads -> Pending]
  /\ \A r \in Reads : ~Shape[r].cancel_requested
  /\ Results \subseteq Int
  /\ Entries \in Nat \ {0} /\ SqEntries \in Nat /\ SqEntries >= Entries
  /\ TURN_MESSAGES \in Nat \ {0} /\ TURN_COMPLETIONS \in Nat \ {0}
  /\ TURN_ALLOCATION \in Nat \ {0}
  /\ MAX_SUBMIT_ERRORS \in Nat \ {0}
  /\ Faults \in BOOLEAN
  /\ MayDrop \subseteq Reads /\ MayStop \in BOOLEAN

CqEntries == 2 * SqEntries      \* the kernel's default CQ size

VARIABLES
    \* callers
    handle,          \* per read: where its ReadHandle is in its life
    rx_closed,       \* reads whose oneshot receiver is closed
    result,          \* per read: the oneshot's value
    permits, sem_queue, sem_closed,   \* tokio's fair semaphore
    \* the driver thread
    chan,            \* the mpsc channel
    pc,              \* the phase of `drive`
    budget,          \* TurnBudget
    shutting_down, drain_deadline, submit_errors,
    accepted,        \* the current enter has taken an SQE
    pending, entry,  \* the pending table: its keys, and each read's entry
    queued_cancels,
    \* the ring: SQ followed by backlog, and CQ followed by the overflow list
    sqes, sq_len,
    cqes, cq_len,
    kernel,          \* per read: "out", "run"ning or "cancelled" in the kernel
    \* memory: read buffers (with their files) given up, or leaked for good
    freed, leaked,
    stats,
    stopper          \* the thread that shuts the driver down

callers == <<handle, rx_closed, result>>
sem     == <<permits, sem_queue, sem_closed>>
loop    == <<budget, shutting_down, drain_deadline, submit_errors, accepted>>
table   == <<pending, entry, queued_cancels>>
ring    == <<sqes, sq_len, cqes, cq_len, kernel>>
memory  == <<freed, leaked>>
vars    == <<callers, sem, chan, pc, loop, table, ring, memory, stats, stopper>>

ReadMsg(r)   == [type |-> "read", id |-> r]
CancelMsg(r) == [type |-> "cancel", id |-> r]
ShutdownMsg  == [type |-> "shutdown"]
ReadSqe(r)   == [op |-> "read", id |-> r]
CancelSqe(r) == [op |-> "cancel", id |-> r]
ReadCqe(r, res) == [op |-> "read", id |-> r, res |-> res]
CancelCqe(r) == [op |-> "cancel", id |-> r, res |-> 0]

FreshBudget == [messages |-> 0, allocation |-> 0, completions |-> 0]

Init ==
  /\ handle = [r \in Reads |-> "idle"]
  /\ rx_closed = {}
  /\ result = [r \in Reads |-> "none"]
  /\ permits = Entries /\ sem_queue = <<>> /\ sem_closed = FALSE
  /\ chan = <<>>
  /\ pc = "intake" /\ budget = FreshBudget
  /\ shutting_down = FALSE /\ drain_deadline = "unset"
  /\ submit_errors = 0 /\ accepted = FALSE
  /\ pending = {} /\ entry = Shape /\ queued_cancels = {}
  /\ sqes = <<>> /\ sq_len = 0 /\ cqes = <<>> /\ cq_len = 0
  /\ kernel = [r \in Reads |-> "out"]
  /\ freed = {} /\ leaked = {}
  /\ stats = [submitted |-> 0, delivered |-> 0, orphan_reclaimed |-> 0, in_flight |-> 0]
  /\ stopper = "running"

-------------------------------------------------------------------------------
(* Callers: UringDriver::submit from admission on, and ReadHandle.         *)

\* Nothing happens in an aborted process.
Alive == pc # "aborted"

ReceiverGone == pc = "exited"
Sent(m) == IF ReceiverGone THEN chan ELSE Append(chan, m)

\* External: dropping a permit hands it to the first waiter, if there is one.
Release(h) ==
  IF sem_queue = <<>>
  THEN permits' = permits + 1 /\ handle' = h /\ UNCHANGED sem_queue
  ELSE /\ handle' = [h EXCEPT ![Head(sem_queue)] = "granted"]
       /\ sem_queue' = Tail(sem_queue)
       /\ UNCHANGED permits

\* External: a waiter whose acquire future is dropped leaves the queue.
Without(q, r) ==
  IF \A i \in DOMAIN q : q[i] # r THEN q
  ELSE LET at == CHOOSE i \in DOMAIN q : q[i] = r
       IN  [i \in 1..(Len(q) - 1) |-> q[IF i < at THEN i ELSE i + 1]]

\* External: Semaphore::close wakes every waiter, which then sees the error.
CloseSemaphore == sem_closed' = TRUE /\ sem_queue' = <<>>

\* submit: try_acquire decides between sending now, waiting and failing.  The
\* driver is borrowed, so no submit runs once shutdown() has consumed it.
Submit(r) ==
  /\ Alive /\ handle[r] = "idle" /\ stopper \notin {"joining", "joined"}
  /\ \/ /\ sem_closed
        /\ handle' = [handle EXCEPT ![r] = "inert"]
        /\ result' = [result EXCEPT ![r] = "err"]
        /\ UNCHANGED permits
     \/ /\ ~sem_closed /\ permits > 0
        /\ permits' = permits - 1
        /\ handle' = [handle EXCEPT ![r] = "sending"]
        /\ UNCHANGED result
     \/ /\ ~sem_closed /\ permits = 0
        /\ handle' = [handle EXCEPT ![r] = "waiting"]
        /\ UNCHANGED <<permits, result>>
  /\ UNCHANGED <<rx_closed, sem_queue, sem_closed, chan, pc, loop, table, ring, memory, stats, stopper>>

\* The send of Msg::Read, from submit ("sending") or from a poll ("resuming").
\* A send that fails returns the permit and reports the error.
SendRead(r) ==
  /\ Alive /\ handle[r] \in {"sending", "resuming"}
  /\ chan' = Sent(ReadMsg(r))
  /\ IF ReceiverGone
     THEN /\ Release([handle EXCEPT ![r] = IF @ = "sending" THEN "inert" ELSE "finished"])
          /\ result' = [result EXCEPT ![r] = "err"]
     ELSE /\ handle' = [handle EXCEPT ![r] = "submitted"]
          /\ UNCHANGED <<permits, sem_queue, result>>
  /\ UNCHANGED <<rx_closed, sem_closed, pc, loop, table, ring, memory, stats, stopper>>

\* ReadHandle::poll in WaitingPermit: poll the acquire future.
PollAcquire(r) ==
  /\ Alive /\ handle[r] \in {"waiting", "queued", "granted"}
  /\ \/ /\ sem_closed
        /\ result' = [result EXCEPT ![r] = "err"]
        /\ IF handle[r] = "granted"
           THEN Release([handle EXCEPT ![r] = "finished"])
           ELSE handle' = [handle EXCEPT ![r] = "finished"] /\ UNCHANGED <<permits, sem_queue>>
     \/ /\ ~sem_closed /\ handle[r] = "granted"
        /\ handle' = [handle EXCEPT ![r] = "resuming"]
        /\ UNCHANGED <<permits, sem_queue, result>>
     \/ /\ ~sem_closed /\ handle[r] = "waiting" /\ permits > 0
        /\ permits' = permits - 1
        /\ handle' = [handle EXCEPT ![r] = "resuming"]
        /\ UNCHANGED <<sem_queue, result>>
     \/ /\ ~sem_closed /\ handle[r] = "waiting" /\ permits = 0
        /\ handle' = [handle EXCEPT ![r] = "queued"]
        /\ sem_queue' = Append(sem_queue, r)
        /\ UNCHANGED <<permits, result>>
  /\ UNCHANGED <<rx_closed, sem_closed, chan, pc, loop, table, ring, memory, stats, stopper>>

\* ReadHandle::poll of the oneshot: ready with a value or a dropped sender.
PollResult(r) ==
  /\ Alive /\ handle[r] \in {"submitted", "inert"}
  /\ result[r] # "none"
  /\ handle' = [handle EXCEPT ![r] = "finished"]
  /\ UNCHANGED <<rx_closed, result, sem, chan, pc, loop, table, ring, memory, stats, stopper>>

\* ReadHandle::drop.  Before submission only the acquire future goes away, with
\* the permit it may have been granted; an Inert or opted-out handle just drops.
DropQuietly(r) ==
  /\ Alive /\ r \in MayDrop
  /\ handle[r] \in {"waiting", "queued", "granted", "inert", "submitted"}
  /\ rx_closed' = rx_closed \cup {r}
  /\ LET h == [handle EXCEPT ![r] = "dropped"]
     IN  IF handle[r] = "granted" THEN Release(h)
         ELSE /\ handle' = h
              /\ sem_queue' = Without(sem_queue, r)
              /\ UNCHANGED permits
  /\ UNCHANGED <<result, sem_closed, chan, pc, loop, table, ring, memory, stats, stopper>>

\* Defect: the receiver is left open until the cancel is sent.
DropClose_late(r) ==
  /\ Alive /\ r \in MayDrop /\ handle[r] = "submitted"
  /\ handle' = [handle EXCEPT ![r] = "dropping"]
  /\ UNCHANGED <<rx_closed, result, sem, chan, pc, loop, table, ring, memory, stats, stopper>>

\* Defect: the permit goes back with the future instead of with the entry.
DropClose_releasing(r) ==
  /\ Alive /\ r \in MayDrop /\ handle[r] = "submitted"
  /\ Release([handle EXCEPT ![r] = "dropping"])
  /\ rx_closed' = rx_closed \cup {r}
  /\ UNCHANGED <<result, sem_closed, chan, pc, loop, table, ring, memory, stats, stopper>>

\* ReadHandle::drop of a submitted handle: close the receiver, then ...
DropClose(r) ==
  /\ Alive /\ r \in MayDrop /\ handle[r] = "submitted"
  /\ handle' = [handle EXCEPT ![r] = "dropping"]
  /\ rx_closed' = rx_closed \cup {r}
  /\ UNCHANGED <<result, sem, chan, pc, loop, table, ring, memory, stats, stopper>>

\* ... send the cancel (an error is ignored) and wake the driver.
DropSend(r) ==
  /\ Alive /\ handle[r] = "dropping"
  /\ handle' = [handle EXCEPT ![r] = "dropped"]
  /\ chan' = Sent(CancelMsg(r))
  /\ UNCHANGED <<rx_closed, result, sem, pc, loop, table, ring, memory, stats, stopper>>

-------------------------------------------------------------------------------
(* UringDriver::request_shutdown, then shutdown() or drop with its join.   *)

CloseAdmission ==
  /\ Alive /\ MayStop /\ stopper = "running" /\ stopper' = "closed"
  /\ CloseSemaphore
  /\ UNCHANGED <<callers, permits, chan, pc, loop, table, ring, memory, stats>>

RequestShutdown ==
  /\ Alive /\ stopper = "closed" /\ stopper' = "requested"
  /\ chan' = Sent(ShutdownMsg)
  /\ UNCHANGED <<callers, sem, pc, loop, table, ring, memory, stats>>

JoinSend ==
  /\ Alive /\ stopper = "requested" /\ stopper' = "joining"
  /\ \A r \in Reads : handle[r] # "sending"     \* submit still borrows the driver
  /\ chan' = Sent(ShutdownMsg)
  /\ UNCHANGED <<callers, sem, pc, loop, table, ring, memory, stats>>

Joined ==
  /\ stopper = "joining" /\ pc = "exited" /\ stopper' = "joined"
  /\ UNCHANGED <<callers, sem, chan, pc, loop, table, ring, memory, stats>>

-------------------------------------------------------------------------------
(* The driver thread: one turn of `drive`.                                 *)

can_take_message == budget.messages < TURN_MESSAGES /\ budget.allocation < TURN_ALLOCATION
can_reap == budget.completions < TURN_COMPLETIONS

Backlog == Len(sqes) - sq_len         \* SQEs not yet in the SQ
Overflowed == cq_len < Len(cqes)      \* CQEs in the kernel's NODROP list
Least(a, b) == IF a < b THEN a ELSE b

\* Defect: no dedup.
queue_cancels_again(S) ==
  \E order \in Injection(1..Cardinality(S), S) :
     /\ sqes' = sqes \o [i \in DOMAIN order |-> CancelSqe(order[i])]
     /\ queued_cancels' = queued_cancels \cup S

\* queue_cancel for each read of S without one, in the table's arbitrary order.
queue_cancels(S) ==
  \E order \in Injection(1..Cardinality(S \ queued_cancels), S \ queued_cancels) :
     /\ sqes' = sqes \o [i \in DOMAIN order |-> CancelSqe(order[i])]
     /\ queued_cancels' = queued_cancels \cup S

\* The shard starts to drain: every pending read is cancelled.
BeginShutdown == shutting_down' = TRUE /\ queue_cancels(pending)

\* Defect: an error is answered with an empty success.
Answer_ok(r, outcome) == result' = [result EXCEPT ![r] = IF r \in rx_closed THEN @ ELSE "ok"]

\* The oneshot send of an outcome; a closed receiver drops it.
Answer(r, outcome) ==
  result' = [result EXCEPT ![r] = IF r \in rx_closed THEN @
                                  ELSE IF outcome.ok THEN "ok" ELSE "err"]

\* TurnBudget counts every message, whatever it is.
TakeMessage(cost) ==
  /\ pc = "intake" /\ chan # <<>> /\ can_take_message
  /\ chan' = Tail(chan)
  /\ budget' = [budget EXCEPT !.messages = @ + 1, !.allocation = @ + cost]

\* Msg::Read once shutting down: answer with an error, drop the permit.
RejectRead ==
  /\ shutting_down
  /\ TakeMessage(0)
  /\ Head(chan).type = "read"
  /\ Answer(Head(chan).id, Err(EIO))
  /\ Release(handle)
  /\ UNCHANGED <<rx_closed, sem_closed, pc, shutting_down, drain_deadline, submit_errors,
                 accepted, table, ring, memory, stats, stopper>>

\* Msg::Read: the entry owns the buffer, its first SQE joins the backlog.
IntakeRead ==
  /\ ~shutting_down
  /\ chan # <<>> /\ Head(chan).type = "read"
  /\ LET r == Head(chan).id
     IN  /\ TakeMessage(Shape[r].region_len + Shape[r].align - 1)
         /\ pending' = pending \cup {r}
         /\ entry' = [entry EXCEPT ![r] = Shape[r]]
         /\ sqes' = Append(sqes, ReadSqe(r))
         /\ stats' = [stats EXCEPT !.submitted = @ + 1, !.in_flight = @ + 1]
  /\ UNCHANGED <<callers, sem, pc, shutting_down, drain_deadline, submit_errors, accepted,
                 queued_cancels, sq_len, cqes, cq_len, kernel, memory, stopper>>

\* Msg::Cancel: of a read that is gone, nothing; else mark it, cancel it once.
IntakeCancel ==
  /\ TakeMessage(0)
  /\ Head(chan).type = "cancel"
  /\ LET r == Head(chan).id
     IN  IF r \in pending
         THEN /\ entry' = [entry EXCEPT ![r].cancel_requested = TRUE]
              /\ queue_cancels({r})
         ELSE UNCHANGED <<entry, queued_cancels, sqes>>
  /\ UNCHANGED <<callers, sem, pc, shutting_down, drain_deadline, submit_errors, accepted,
                 pending, sq_len, cqes, cq_len, kernel, memory, stats, stopper>>

\* Msg::Shutdown: cancel every pending read.
IntakeShutdown ==
  /\ TakeMessage(0)
  /\ Head(chan).type = "shutdown"
  /\ BeginShutdown
  /\ UNCHANGED <<callers, sem, pc, drain_deadline, submit_errors, accepted,
                 pending, entry, sq_len, cqes, cq_len, kernel, memory, stats, stopper>>

\* Defect: the panic unwinds and frees the table.
Panic_unwinding ==
  /\ Faults /\ pc = "intake" /\ pc' = "aborted"
  /\ freed' = freed \cup pending
  /\ UNCHANGED <<callers, sem, chan, loop, table, ring, leaked, stats, stopper>>

\* A panic of the thread (Msg::TestPanic, or any other): DriverState::drop aborts
\* the process before a field destructor runs.
Panic ==
  /\ Faults /\ pc = "intake" /\ pc' = "aborted"
  /\ UNCHANGED <<callers, sem, chan, loop, table, ring, memory, stats, stopper>>

\* Defect: an empty SQ needs no enter.
needs_enter_sqes(sq) == sq > 0

\* submit_ring, up to the syscall: flush_backlog fills the SQ; submit_if_needed
\* enters the kernel for SQEs or for overflowed CQEs (GETEVENTS).
needs_enter(sq) == sq > 0 \/ Overflowed

\* Defect: pushes past a full SQ.
flush_all == Len(sqes)

flush_backlog == Least(Len(sqes), SqEntries)

submit_ring(entering, idle) ==
  /\ sq_len' = flush_backlog
  /\ pc' = IF needs_enter(sq_len') THEN entering ELSE idle
  /\ UNCHANGED <<callers, sem, chan, shutting_down, drain_deadline, submit_errors, accepted,
                 table, sqes, cqes, cq_len, kernel, memory, stats, stopper>>

\* Intake ends on an empty channel or a spent budget.
EndIntake ==
  /\ pc = "intake" /\ (chan = <<>> \/ ~can_take_message)
  /\ budget' = FreshBudget
  /\ submit_ring("enter1", "reap")

AfterEnter == IF pc = "enter1" THEN "reap" ELSE "check"

\* handle_submit_result, Ok: unless the kernel stops early the SQ is empty by
\* now.  The enter has moved overflowed CQEs into the CQ as far as it has room.
EnterReturns ==
  /\ pc \in {"enter1", "enter2"}
  /\ sq_len = 0 \/ Faults
  /\ submit_errors' = 0
  /\ cq_len' = Least(Len(cqes), CqEntries)
  /\ pc' = AfterEnter /\ accepted' = FALSE
  /\ UNCHANGED <<callers, sem, chan, budget, shutting_down, drain_deadline,
                 table, sqes, sq_len, cqes, kernel, memory, stats, stopper>>

\* EBUSY and EINTR: nothing happened, retry next turn without counting.
EnterRetries ==
  /\ pc \in {"enter1", "enter2"}
  /\ Faults /\ ~accepted
  /\ submit_errors' = 0
  /\ pc' = AfterEnter /\ accepted' = FALSE
  /\ UNCHANGED <<callers, sem, chan, budget, shutting_down, drain_deadline,
                 table, ring, memory, stats, stopper>>

\* Any other errno is counted (the count only matters up to its threshold); a
\* run of them shuts the shard down.  An enter that took an SQE reports Ok.
EnterFails ==
  /\ pc \in {"enter1", "enter2"}
  /\ Faults /\ ~accepted
  /\ submit_errors' = Least(submit_errors + 1, MAX_SUBMIT_ERRORS)
  /\ IF ~shutting_down /\ submit_errors' = MAX_SUBMIT_ERRORS
     THEN BeginShutdown
     ELSE UNCHANGED <<shutting_down, queued_cancels, sqes>>
  /\ pc' = AfterEnter /\ accepted' = FALSE
  /\ UNCHANGED <<callers, sem, chan, budget, drain_deadline, pending, entry,
                 sq_len, cqes, cq_len, kernel, memory, stats, stopper>>

\* The reap loop takes the next CQE.  One that completes a pending read is that
\* read's completion; others (a cancel's result, an unknown id) are only counted.
NextCqe ==
  /\ pc = "reap" /\ cq_len > 0 /\ can_reap
  /\ cqes' = Tail(cqes) /\ cq_len' = cq_len - 1
  /\ budget' = [budget EXCEPT !.completions = @ + 1]

IsReadCompletion(c) == c.op = "read" /\ c.id \in pending

ReapIgnored ==
  /\ NextCqe
  /\ ~IsReadCompletion(Head(cqes))
  /\ UNCHANGED <<callers, sem, chan, pc, shutting_down, drain_deadline, submit_errors,
                 accepted, table, sqes, sq_len, kernel, memory, stats, stopper>>

Step(r, res) == reap_read(entry[r], res, shutting_down, 0, r \in rx_closed)

\* Defect: an orphan stays in flight.
FinishStats_orphan(r) ==
  IF r \in rx_closed THEN [stats EXCEPT !.orphan_reclaimed = @ + 1]
  ELSE [stats EXCEPT !.delivered = @ + 1, !.in_flight = @ - 1]

FinishStats(r) ==
  IF r \in rx_closed THEN [stats EXCEPT !.orphan_reclaimed = @ + 1, !.in_flight = @ - 1]
  ELSE [stats EXCEPT !.delivered = @ + 1, !.in_flight = @ - 1]

\* ReapStep::Finish: answer, count, forget the cancel; with the entry go the
\* buffer, the file and the permit.
ReapFinish ==
  /\ NextCqe /\ IsReadCompletion(Head(cqes))
  /\ LET r == Head(cqes).id
         step == Step(r, Head(cqes).res)
     IN  /\ step.step = "finish"
         /\ pending' = pending \ {r} /\ entry' = [entry EXCEPT ![r] = Shape[r]]
         /\ Answer(r, step.outcome)
         /\ stats' = FinishStats(r)
         /\ queued_cancels' = queued_cancels \ {r}
         /\ freed' = freed \cup {r}
  /\ Release(handle)
  /\ UNCHANGED <<rx_closed, sem_closed, chan, pc, shutting_down, drain_deadline, submit_errors,
                 accepted, sqes, sq_len, kernel, leaked, stopper>>

\* ReapStep::Resubmit: the entry stays, the rest of the read joins the backlog.
ReapResubmit ==
  /\ NextCqe /\ IsReadCompletion(Head(cqes))
  /\ LET r == Head(cqes).id
         step == Step(r, Head(cqes).res)
     IN  /\ step.step = "resubmit"
         /\ entry' = [entry EXCEPT ![r] = step.p]
         /\ sqes' = Append(sqes, ReadSqe(r))
  /\ UNCHANGED <<callers, sem, chan, pc, shutting_down, drain_deadline, submit_errors,
                 accepted, pending, queued_cancels, sq_len, kernel, memory, stats, stopper>>

\* Reap ends on an empty CQ or a spent budget; then the second submit_ring.
EndReap ==
  /\ pc = "reap" /\ (cq_len = 0 \/ ~can_reap)
  /\ budget' = FreshBudget
  /\ submit_ring("enter2", "check")

\* Defect: the exit test looks at the backlog only.
Drained_backlog == Backlog = 0

\* The exit test.  It does not look at the SQ, where only cancels can be left.
Drained == pending = {} /\ Backlog = 0

\* Defect: the drain has no deadline.
Deadline_never == drain_deadline

\* drain_deadline.get_or_insert_with, on a turn that did not drain.
Deadline == IF shutting_down THEN "armed" ELSE drain_deadline

\* The end of a turn that neither drains nor gives up.
EndTurn ==
  /\ pc = "check"
  /\ ~(shutting_down /\ Drained)
  /\ drain_deadline # "expired"
  /\ drain_deadline' = Deadline
  /\ pc' = "intake"
  /\ UNCHANGED <<callers, sem, chan, budget, shutting_down, submit_errors, accepted,
                 table, ring, memory, stats, stopper>>

\* DRAIN_TIMEOUT after the first shutting-down turn that did not drain.
DeadlinePasses ==
  /\ Alive /\ drain_deadline = "armed" /\ drain_deadline' = "expired"
  /\ UNCHANGED <<callers, sem, chan, pc, budget, shutting_down, submit_errors, accepted,
                 table, ring, memory, stats, stopper>>

\* Drained: close the semaphore and return.
DrainedExit ==
  /\ pc = "check" /\ shutting_down /\ Drained
  /\ CloseSemaphore
  /\ pc' = "returning"
  /\ UNCHANGED <<callers, permits, chan, loop, table, ring, memory, stats, stopper>>

\* Defect: the table is leaked with the senders in it.
FailStranded_nobody == result

FailStranded == [r \in Reads |-> IF r \in pending \ rx_closed THEN "err" ELSE result[r]]

\* Defect: the semaphore stays open, with the leaked permits gone for good.
LeakExit_open ==
  /\ pc = "check" /\ shutting_down /\ ~Drained
  /\ drain_deadline = "expired"
  /\ result' = FailStranded
  /\ leaked' = leaked \cup pending /\ pending' = {}
  /\ pc' = "returning"
  /\ UNCHANGED <<handle, rx_closed, sem, chan, loop, entry, queued_cancels, ring,
                 freed, stats, stopper>>

\* Bounded drain: fail every stranded caller, close the semaphore, and leak the
\* ring with the buffers the kernel may still write to.
LeakExit ==
  /\ pc = "check" /\ shutting_down /\ ~Drained
  /\ drain_deadline = "expired"
  /\ result' = FailStranded
  /\ CloseSemaphore
  /\ leaked' = leaked \cup pending /\ pending' = {}
  /\ pc' = "returning"
  /\ UNCHANGED <<handle, rx_closed, permits, chan, loop, entry, queued_cancels, ring,
                 freed, stats, stopper>>

QueuedReads == {m.id : m \in {x \in Range(chan) : x.type = "read"}}

\* Defect: the leaked state is dropped after all.
ThreadExit_dropping ==
  /\ pc = "returning" /\ pc' = "exited"
  /\ freed' = freed \cup pending \cup leaked /\ leaked' = {} /\ pending' = {}
  /\ chan' = <<>>
  /\ result' = [r \in Reads |-> IF r \in QueuedReads \ rx_closed THEN "gone" ELSE result[r]]
  /\ permits' = permits + Cardinality(QueuedReads \cup leaked)
  /\ UNCHANGED <<handle, rx_closed, sem_queue, sem_closed, loop, entry, queued_cancels, ring, stats, stopper>>

\* `drive` returns: what is still in the table is freed and the ring unmapped,
\* unless leaked; the receiver goes away with every message still queued, and
\* with those their oneshot senders and permits.
ThreadExit ==
  /\ pc = "returning" /\ pc' = "exited"
  /\ freed' = freed \cup pending /\ pending' = {}
  /\ chan' = <<>>
  /\ result' = [r \in Reads |-> IF r \in QueuedReads \ rx_closed THEN "gone" ELSE result[r]]
  /\ permits' = permits + Cardinality(QueuedReads)
  /\ UNCHANGED <<handle, rx_closed, sem_queue, sem_closed, loop, entry, queued_cancels, ring,
                 leaked, stats, stopper>>

-------------------------------------------------------------------------------
(* External: the kernel.                                                   *)

\* A CQE is posted to the CQ, or behind others to the overflow list (NODROP).
Post(c) ==
  /\ cqes' = Append(cqes, c)
  /\ cq_len' = IF ~Overflowed /\ cq_len < CqEntries THEN cq_len + 1 ELSE cq_len

InEnter == pc \in {"enter1", "enter2"} /\ sq_len > 0

TakeSqe ==
  /\ InEnter
  /\ sqes' = Tail(sqes) /\ sq_len' = sq_len - 1
  /\ accepted' = TRUE
  /\ UNCHANGED <<callers, sem, chan, pc, budget, shutting_down, drain_deadline, submit_errors,
                 table, memory, stats, stopper>>

\* A read SQE starts a read.
KernelTakesRead ==
  /\ TakeSqe /\ Head(sqes).op = "read"
  /\ kernel' = [kernel EXCEPT ![Head(sqes).id] = "run"]
  /\ UNCHANGED <<cqes, cq_len>>

\* An AsyncCancel reports 0 and the read will end with ECANCELED, or EALREADY
\* (it is executing) or ENOENT (no such read) and the read goes on.
KernelTakesCancel ==
  /\ TakeSqe /\ Head(sqes).op = "cancel"
  /\ LET r == Head(sqes).id
     IN  \/ kernel[r] = "run" /\ kernel' = [kernel EXCEPT ![r] = "cancelled"]
         \/ UNCHANGED kernel
  /\ Post(CancelCqe(Head(sqes).id))

\* A read ends: with a result no larger than what was asked for, or cancelled.
KernelCompletes(r, res) ==
  /\ Alive
  /\ \/ kernel[r] = "run" /\ res \in Results
        /\ res <= entry[r].region_len - entry[r].nread
     \/ kernel[r] = "cancelled" /\ res = -ECANCELED
  /\ kernel' = [kernel EXCEPT ![r] = "out"]
  /\ Post(ReadCqe(r, res))
  /\ UNCHANGED <<callers, sem, chan, pc, loop, table, sqes, sq_len, memory, stats, stopper>>

-------------------------------------------------------------------------------
Poll(r) == PollAcquire(r) \/ PollResult(r)

Caller(r) == Submit(r) \/ SendRead(r) \/ Poll(r) \/ DropQuietly(r) \/ DropClose(r) \/ DropSend(r)

Stopper == CloseAdmission \/ RequestShutdown \/ JoinSend \/ Joined

\* The steps of the driver thread outside the kernel.
Driver == \/ RejectRead \/ IntakeRead \/ IntakeCancel \/ IntakeShutdown \/ EndIntake
          \/ EnterReturns \/ EnterRetries \/ EnterFails
          \/ ReapIgnored \/ ReapFinish \/ ReapResubmit \/ EndReap
          \/ EndTurn \/ DrainedExit \/ LeakExit \/ ThreadExit

\* The part of io_uring_enter that runs inside the driver's syscall.
TakesSqe == KernelTakesRead \/ KernelTakesCancel

Kernel == \/ TakesSqe
          \/ \E r \in Reads, res \in Results \cup {-ECANCELED} : KernelCompletes(r, res)

Next == \/ \E r \in Reads : Caller(r)
        \/ Stopper
        \/ Driver
        \/ Panic
        \/ DeadlinePasses
        \/ Kernel

Spec == Init /\ [][Next]_vars

\* What a live process may count on: the driver thread runs (its poll returns at
\* the heartbeat) and its syscalls return, time passes, callers inside a call
\* finish it, the stopping thread goes on once it has begun, and tasks poll what
\* they await.  No read need ever complete.
HungKernelSpec ==
  /\ Spec
  /\ WF_vars(Driver \/ TakesSqe)
  /\ WF_vars(DeadlinePasses)
  /\ WF_vars(RequestShutdown \/ JoinSend \/ Joined)
  /\ \A r \in Reads : WF_vars(SendRead(r) \/ DropSend(r) \/ Poll(r))

\* A healthy kernel answers every read, and io_uring_enter does not fail, or leave
\* SQEs untaken, for ever.
HealthyKernel ==
  /\ SF_vars(TakesSqe)
  /\ SF_vars(EnterReturns)
  /\ \A r \in Reads : WF_vars(\E res \in Results \cup {-ECANCELED} : KernelCompletes(r, res))

-------------------------------------------------------------------------------
Message == [type : {"read", "cancel"}, id : Reads] \cup {ShutdownMsg}
Sqe == [op : {"read", "cancel"}, id : Reads]
Cqe == [op : {"read", "cancel"}, id : Reads, res : Int]

HandleState == {"idle", "sending", "waiting", "queued", "granted", "resuming", "submitted",
                "inert", "dropping", "dropped", "finished"}

\* Every variable has its type, and the visible parts of the two rings fit them.
TypeOK ==
  /\ handle \in [Reads -> HandleState]
  /\ rx_closed \subseteq Reads
  /\ result \in [Reads -> {"none", "ok", "err", "gone"}]
  /\ permits \in Nat /\ sem_queue \in Seq(Reads) /\ sem_closed \in BOOLEAN
  /\ chan \in Seq(Message)
  /\ pc \in {"intake", "enter1", "reap", "enter2", "check", "returning", "exited", "aborted"}
  /\ budget \in [messages : Nat, allocation : Nat, completions : Nat]
  /\ shutting_down \in BOOLEAN /\ drain_deadline \in {"unset", "armed", "expired"}
  /\ submit_errors \in Nat /\ accepted \in BOOLEAN
  /\ pending \subseteq Reads /\ entry \in [Reads -> Pending] /\ queued_cancels \subseteq Reads
  /\ sqes \in Seq(Sqe) /\ sq_len \in 0..Len(sqes) /\ sq_len <= SqEntries
  /\ cqes \in Seq(Cqe) /\ cq_len \in 0..Len(cqes) /\ cq_len <= CqEntries
  /\ kernel \in [Reads -> {"out", "run", "cancelled"}]
  /\ freed \subseteq Reads /\ leaked \subseteq Reads
  /\ stats \in [submitted : Nat, delivered : Nat, orphan_reclaimed : Nat, in_flight : Nat]
  /\ stopper \in {"running", "closed", "requested", "joining", "joined"}

\* The kernel may write to a read's buffer, or will be asked to.
MayBeWritten(r) == kernel[r] # "out" \/ ReadSqe(r) \in Range(sqes)

\* Cancel safety: no buffer (nor file) is given up while the kernel may still
\* write to it or an SQE over it is queued, whatever the caller, a shutdown, a
\* bounded drain or a panic do (the pending table's ownership rule).
NoUseAfterFree == \A r \in Reads : MayBeWritten(r) => r \notin freed

\* The ring is unmapped only when the kernel has no read left in it: a thread that
\* exited either drained every read or leaked the ring with the stranded ones.
CleanExitIsDrained ==
  pc = "exited" => \A r \in Reads : MayBeWritten(r) => r \in leaked

Owned == pending \cup leaked
Unsent == {"idle", "sending", "waiting", "queued", "granted", "resuming"}

\* A queued Msg::Read is the only trace of its read.
MessageStage ==
  \A i \in DOMAIN chan : chan[i].type = "read" =>
    /\ handle[chan[i].id] \notin Unsent
    /\ chan[i].id \notin Owned \cup freed
    /\ result[chan[i].id] = "none"
    /\ \A j \in DOMAIN chan : chan[j] = chan[i] => j = i

\* A queued read SQE is its read's only one, and the kernel does not have the read.
SqeStage ==
  \A i \in DOMAIN sqes : sqes[i].op = "read" =>
    /\ sqes[i].id \in Owned /\ kernel[sqes[i].id] = "out"
    /\ \A j \in DOMAIN sqes : sqes[j] = sqes[i] => j = i

\* So is an unreaped read CQE; its read has no SQE either.
CqeStage ==
  \A i \in DOMAIN cqes : cqes[i].op = "read" =>
    /\ cqes[i].id \in Owned /\ kernel[cqes[i].id] = "out"
    /\ \A j \in DOMAIN sqes : sqes[j] # ReadSqe(cqes[i].id)
    /\ \A j \in DOMAIN cqes : cqes[j].op = "read" /\ cqes[j].id = cqes[i].id => j = i

KernelStage == \A r \in Reads : kernel[r] # "out" => r \in Owned

UnsentStage ==
  \A r \in Reads : handle[r] \in Unsent => r \notin Owned \cup freed /\ result[r] = "none"

TableStage ==
  /\ pending \cap leaked = {} /\ Owned \cap freed = {}
  /\ \A r \in pending : result[r] = "none"
  /\ leaked # {} => pc \in {"returning", "exited"}
  /\ pc \in {"returning", "exited"} => pending = {}

Waiters ==
  /\ \A i \in DOMAIN sem_queue :
       /\ handle[sem_queue[i]] = "queued"
       /\ \A j \in DOMAIN sem_queue : sem_queue[j] = sem_queue[i] => j = i
  /\ sem_closed => sem_queue = <<>>

\* A read is in one stage at a time: not sent, a message, an SQE, in the kernel, a
\* CQE, or over; the table owns it from message to end and nobody is answered
\* before.  This is what lets `drive` free a buffer when it sees a CQE's id.
OneStage ==
  /\ MessageStage /\ SqeStage /\ CqeStage /\ KernelStage
  /\ UnsentStage /\ TableStage /\ Waiters

\* A permit is free, in the hands of one caller or message, or with one entry of
\* the pending table (leaked ones included): none is lost or released twice.
PermitHolders ==
  {r \in Reads : handle[r] \in {"sending", "resuming", "granted"}}
  \cup QueuedReads \cup Owned
PermitsConserved == permits + Cardinality(PermitHolders) = Entries

\* submitted = delivered + orphan_reclaimed + in_flight, and in_flight counts the
\* table: the snapshot `shutdown` returns is 0 exactly after a clean drain.
StatsConserved ==
  /\ stats.submitted = stats.delivered + stats.orphan_reclaimed + stats.in_flight
  /\ stats.in_flight = Cardinality(Owned)

\* queue_cancel: at most one AsyncCancel per read is ever queued, in the kernel or
\* unreaped, and the dedup set stays within the table.
OneCancelPerRead ==
  /\ queued_cancels \subseteq Owned
  /\ \A r \in Reads :
       Cardinality({i \in DOMAIN sqes : sqes[i] = CancelSqe(r)})
         + Cardinality({i \in DOMAIN cqes : cqes[i] = CancelCqe(r)}) <= 1

\* However a shard came to shut down, every read in its table has been cancelled,
\* so no admitted read waits for the drain deadline without having been asked to stop.
ShutdownCancelsAll ==
  \A r \in pending : shutting_down \/ entry[r].cancel_requested => r \in queued_cancels

\* What is to be cancelled is cancelled, and once.
CancelledOnce == OneCancelPerRead /\ ShutdownCancelsAll

\* Once the thread has exited no submitted handle is left waiting: its value was
\* sent, or its sender dropped with the queued message.
NobodyStranded ==
  pc = "exited" => \A r \in Reads : handle[r] = "submitted" => result[r] # "none"

\* A read that is told to stop is over.  A cancel sent by ReadHandle::drop finds its
\* receiver closed, so that what the read completes with is an orphan, never a delivery
\* (the close-before-send order).  And no further kernel read is queued for one that was
\* cancelled or whose shard is shutting down: its next completion is its last (reap_read).
StoppedIsOver ==
  [][\A r \in Reads :
       /\ (CancelMsg(r) \in Range(chan) \/ (r \in pending /\ entry[r].cancel_requested))
            => result'[r] = result[r]
       /\ r \in pending /\ (shutting_down \/ entry[r].cancel_requested)
            /\ ReadSqe(r) \notin Range(sqes) => ReadSqe(r) \notin Range(sqes')]_vars

Ownership == INSTANCE ReadOwnership WITH
  owner  <- [r \in Reads |-> IF r \in pending THEN "driver" ELSE IF r \in freed THEN "reclaimed"
                             ELSE IF r \in leaked THEN "leaked" ELSE "nobody"],
  io     <- [r \in Reads |-> kernel[r] # "out"],
  answer <- result

\* The shard implements ReadOwnership: its table, rings and shutdown paths keep the
\* promise that a buffer is reclaimed only between kernel reads, and a read
\* answered at most once.
KeepsOwnership == Ownership!Spec

\* Completions never outnumber the CQ (comments at DriverStats::cq_overflow, in
\* start_shard and in drive).
CqNeverOverflows == ~Overflowed

\* Unless enters fail, a completion stays in the overflow list past the reap phase
\* only behind a full CQ: the second submit enters the kernel for it even with an
\* empty SQ, so the next turn sees it (submit_if_needed's comment).
OverflowFetched ==
  (~Faults /\ pc \notin {"reap", "enter2"} /\ Overflowed) => cq_len = CqEntries

\* shutdown() returns, even if the kernel never answers: the drain is bounded.
ShutdownReturns == stopper = "closed" ~> (stopper = "joined" \/ pc = "aborted")

\* After a shutdown request every awaited handle resolves, hung kernel or not.
ShutdownSettlesAll ==
  \A r \in Reads : (stopper # "running" /\ handle[r] # "idle")
                     ~> (handle[r] \in {"finished", "dropped"} \/ pc = "aborted")

\* With a healthy kernel every read that is awaited resolves, deferred ones
\* (waiting for a permit) included, shutdown or none.
ReadsSettle ==
  HealthyKernel =>
    \A r \in Reads : handle[r] # "idle" ~> (handle[r] \in {"finished", "dropped"} \/ pc = "aborted")
===============================================================================
