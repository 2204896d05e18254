----------------------------- MODULE LogicalRead ------------------------------
(***************************************************************************)
(* One logical read, from the caller's request to the bytes it is handed:  *)
(* the checks of `submit`, the allocation and geometry of the driver's     *)
(* intake, each kernel read the driver asks for (`Pending::read_sqe`), the *)
(* decision after each completion (`reap_read`) and the result that        *)
(* reaches the receiver.  The scheduling of many reads is UringShard's.    *)
(*                                                                         *)
(* The byte of the file at position x is x itself, so that a buffer shows  *)
(* where each of its bytes came from.  Others may append to the file and   *)
(* truncate it meanwhile: between two kernel reads, and between a read     *)
(* that stopped off the block grid and the metadata call by which          *)
(* `reap_read` tells the tail from a failure.  A stream starts at 0.       *)
(***************************************************************************)
EXTENDS ReadGeometry

CONSTANTS
    Requests,    \* the requests callers may make: [offset, len, align, stream]
    FileLens,    \* the lengths a file may have
    Changing,    \* requests whose file others change
    MaxResizes   \* bound: changes of its length

ASSUME LogicalReadAssumption ==
  /\ Requests \subseteq [offset : Nat, len : Nat, align : Nat, stream : BOOLEAN]
  /\ \A q \in Requests : q.stream => q.offset = CURRENT_POSITION /\ q.align = 1
  /\ FileLens \subseteq Nat /\ MaxResizes \in Nat

VARIABLES
    req, flen,         \* the request and the length of its file
    pc,                \* "submit", "message", "sqe", "cqe", "send", "done"
    p,                 \* the Pending entry
    pad, buf,          \* where the read region starts, and the allocation
    sqe,               \* the outstanding kernel read: [off, pos, len]
    res,               \* its raw result
    shutting_down,     \* the driver's flag
    rx_closed,         \* the caller dropped its end of the oneshot
    outcome, data,     \* io::Result<Vec<u8>>: status and bytes
    received,          \* the send found the receiver open
    resizes, shortest, longest   \* ghosts: changes of the file's length, its extremes

file == <<flen, resizes, shortest, longest>>
vars == <<req, file, pc, p, pad, buf, sqe, res, shutting_down, rx_closed,
          outcome, data, received>>

Unwritten == -1        \* a zero-filled byte the kernel never wrote
NoBytes == [i \in {} |-> Unwritten]
NoPending == [offset |-> 0, nread |-> 0, head |-> 0, want |-> 0, region_len |-> 0,
              align |-> 1, transient_retries |-> 0, cancel_requested |-> FALSE]
NoSqe == [off |-> 0, pos |-> 0, len |-> 0]

Init ==
  /\ req \in Requests
  /\ flen \in FileLens
  /\ pc = "submit"
  /\ p = NoPending /\ pad = 0 /\ buf = NoBytes
  /\ sqe = NoSqe /\ res = 0
  /\ shutting_down = FALSE /\ rx_closed = FALSE
  /\ outcome = Ok(0) /\ data = NoBytes /\ received = FALSE
  /\ resizes = 0 /\ shortest = flen /\ longest = flen

\* Pending::read_sqe: the remainder of the region, at the matching file offset.
read_sqe(q, start) ==
  [off |-> q.offset + q.nread, pos |-> start + q.nread, len |-> q.region_len - q.nread]

Least(a, b) == IF a < b THEN a ELSE b

Settle(result) == /\ pc' = "send"
                  /\ outcome' = result

\* UringDriver::submit: an invalid request gets its error at once.
Submit ==
  /\ pc = "submit"
  /\ IF Accepted(req.offset, req.len, req.align, req.stream)
     THEN pc' = "message" /\ UNCHANGED <<outcome, received>>
     ELSE pc' = "done" /\ outcome' = Err(EINVAL) /\ received' = TRUE
  /\ UNCHANGED <<req, file, p, pad, buf, sqe, res, shutting_down, rx_closed, data>>

\* drive, Msg::Read: the entry is built, then the first SQE from it.
Intake ==
  /\ pc = "message"
  /\ IF shutting_down
     THEN Settle(Err(EIO)) /\ UNCHANGED <<p, pad, buf, sqe>>
     ELSE LET g == aligned_geometry(req.offset, req.len, req.align)
          IN  /\ p' = [offset |-> g.kernel_offset, nread |-> 0, head |-> g.head,
                       want |-> req.len, region_len |-> g.region_len, align |-> req.align,
                       transient_retries |-> 0, cancel_requested |-> FALSE]
              /\ pad' \in 0..(req.align - 1)         \* align_offset of the allocation
              /\ buf' = [i \in 0..(Allocation(g.region_len, req.align) - 1) |-> Unwritten]
              /\ sqe' = read_sqe(p', pad')
              /\ pc' = "sqe"
              /\ UNCHANGED outcome
  /\ UNCHANGED <<req, file, res, shutting_down, rx_closed, data, received>>

\* Where the kernel reads from: a stream is read at its own position.
Source(s) == IF s.off = CURRENT_POSITION THEN 0 ELSE s.off

\* External: the kernel reads n bytes, no more than were asked for or exist.
KernelReads(n) ==
  /\ pc = "sqe"
  /\ n \in 1..sqe.len
  /\ Source(sqe) + n <= flen
  /\ res' = n
  /\ buf' = [i \in DOMAIN buf |-> IF i \in sqe.pos..(sqe.pos + n - 1)
                                  THEN Source(sqe) + (i - sqe.pos) ELSE buf[i]]
  /\ pc' = "cqe"
  /\ UNCHANGED <<req, file, p, pad, sqe, shutting_down, rx_closed, outcome, data, received>>

\* External: end of file or an empty request reads nothing; a read may be
\* interrupted, fail, or be cancelled if an AsyncCancel was queued for it.
KernelReturns(r) ==
  /\ pc = "sqe"
  /\ \/ r = 0 /\ (sqe.len = 0 \/ Source(sqe) >= flen)
     \/ r \in {-EINTR, -EAGAIN, -EIO}
     \/ r = -ECANCELED /\ (p.cancel_requested \/ shutting_down)
  /\ res' = r
  /\ pc' = "cqe"
  /\ UNCHANGED <<req, file, p, pad, buf, sqe, shutting_down, rx_closed, outcome, data, received>>

\* drive, reap of a read CQE.  The metadata call sees the file's length or fails.
Reap ==
  /\ pc = "cqe"
  /\ \E file_len \in {flen, -EIO} :
       LET r == reap_read(p, res, shutting_down, file_len, rx_closed)
       IN  /\ p' = r.p
           /\ \/ /\ r.step = "finish"
                 /\ Settle(r.outcome)
                 /\ data' = [i \in 0..(r.outcome.val - 1) |->
                               IF r.outcome.ok THEN buf[pad + r.p.head + i] ELSE Unwritten]
                 /\ UNCHANGED sqe
              \/ /\ r.step = "resubmit"
                 /\ sqe' = read_sqe(r.p, pad)
                 /\ pc' = "sqe"
                 /\ UNCHANGED <<outcome, data>>
  /\ UNCHANGED <<req, file, pad, buf, res, shutting_down, rx_closed, received>>

\* The oneshot send: a closed receiver turns the result into an orphan.
Send ==
  /\ pc = "send"
  /\ received' = ~rx_closed
  /\ pc' = "done"
  /\ UNCHANGED <<req, file, p, pad, buf, sqe, res, shutting_down, rx_closed, outcome, data>>

\* ReadHandle::drop with cancel_on_drop opted out: only the receiver goes away.
DropReceiver ==
  /\ pc \notin {"submit", "done"} /\ ~rx_closed
  /\ rx_closed' = TRUE
  /\ UNCHANGED <<req, file, pc, p, pad, buf, sqe, res, shutting_down, outcome, data, received>>

\* Msg::Cancel taken by the driver: ReadHandle::drop closed the receiver before it.
Cancel ==
  /\ pc \in {"sqe", "cqe"} /\ rx_closed
  /\ ~p.cancel_requested
  /\ p' = [p EXCEPT !.cancel_requested = TRUE]
  /\ UNCHANGED <<req, file, pc, pad, buf, sqe, res, shutting_down, rx_closed, outcome, data, received>>

\* Msg::Shutdown taken by the driver.
Shutdown ==
  /\ pc \notin {"submit", "done"} /\ ~shutting_down
  /\ shutting_down' = TRUE
  /\ UNCHANGED <<req, file, pc, p, pad, buf, sqe, res, rx_closed, outcome, data, received>>

\* External: another process truncates the file or appends to it.
Resize ==
  /\ req \in Changing /\ resizes < MaxResizes /\ pc # "done"
  /\ flen' \in FileLens \ {flen}
  /\ resizes' = resizes + 1
  /\ shortest' = Least(shortest, flen')
  /\ longest' = IF longest < flen' THEN flen' ELSE longest
  /\ UNCHANGED <<req, pc, p, pad, buf, sqe, res, shutting_down, rx_closed, outcome, data, received>>

Kernel == \/ \E n \in 1..sqe.len : KernelReads(n)
          \/ \E r \in {0, -EINTR, -EAGAIN, -EIO, -ECANCELED} : KernelReturns(r)

Progress == Submit \/ Intake \/ Kernel \/ Reap \/ Send

Next == Progress \/ DropReceiver \/ Cancel \/ Shutdown \/ Resize

Spec == Init /\ [][Next]_vars

\* The caller, the driver thread and a kernel that answers every read.
FairSpec == Spec /\ WF_vars(Progress)

-------------------------------------------------------------------------------
\* Every variable has its type.
TypeOK ==
  /\ req \in Requests /\ flen \in FileLens
  /\ pc \in {"submit", "message", "sqe", "cqe", "send", "done"}
  /\ p \in Pending
  /\ pad \in Nat
  /\ sqe \in [off : Nat, pos : Nat, len : Nat]
  /\ res \in Int
  /\ {shutting_down, rx_closed, received} \subseteq BOOLEAN
  /\ outcome \in Outcome

Positive(a) == IF a > 0 THEN a ELSE 0

\* A success that reaches the caller of a positioned read is the whole logical
\* range that exists: as long as the request, shortened only by the end of the
\* file, and byte for byte the file's from `offset` on.  Short reads, retries,
\* O_DIRECT head and tail padding, cancellation and shutdown never show through
\* (reap_read, deliver, read_sqe).  A stream gets a prefix of what was read.  (Of a
\* file that nobody changes; ShortOnlyAtEof is about the others.)
ExactRange ==
  (received /\ outcome.ok /\ resizes = 0) =>
    IF req.stream
    THEN outcome.val <= req.len /\ \A i \in 0..(outcome.val - 1) : data[i] = i
    ELSE /\ outcome.val = Positive(Least(req.len, flen - req.offset))
         /\ \A i \in 0..(outcome.val - 1) : data[i] = req.offset + i

\* A short success is never made up, though the file changes under the read: it did end
\* where the result ends, or before it, at some moment, and never has the caller more
\* than the file has held; every byte is the one at its place (reap_read's tail test).
ShortOnlyAtEof ==
  (received /\ outcome.ok /\ ~req.stream) =>
    /\ outcome.val < req.len => shortest <= req.offset + outcome.val
    /\ outcome.val > 0 => req.offset + outcome.val <= longest
    /\ \A i \in 0..(outcome.val - 1) : data[i] = req.offset + i

\* What a caller receives is right, of a file that stays as it is and of one that changes.
ResultExact == ExactRange /\ ShortOnlyAtEof

\* Every kernel read the driver asks for stays inside the buffer it allocated,
\* ends at or below i64::MAX (a stream has no position) and never asks for zero
\* bytes unless the caller did: read_sqe's SAFETY comment and submit's end check.
SqeInBounds ==
  pc = "sqe" =>
    /\ \A i \in sqe.pos..(sqe.pos + sqe.len - 1) : i \in DOMAIN buf
    /\ sqe.len <= MAX_READ_LEN
    /\ sqe.len = 0 => req.len = 0
    /\ IF req.stream THEN sqe.off = CURRENT_POSITION ELSE sqe.off + sqe.len <= I64_MAX

\* O_DIRECT: offset, address and length of every kernel read are multiples of the
\* block, resubmissions included (read_sqe's comment; reap_read's alignment test).
SqeAligned ==
  (pc = "sqe" /\ req.align > 1) =>
    \A x \in {sqe.off, sqe.pos - pad, sqe.len} : x % req.align = 0

\* Every variable has its type, and every kernel read is one the kernel can be given.
SqeValid == TypeOK /\ SqeInBounds /\ SqeAligned

\* Every read settles: short reads make progress and a storm of EINTR/EAGAIN is
\* cut off by MAX_TRANSIENT_RETRIES.
Settles == <>(pc = "done")
===============================================================================
