--------------------------------- MODULE Reap ---------------------------------
(***************************************************************************)
(* What follows the completion of one kernel read: `reap_read` and the     *)
(* helpers it calls (src/src/driver.rs).  A Pending entry is a record      *)
(*                                                                         *)
(*   [offset, nread, head, want, region_len, align,                        *)
(*    transient_retries, cancel_requested]                                 *)
(*                                                                         *)
(* where offset is the kernel offset of the read region, head the logical  *)
(* range's distance into it and want the logical length.  A raw completion *)
(* result is an integer as in a CQE: a byte count, or a negated errno.     *)
(***************************************************************************)
EXTENDS Integers

CONSTANTS
    MAX_TRANSIENT_RETRIES,   \* consecutive EINTR/EAGAIN retries of one read
    CURRENT_POSITION         \* the offset sentinel of a stream read (u64::MAX)

ASSUME ReapAssumption == /\ MAX_TRANSIENT_RETRIES \in Nat
                         /\ CURRENT_POSITION \in Nat

EINTR     == 4
EIO       == 5
EAGAIN    == 11
EINVAL    == 22
ECANCELED == 125
ENOTALIGNED == 1000   \* io::Error::other("... short read before EOF")

Pending == [offset : Nat, nread : Nat, head : Nat, want : Nat,
            region_len : Nat, align : Nat \ {0},
            transient_retries : Nat, cancel_requested : BOOLEAN]

\* io::Result<Vec<u8>>: a success carries the number of bytes handed over.
Ok(n)  == [ok |-> TRUE, val |-> n]
Err(e) == [ok |-> FALSE, val |-> e]
Outcome == [ok : BOOLEAN, val : Nat]

\* ReapStep
Finish(p, outcome) == [step |-> "finish", p |-> p, outcome |-> outcome]
Resubmit(p) == [step |-> "resubmit", p |-> p, outcome |-> Ok(0)]

\* The bytes of the logical range that have been read: nread.saturating_sub(head).min(want).
Available(p) ==
  LET past == IF p.nread > p.head THEN p.nread - p.head ELSE 0
  IN  IF past < p.want THEN past ELSE p.want

\* deliver: nothing is copied out for a receiver that is already closed.
deliver(p, closed) == IF closed THEN 0 ELSE Available(p)

\* Defect: whatever stops off the block grid is taken for the tail.
finish_direct_short_read_trusting(p, file_len, closed) ==
  IF file_len < 0 THEN Err(-file_len) ELSE Ok(deliver(p, closed))

\* finish_direct_short_read: file_len is the metadata result, negative if stat failed.
finish_direct_short_read(p, file_len, closed) ==
  IF file_len < 0 THEN Err(-file_len)
  ELSE IF p.offset + p.nread < file_len THEN Err(ENOTALIGNED)
  ELSE Ok(deliver(p, closed))

\* stop_continuation
Stopped(p, shutting_down) == p.cancel_requested \/ shutting_down

\* Defect: retries are not counted.
Retry_uncounted(p) == p

Retry(p) == [p EXCEPT !.transient_retries = @ + 1]

\* The error arm of reap_read: only a positioned read with bytes missing is retried.
reap_error(p, err, stop) ==
  LET retryable == /\ err \in {EINTR, EAGAIN}
                   /\ p.offset # CURRENT_POSITION
                   /\ p.nread < p.region_len
  IN  IF retryable /\ stop THEN Finish(p, Err(ECANCELED))
      ELSE IF retryable /\ p.transient_retries < MAX_TRANSIENT_RETRIES
           THEN Resubmit(Retry(p))
      ELSE Finish(p, Err(err))

\* The progress arm of reap_read: p already counts the bytes of this completion.
reap_progress(p, stop, file_len, closed) ==
  IF \/ p.offset = CURRENT_POSITION
     \/ p.nread >= p.head + p.want
     \/ p.nread >= p.region_len
  THEN Finish(p, Ok(deliver(p, closed)))
  ELSE IF stop THEN Finish(p, Err(ECANCELED))
  ELSE IF p.align > 1 /\ p.nread % p.align # 0
       THEN Finish(p, finish_direct_short_read(p, file_len, closed))
  ELSE Resubmit(p)

reap_read(p, res, shutting_down, file_len, closed) ==
  LET stop == Stopped(p, shutting_down)
  IN  IF res < 0 THEN reap_error(p, -res, stop)
      ELSE IF res = 0 THEN Finish(p, Ok(deliver(p, closed)))
      ELSE reap_progress([p EXCEPT !.nread = @ + res, !.transient_retries = 0],
                         stop, file_len, closed)
===============================================================================
