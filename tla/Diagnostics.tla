------------------------------ MODULE Diagnostics -----------------------------
(***************************************************************************)
(* The sampled stage histograms (src/src/diagnostics.rs, and the places    *)
(* where src/src/driver.rs takes its times): per shard a sampling sequence *)
(* and six histograms, to which callers and the driver thread add without  *)
(* a lock while snapshots are taken, merged and subtracted.                *)
(***************************************************************************)
EXTENDS Integers, FiniteSetsExt

CONSTANTS
    Reads, NShards,       \* handles, and shards 0..NShards-1
    Interval,             \* DIAGNOSTICS_SAMPLE_INTERVAL
    Word,                 \* counters wrap modulo Word (2^64)
    MaxClock, MaxRetries  \* bounds: nanoseconds that pass, short reads per handle

Shards == 0..(NShards - 1)
Stages == {"Admission", "Queue", "Prepare", "Lifetime", "Cqe", "Resume"}

VARIABLES
    capacity_aware,       \* the shard policy
    rr,                   \* the round-robin cursor
    requests,             \* per shard: the sampling sequence
    clock,
    pc, trace,            \* per handle: where it is, and its Trace
    adds,                 \* records whose fetch_adds are not yet done
    hist,                 \* per shard and stage: the histogram
    mark,                 \* an earlier snapshot of them
    recorded, marked      \* what was recorded, [read, stage, nth, nanos], and by the mark

vars == <<capacity_aware, rr, requests, clock, pc, trace, adds, hist, mark, recorded, marked>>

Larger(a, b) == IF a < b THEN b ELSE a

\* floor(log2): 63 - leading_zeros
Log2(n) == CHOOSE b \in 0..n : 2^b <= n /\ n < 2^(b + 1)

Buckets == 0..Log2(Word - 1)

Empty == [count |-> 0, total |-> 0, buckets |-> [b \in Buckets |-> 0]]

NoTrace == [sampled |-> FALSE, shard |-> 0, start |-> 0, queued |-> 0, entered |-> 0,
            started |-> 0, sent |-> 0, retries |-> 0]

Init ==
  /\ capacity_aware \in BOOLEAN
  /\ rr = 0 /\ requests = [s \in Shards |-> 0] /\ clock = 0
  /\ pc = [r \in Reads |-> "new"] /\ trace = [r \in Reads |-> NoTrace]
  /\ adds = {} /\ recorded = {} /\ marked = {}
  /\ hist = [s \in Shards |-> [g \in Stages |-> Empty]] /\ mark = hist

Tick ==
  /\ clock' \in (clock + 1)..MaxClock
  /\ UNCHANGED <<capacity_aware, rr, requests, pc, trace, adds, hist, mark, recorded, marked>>

-------------------------------------------------------------------------------
\* Trace::now: zero is kept for "no result sent".
Now(r) == clock - trace[r].start + 1

SaturatingSub(a, b) == Larger(0, a - b)

\* Histogram::record, with its fetch_adds still to come.
Record(r, durations) ==
  LET entries == {[read |-> r, stage |-> d.stage, nth |-> trace[r].retries, nanos |-> d.nanos] :
                    d \in durations}
  IN  /\ recorded' = recorded \cup entries
      /\ adds' = adds \cup entries

\* Defect: 0 ns has a bucket of its own.
BucketOf_zero(nanos) == IF nanos = 0 THEN 0 ELSE Log2(nanos) + 1

BucketOf(nanos) == Log2(Larger(nanos, 1))

\* wrapping_add
Add(a, b) == (a + b) % Word

\* wrapping_sub
Sub(a, b) == (a - b) % Word

\* The fetch_adds of a record.
FetchAdd ==
  /\ \E e \in adds :
       /\ adds' = adds \ {e}
       /\ hist' = [hist EXCEPT ![trace[e.read].shard][e.stage] =
                    [count |-> Add(@.count, 1), total |-> Add(@.total, e.nanos),
                     buckets |-> [@.buckets EXCEPT ![BucketOf(e.nanos)] = Add(@, 1)]]]
  /\ UNCHANGED <<capacity_aware, rr, requests, clock, pc, trace, mark, recorded, marked>>

\* An earlier snapshot, taken when nothing is being recorded.
Mark ==
  /\ adds = {} /\ marked = {} /\ recorded # {}
  /\ mark' = hist /\ marked' = recorded
  /\ UNCHANGED <<capacity_aware, rr, requests, clock, pc, trace, adds, hist, recorded>>

-------------------------------------------------------------------------------
\* Handle r goes from pc `from` to pc `to`; its last record is done.
Go(r, from, to) ==
  /\ pc[r] = from /\ pc' = [pc EXCEPT ![r] = to]
  /\ \A e \in adds : e.read # r
  /\ UNCHANGED <<capacity_aware, clock, hist, mark, marked>>

Silent == UNCHANGED <<recorded, adds>>

Sequence(s) == requests[s]

\* submit: under round-robin every request takes a place in its shard's sequence, under
\* CapacityAware only one that is valid and admitted, in the shard that was selected.
Construct(r) ==
  \E s \in IF capacity_aware THEN Shards ELSE {rr % NShards}, valid \in BOOLEAN :
    LET counted == valid \/ ~capacity_aware
        sampled == counted /\ Sequence(s) % Interval = 0
    IN  /\ Go(r, "new", IF valid /\ sampled THEN "waiting" ELSE "untraced")
        /\ rr' = rr + 1
        /\ requests' = IF counted THEN [requests EXCEPT ![s] = @ + 1] ELSE requests
        /\ trace' = [trace EXCEPT ![r] = [NoTrace EXCEPT !.sampled = sampled, !.shard = s,
                                                         !.start = clock]]
        /\ Silent

\* enqueue, with the permit, before the message is sent; or the admission is closed.
Enqueue(r) ==
  /\ \/ /\ Go(r, "waiting", "sent")
        /\ trace' = [trace EXCEPT ![r].queued = Now(r)]
        /\ Record(r, {[stage |-> "Admission", nanos |-> Now(r) - 1]})
     \/ /\ Go(r, "waiting", "answered")
        /\ UNCHANGED trace /\ Silent
  /\ UNCHANGED <<rr, requests>>

\* The driver's intake; a driver that is gone or shutting down answers with an error.
Enter(r) ==
  /\ \/ /\ Go(r, "sent", "entered")
        /\ trace' = [trace EXCEPT ![r].entered = Now(r)]
        /\ Record(r, {[stage |-> "Queue", nanos |-> SaturatingSub(Now(r), trace[r].queued)]})
     \/ /\ Go(r, "sent", "answered")
        /\ UNCHANGED trace /\ Silent
  /\ UNCHANGED <<rr, requests>>

Prepared(r) ==
  /\ Go(r, "entered", "prepared")
  /\ Record(r, {[stage |-> "Prepare", nanos |-> SaturatingSub(Now(r), trace[r].entered)]})
  /\ UNCHANGED <<trace, rr, requests>>

\* The reap loop comes to a CQE of the read; or the bounded drain gives the read up.
Reap(r) ==
  /\ \/ /\ Go(r, "prepared", "reaping")
        /\ trace' = [trace EXCEPT ![r].started = Now(r)]
     \/ /\ Go(r, "prepared", "answered")
        /\ UNCHANGED trace
  /\ Silent /\ UNCHANGED <<rr, requests>>

\* reaped: a short read is submitted again, else the entry is removed.
Reaped(r) ==
  LET cqe == [stage |-> "Cqe", nanos |-> SaturatingSub(Now(r), trace[r].started)]
  IN  /\ \/ /\ trace[r].retries < MaxRetries
            /\ Go(r, "reaping", "prepared")
            /\ trace' = [trace EXCEPT ![r].retries = @ + 1]
            /\ Record(r, {cqe})
         \/ /\ Go(r, "reaping", "finished")
            /\ Record(r, {cqe, [stage |-> "Lifetime",
                                nanos |-> SaturatingSub(trace[r].started, trace[r].entered)]})
            /\ UNCHANGED trace
      /\ UNCHANGED <<rr, requests>>

\* sending, just before the result is sent
Sending(r) ==
  /\ Go(r, "finished", "delivered")
  /\ trace' = [trace EXCEPT ![r].sent = Now(r)]
  /\ Silent /\ UNCHANGED <<rr, requests>>

\* Defect: every answer is taken for a result.
WasSent_any(r) == TRUE

WasSent(r) == trace[r].sent # 0

\* received, at the caller's ready poll, of a result or of another answer
Receive(r) ==
  /\ Go(r, "delivered", "resumed") \/ Go(r, "answered", "errored")
  /\ IF WasSent(r)
     THEN Record(r, {[stage |-> "Resume", nanos |-> SaturatingSub(Now(r), trace[r].sent)]})
     ELSE Silent
  /\ UNCHANGED <<trace, rr, requests>>

Step(r) == \/ Construct(r) \/ Enqueue(r) \/ Enter(r) \/ Prepared(r) \/ Reap(r) \/ Reaped(r)
           \/ Sending(r) \/ Receive(r)

Next == Tick \/ FetchAdd \/ Mark \/ \E r \in Reads : Step(r)

Spec == Init /\ [][Next]_vars

-------------------------------------------------------------------------------
\* merge over the shards, and since
Merged(h, g) ==
  [count   |-> MapThenSumSet(LAMBDA s : h[s][g].count, Shards) % Word,
   total   |-> MapThenSumSet(LAMBDA s : h[s][g].total, Shards) % Word,
   buckets |-> [b \in Buckets |-> MapThenSumSet(LAMBDA s : h[s][g].buckets[b], Shards) % Word]]

Since(now, earlier) ==
  [count |-> Sub(now.count, earlier.count), total |-> Sub(now.total, earlier.total),
   buckets |-> [b \in Buckets |-> Sub(now.buckets[b], earlier.buckets[b])]]

\* Between quiescent snapshots `since` counts what was recorded in between and nothing else,
\* over all shards, although callers and drivers add at once and counters wrap.
DeltaExact ==
  adds = {} =>
    \A g \in Stages :
      LET new == {e \in recorded \ marked : e.stage = g}
      IN  Since(Merged(hist, g), Merged(mark, g)) =
            [count   |-> Cardinality(new) % Word,
             total   |-> MapThenSumSet(LAMBDA e : e.nanos, new) % Word,
             buckets |-> [b \in Buckets |->
                            Cardinality({e \in new : e.nanos \in (IF b = 0 THEN 0 ELSE 2^b)
                                                                 ..(2^(b + 1) - 1)}) % Word]]

\* A read has a completion_to_poll sample if and only if the result of its final CQE was
\* polled: an error of admission, rejection or shutdown is never taken for one.
ResumeMeansDelivered ==
  \A r \in Reads : (\E e \in recorded : e.read = r /\ e.stage = "Resume")
                     <=> pc[r] = "resumed"

\* "one sample per 64 handle constructions per shard, starting with each shard's first":
\* neither the routing policy nor the order of callers makes a shard miss its samples.
SampledPerShard ==
  \A s \in Shards :
    Cardinality({r \in Reads : trace[r].sampled /\ trace[r].shard = s}) =
      (requests[s] + Interval - 1) \div Interval

\* The stages of a read follow one another: what the driver spent on it never exceeds the
\* time since its handle was made, and preparing and finishing lie within its lifetime.
StagesNest ==
  \A e \in recorded :
    /\ e.nanos <= clock - trace[e.read].start
    /\ e.stage = "Lifetime" =>
         \A p \in recorded : p.read = e.read /\ p.stage = "Prepare" => p.nanos <= e.nanos

\* The samples are the right ones, and each is what its stage says.
SamplesHonest == ResumeMeansDelivered /\ SampledPerShard /\ StagesNest
===============================================================================
