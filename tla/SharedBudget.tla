----------------------------- MODULE SharedBudget -----------------------------
(***************************************************************************)
(* SharedReadBudget (src/src/driver.rs): a pool of bytes from which whole  *)
(* drivers reserve their byte limit, and the shared ownership that decides *)
(* when a reservation is refunded.  A driver's reservation is held, behind *)
(* one Arc, by the byte admission of the driver and of each shard thread,  *)
(* by every deferred acquire, and by the permits of every accepted read;   *)
(* the last holder to go refunds it.  A read that a bounded drain leaks    *)
(* keeps its permits, hence the reservation, for good.                     *)
(***************************************************************************)
EXTENDS Integers, FiniteSets, FiniteSetsExt

CONSTANTS
    Drivers,              \* drivers that reserve from the pool
    Bytes,                \* the byte limit of each
    Capacity,             \* capacity of the pool
    Threads,              \* shard threads of a driver
    Reads, Size,          \* reads submitted to each driver, and the bytes of a read buffer
    ShardOf,              \* the thread that serves a read
    MayLeak               \* drivers whose drain may time out

ASSUME BudgetAssumption ==
  /\ Capacity \in Nat \ {0} /\ Bytes \in [Drivers -> Nat] /\ Size \in Nat \ {0}
  /\ IsFiniteSet(Drivers) /\ IsFiniteSet(Reads) /\ IsFiniteSet(Threads)
  /\ ShardOf \in [Reads -> Threads] /\ MayLeak \subseteq Drivers

VARIABLES
    available,            \* the pool's atomic counter
    seen,                 \* per driver: the value its fetch_update has loaded
    life,                 \* per driver: "new", "reserving", "starting", "up", "down", "gone"
    receipt,              \* per driver: its reservation: "none", "held", "dropping", "refunded"
    owners,               \* per driver: the holders of the Arc
    spawned,              \* per driver: threads started
    read                  \* per driver and read: its state

vars == <<available, seen, life, receipt, owners, spawned, read>>

\* The driver itself, as a holder.
Self == "driver"
Holders == {<<Self>>} \cup {<<"thread", t>> : t \in Threads} \cup {<<"read", r>> : r \in Reads}

Init ==
  /\ available = Capacity
  /\ seen = [d \in Drivers |-> 0]
  /\ life = [d \in Drivers |-> "new"] /\ receipt = [d \in Drivers |-> "none"]
  /\ owners = [d \in Drivers |-> {}] /\ spawned = [d \in Drivers |-> {}]
  /\ read = [d \in Drivers |-> [r \in Reads |-> "idle"]]

\* Reads of d whose buffer exists, leaked ones included.
Buffers(d) == {r \in Reads : read[d][r] \in {"accepted", "leaked"}}

\* A holder gives up its reference; the last one has the receipt dropped.
Release(d, holders) ==
  /\ owners' = [owners EXCEPT ![d] = @ \ holders]
  /\ receipt' = IF owners[d] \subseteq holders THEN [receipt EXCEPT ![d] = "dropping"] ELSE receipt

-------------------------------------------------------------------------------
(* SharedReadBudget::reserve.                                              *)

\* A limit that cannot be reserved is refused at once; else fetch_update loads.
ReserveLoad(d) ==
  /\ life[d] = "new"
  /\ IF Bytes[d] = 0 \/ Bytes[d] > Capacity
     THEN life' = [life EXCEPT ![d] = "gone"] /\ UNCHANGED seen
     ELSE life' = [life EXCEPT ![d] = "reserving"] /\ seen' = [seen EXCEPT ![d] = available]
  /\ UNCHANGED <<available, receipt, owners, spawned, read>>

\* The compare-and-swap succeeds only on the value that was loaded.
Swaps(d) == available = seen[d]

\* checked_sub
Fits(d) == seen[d] >= Bytes[d]

\* checked_sub fails (WouldBlock), the swap succeeds, or it loads again.
ReserveSwap(d) ==
  /\ life[d] = "reserving"
  /\ \/ /\ ~Fits(d)
        /\ life' = [life EXCEPT ![d] = "gone"]
        /\ UNCHANGED <<available, seen, receipt, owners>>
     \/ /\ Fits(d) /\ Swaps(d)
        /\ available' = seen[d] - Bytes[d]
        /\ receipt' = [receipt EXCEPT ![d] = "held"]
        /\ owners' = [owners EXCEPT ![d] = {<<Self>>}]
        /\ life' = [life EXCEPT ![d] = "starting"]
        /\ UNCHANGED seen
     \/ /\ Fits(d) /\ ~Swaps(d)
        /\ seen' = [seen EXCEPT ![d] = available]
        /\ UNCHANGED <<available, life, receipt, owners>>
  /\ UNCHANGED <<spawned, read>>

\* SharedReadReservation::drop
Refund(d) ==
  /\ receipt[d] = "dropping"
  /\ available' = available + Bytes[d]
  /\ receipt' = [receipt EXCEPT ![d] = "refunded"]
  /\ UNCHANGED <<seen, life, owners, spawned, read>>

-------------------------------------------------------------------------------
(* The driver: threads share its byte admission.                           *)

StartShard(d, t) ==
  /\ life[d] = "starting" /\ t \notin spawned[d]
  /\ spawned' = [spawned EXCEPT ![d] = @ \cup {t}]
  /\ owners' = [owners EXCEPT ![d] = @ \cup {<<"thread", t>>}]
  /\ life' = IF spawned[d] \cup {t} = Threads THEN [life EXCEPT ![d] = "up"] ELSE life
  /\ UNCHANGED <<available, seen, receipt, read>>

\* start_shard fails, or the driver is dropped or shut down: the threads are joined
\* before the admission is dropped.
Stop(d) ==
  /\ life[d] \in {"starting", "up"}
  /\ life' = [life EXCEPT ![d] = "down"]
  /\ UNCHANGED <<available, seen, receipt, owners, spawned, read>>

\* A thread of a driver that stops: its reads not finished are leaked or, if still in
\* the channel, dropped with it.
ThreadExit(d, t) ==
  /\ life[d] = "down" /\ t \in spawned[d]
  /\ spawned' = [spawned EXCEPT ![d] = @ \ {t}]
  /\ LET mine == {r \in Reads : read[d][r] = "accepted" /\ ShardOf[r] = t}
     IN  \E L \in SUBSET mine :
           /\ d \in MayLeak \/ L = {}
           /\ read' = [read EXCEPT ![d] = [r \in Reads |-> IF r \in L THEN "leaked"
                                                           ELSE IF r \in mine THEN "done" ELSE @[r]]]
           /\ Release(d, {<<"thread", t>>} \cup {<<"read", r>> : r \in mine \ L})
  /\ UNCHANGED <<available, seen, life>>

\* The driver goes, and its own share with it.
DropAdmission(d) ==
  /\ life[d] = "down"
  /\ life' = [life EXCEPT ![d] = "gone"]
  /\ Release(d, {<<Self>>})
  /\ UNCHANGED <<available, seen, spawned, read>>

\* All threads are joined before.
DropDriver(d) == spawned[d] = {} /\ DropAdmission(d)

-------------------------------------------------------------------------------
(* Reads, each of which shares the reservation until its permits go.       *)

\* The byte permits of the driver: its accepted reads fit its limit.
Admits(d) == (Cardinality(Buffers(d)) + 1) * Size <= Bytes[d]

\* Defect: an accepted read does not share the reservation.
ReadOwner_none(r) == {}

ReadOwner(r) == {<<"read", r>>}

\* Accepted with permits, or deferred with an acquire; a driver that is gone takes none.
SubmitRead(d, r) ==
  /\ life[d] = "up" /\ read[d][r] = "idle"
  /\ \E s \in {"deferred"} \cup (IF Admits(d) THEN {"accepted"} ELSE {}) :
       read' = [read EXCEPT ![d][r] = s]
  /\ owners' = [owners EXCEPT ![d] = @ \cup ReadOwner(r)]
  /\ UNCHANGED <<available, seen, life, receipt, spawned>>

\* The acquire is granted: its share moves into the permits.
AdmitDeferred(d, r) ==
  /\ read[d][r] = "deferred" /\ life[d] = "up" /\ Admits(d)
  /\ read' = [read EXCEPT ![d][r] = "accepted"]
  /\ UNCHANGED <<available, seen, life, receipt, owners, spawned>>

\* Defect: the acquire's share is not given up.
DropDeferred_sharing(d, r) ==
  /\ read[d][r] = "deferred"
  /\ read' = [read EXCEPT ![d][r] = "done"]
  /\ UNCHANGED <<available, seen, life, receipt, owners, spawned>>

\* The handle of a deferred read is dropped, at any time, even after its driver.
DropDeferred(d, r) ==
  /\ read[d][r] = "deferred"
  /\ read' = [read EXCEPT ![d][r] = "done"]
  /\ Release(d, {<<"read", r>>})
  /\ UNCHANGED <<available, seen, life, spawned>>

\* The completion of a read drops its entry, buffer and permits together.
CompleteRead(d, r) ==
  /\ read[d][r] = "accepted" /\ ShardOf[r] \in spawned[d]
  /\ read' = [read EXCEPT ![d][r] = "done"]
  /\ Release(d, {<<"read", r>>})
  /\ UNCHANGED <<available, seen, life, spawned>>

-------------------------------------------------------------------------------
Callers(d) == Stop(d) \/ \E r \in Reads : SubmitRead(d, r) \/ AdmitDeferred(d, r)

\* What a driver goes on with once it has begun.
Serve(d) == \/ DropDriver(d) \/ \E t \in Threads : ThreadExit(d, t)
            \/ \E r \in Reads : DropDeferred(d, r) \/ CompleteRead(d, r)

Start(d) == ReserveSwap(d) \/ \E t \in Threads : StartShard(d, t)

Next == \E d \in Drivers : ReserveLoad(d) \/ Start(d) \/ Callers(d) \/ Serve(d) \/ Refund(d)

Spec == Init /\ [][Next]_vars

-------------------------------------------------------------------------------
Held == {d \in Drivers : receipt[d] \in {"held", "dropping"}}

\* Every variable has its type, and the counter never goes below zero.
TypeOK ==
  /\ available \in Nat /\ seen \in [Drivers -> Nat]
  /\ life \in [Drivers -> {"new", "reserving", "starting", "up", "down", "gone"}]
  /\ receipt \in [Drivers -> {"none", "held", "dropping", "refunded"}]
  /\ owners \in [Drivers -> SUBSET Holders] /\ spawned \in [Drivers -> SUBSET Threads]
  /\ read \in [Drivers -> [Reads -> {"idle", "deferred", "accepted", "leaked", "done"}]]

\* Nothing is reserved twice, lost or refunded twice: what is available and what is
\* reserved add up to the capacity, whatever reservations race.
PoolConserved == available + MapThenSumSet(LAMBDA d : Bytes[d], Held) = Capacity

\* The point of the pool: the read buffers of all drivers together, leaked ones
\* included, never exceed its capacity.
BuffersFitPool == MapThenSumSet(LAMBDA d : Cardinality(Buffers(d)) * Size, Drivers) <= Capacity

\* No reservation is refunded while a buffer, a thread or a deferred read it covers is
\* left ("a leaked pending read keeps the whole reservation").
RefundIsLast ==
  \A d \in Drivers : receipt[d] \in {"dropping", "refunded"} =>
    /\ spawned[d] = {} /\ life[d] = "gone"
    /\ \A r \in Reads : read[d][r] \notin {"deferred", "accepted", "leaked"}

\* Every variable has its type, and the pool is accounted for: reservations add up, the
\* buffers stay within them, and they end last.
PoolAccounted == TypeOK /\ PoolConserved /\ BuffersFitPool /\ RefundIsLast
===============================================================================
