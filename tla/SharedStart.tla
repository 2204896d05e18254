------------------------------ MODULE SharedStart -----------------------------
(***************************************************************************)
(* Startup over SharedBudget: one driver of the pool starts step by step   *)
(* (probe_and_start_with_shared_budget, start_with_limits, start_shard in  *)
(* src/src/driver.rs) while others reserve, start, serve and go.  A shard  *)
(* it spawns shares its reservation; a step that fails takes all that has  *)
(* been started down again, and the reservation with it.                   *)
(***************************************************************************)
EXTENDS SharedBudget

CONSTANTS
    Starting,         \* the driver whose start is followed
    NShards, ExtArg, Signals

ASSUME StartAssumption ==
  /\ Starting \in Drivers /\ NShards \in Nat \ {0} /\ Threads = 0..(NShards - 1)
  /\ {ExtArg, Signals} \subseteq BOOLEAN

VARIABLES pc, shard, ring, thread, counts, file, named, buf, op, data, deadline

S == INSTANCE Startup

start == <<pc, shard, ring, thread, counts, file, named, buf, op, data, deadline>>
allvars == <<vars, start>>

StartInit == Init /\ S!Init

\* SharedReadBudget::reserve is the first step of the start.
Reserve ==
  /\ ReserveLoad(Starting) \/ ReserveSwap(Starting)
  /\ \/ life'[Starting] = "reserving" /\ UNCHANGED start
     \/ life'[Starting] = "starting" /\ S!Reserve /\ pc' = "ring"
     \/ life'[Starting] = "gone" /\ S!Reserve /\ pc' = "failed"

\* A step succeeds, or its error begins the cleanup.
SetUp ==
  /\ \/ S!NewRing \/ S!OpenProbeFile \/ S!WriteProbeFile \/ S!UnlinkProbeFile \/ S!PushProbe
     \/ S!WaitExpired \/ S!WaitEnters \/ S!WaitFails \/ S!WaitReturns \/ S!CheckProbe
     \/ S!NewEventFds \/ S!RegisterCount
  /\ IF pc' = "cleanup" THEN Stop(Starting) ELSE UNCHANGED vars

\* The thread takes a share of the admission along.
SpawnShard ==
  /\ S!SpawnThread
  /\ IF pc' = "cleanup" THEN Stop(Starting) ELSE StartShard(Starting, shard)

CleanUp ==
  \/ S!JoinNext /\ UNCHANGED vars
  \/ \E s \in Threads : S!ThreadExits(s) /\ ThreadExit(Starting, s)
  \/ S!EndCleanup /\ DropAdmission(Starting)

\* External: the probe read completes, time passes.
Time == S!DeadlinePasses /\ UNCHANGED vars
Kernel == S!KernelCompletes /\ UNCHANGED vars

\* The other drivers, and this one once it has been started.
Run(d) == (d = Starting => pc = "ok") /\ Serve(d) /\ UNCHANGED start
Use(d) == (d = Starting => pc = "ok") /\ Callers(d) /\ UNCHANGED start
StartOther(d) == d # Starting /\ Start(d) /\ UNCHANGED start
ReserveOther(d) == d # Starting /\ ReserveLoad(d) /\ UNCHANGED start
GiveBack(d) == Refund(d) /\ UNCHANGED start

StartNext ==
  \/ Reserve \/ SetUp \/ SpawnShard \/ CleanUp \/ Time \/ Kernel
  \/ \E d \in Drivers : Run(d) \/ Use(d) \/ StartOther(d) \/ ReserveOther(d) \/ GiveBack(d)

StartSpec == StartInit /\ [][StartNext]_allvars

\* Threads run and time passes, reads end and handles are dropped in the end; nobody need
\* stop a driver, and the kernel need not answer the probe.
FairStart ==
  /\ StartSpec
  /\ WF_allvars(Reserve \/ SetUp \/ SpawnShard \/ CleanUp) /\ WF_allvars(Time)
  /\ WF_allvars(\E d \in Drivers : Run(d) \/ StartOther(d) \/ GiveBack(d))

-------------------------------------------------------------------------------
\* The probe buffer and its file are never dropped while the kernel may still use them,
\* whatever ends the wait ("leak over UAF", probe_real_read).
ProbeBufferSafe == S!ProbeBufferSafe

\* A driver is returned only after the probe brought the pattern back, with every shard
\* running on a ring of its own, registered and sharing the reservation.
StartedIsUsable ==
  /\ S!StartedIsUsable
  /\ pc = "ok" /\ life[Starting] = "up" =>
       receipt[Starting] = "held" /\ \A t \in Threads : <<"thread", t>> \in owners[Starting]

\* A start that fails leaves no thread and no ring behind, and the reservation is on its
\* way back by then ("refunds its reservation after partial shards are cleaned up").
FailureCleansUp ==
  pc = "failed" => /\ S!Running = {} /\ owners[Starting] = {} /\ receipt[Starting] # "held"
                   /\ \A s \in Threads : ring[s] # "open"

\* A start is all or nothing.
AllOrNothing == StartedIsUsable /\ FailureCleansUp


\* In the end every driver that went down, and every start that failed, has given its
\* bytes back, unless it leaked a read.
RefundComes ==
  <>[](\A d \in Drivers : life[d] \in {"down", "gone"} /\ receipt[d] # "none" =>
         receipt[d] = "refunded" \/ \E r \in Reads : read[d][r] = "leaked")
===============================================================================
