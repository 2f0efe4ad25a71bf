-------------------------------- MODULE Sync --------------------------------
(***************************************************************************)
(* The devices of one vault, each with its database (LedgerService) and    *)
(* its sync engine (core/sync/sync.service.ts), and the object store they  *)
(* share through a SyncAdapter.                                            *)
(*                                                                         *)
(* A cycle is a sequence of awaits.  Each step below is the code between   *)
(* two awaits whose order somebody else can notice: a request to the       *)
(* store, or a transaction on the device's database that a crash can fall  *)
(* behind.  The user's writes, the cycles of the other devices, crashes    *)
(* and failing requests happen between any two steps.                      *)
(***************************************************************************)
EXTENDS Ledger

CONSTANTS
    Target,         \* "s3" or "server": how the store answers a put
    BatchSize,      \* MAX_OPS_PER_BATCH, 500 in the code
    PendingLimit,   \* the limit of pendingOperations, 5000 in the code
    SnapshotAfter,  \* SNAPSHOT_AFTER_OPERATIONS, 200 in the code
    MaxOps,         \* bound: how many writes the users make
    MaxTime,        \* bound: how far the wall clocks run
    FaultKinds,     \* bound: what goes wrong: see Fault
    MaxFaults       \* bound: how often one does

ASSUME SyncAssumption ==
    /\ Target \in {"s3", "server"}
    /\ BatchSize \in Nat \ {0}
    /\ PendingLimit \in Nat \ {0}
    /\ SnapshotAfter \in Nat \ {0}
    /\ MaxOps \in Nat
    /\ MaxTime \in Nat \ {0}
    /\ FaultKinds \subseteq {"abort", "request", "prune", "crash", "clock"}
    /\ MaxFaults \in Nat

VARIABLES
    \* what a device keeps in IndexedDB
    rows,       \* rows[d]: the entity tables
    oplog,      \* oplog[d]: the operation log
    unsynced,   \* unsynced[d]: stamps of the log rows with synced = 0
    disk,       \* disk[d]: the clock state under 'hlc.state'
    applied,    \* applied[d]: the names in remoteObjects
    lastSnap,   \* lastSnap[d]: the stamp under 'sync.lastSnapshot', {} if none
    \* what it keeps in memory
    mem,        \* mem[d]: the state of the HybridLogicalClock
    pc,         \* pc[d]: where its sync cycle is
    mark,       \* mark[d]: the watermark in hand, {} if null
    todo,       \* todo[d]: names still to fetch, or to remove
    got,        \* got[d]: objects fetched and opened
    heads,      \* heads[d]: stamps still to observe
    batch,      \* batch[d]: operations captured for upload and not yet marked
    status,     \* status[d]: SyncStatus: "idle", "syncing", "retry", "error"
    \* the world
    wall,       \* wall[d]: Date.now() on d
    remote,     \* the objects at the destination
    faults,     \* how many faults have happened
    authored    \* every operation a user's write has logged (history)

db == <<rows, oplog, unsynced, disk, applied, lastSnap>>
cycle == <<pc, mark, todo, got, heads, batch, status>>
world == <<wall, remote, faults, authored>>
vars == <<db, mem, cycle, world>>

----------------------------------------------------------------------------
\* sync-target.ts: objects and their names.

Name == [kind : {"ops", "snapshot"}, stamp : Stamp]

Object == [name : Name, device : Devices, ops : SUBSET Op]

opsObjectName(head) == [kind |-> "ops", stamp |-> head]
snapshotObjectName(watermark) == [kind |-> "snapshot", stamp |-> watermark]

\* adapter.list(): the names under one of the two prefixes.
List(kind) == {o.name : o \in {x \in remote : x.name.kind = kind}}

\* Mutant: without a snapshot, everything counts as covered.
coveredByNull(name, watermark) ==
    watermark = {} \/ \E w \in watermark : AtMost(name.stamp, w)

coveredBy(name, watermark) == \E w \in watermark : AtMost(name.stamp, w)

\* The first and the last name in listing order.
First(names) == {n \in names : \A m \in names : AtMost(n.stamp, m.stamp)}
Last(names) == {n \in names : \A m \in names : AtMost(m.stamp, n.stamp)}

\* The k oldest of a set of operations: limit(k) or slice(i, i + k) of sortBy('hlc').
OldestOps(ops, k) ==
    {o \in ops : Cardinality({p \in ops : Before(p.hlc, o.hlc)}) < k}

Slice(d) == OldestOps(batch[d], BatchSize)

\* Mutant: a batch is named after its first operation.
FirstOf(ops) == Oldest({o.hlc : o \in ops})

HeadOf(ops) == Newest({o.hlc : o \in ops})

\* PUT at the store.  S3 replaces.  The server keeps what it has, accepts the
\* same bytes again and answers 409 to others - sealing twice never gives the
\* same bytes - and its object names are those of ops only (else 400).
\* Mutant: every destination refuses a name in use.
PutRefusedInUse(name) == \E o \in remote : o.name = name

PutRefused(name) ==
    /\ Target = "server"
    /\ \/ name.kind = "snapshot"
       \/ \E o \in remote : o.name = name

PutObject(obj) == remote' = {o \in remote : o.name # obj.name} \cup {obj}

----------------------------------------------------------------------------
Init ==
    /\ rows = [d \in Devices |-> {}]
    /\ oplog = [d \in Devices |-> {}]
    /\ unsynced = [d \in Devices |-> {}]
    /\ disk = [d \in Devices |-> ZeroClock]
    /\ applied = [d \in Devices |-> {}]
    /\ lastSnap = [d \in Devices |-> {}]
    /\ mem = [d \in Devices |-> ZeroClock]
    /\ pc = [d \in Devices |-> "idle"]
    /\ mark = [d \in Devices |-> {}]
    /\ todo = [d \in Devices |-> {}]
    /\ got = [d \in Devices |-> {}]
    /\ heads = [d \in Devices |-> {}]
    /\ batch = [d \in Devices |-> {}]
    /\ status = [d \in Devices |-> "idle"]
    /\ wall = [d \in Devices |-> 1]
    /\ remote = {}
    /\ faults = 0
    /\ authored = {}

----------------------------------------------------------------------------
\* The user's writes.  tick() is called first and the transaction is requested
\* in the same turn of the event loop, so that IndexedDB runs the transactions
\* in the order of their stamps: a write is one step.

Write(d, e, kind) ==
    /\ Cardinality(authored) < MaxOps
    /\ ~TickThrows(mem[d], wall[d])
    /\ LET clock == Tick(mem[d], wall[d])
           o == [hlc |-> encodeHlc(clock, d), entity |-> e, op |-> kind]
       IN /\ mem' = [mem EXCEPT ![d] = clock]
          /\ rows' = [rows EXCEPT ![d] = IF kind = "put" THEN TablePut(@, o)
                                                         ELSE TableDelete(@, e)]
          /\ oplog' = [oplog EXCEPT ![d] = OplogPut(@, o)]
          /\ unsynced' = [unsynced EXCEPT ![d] = @ \cup {o.hlc}]
          /\ disk' = [disk EXCEPT ![d] = clock]
          /\ authored' = authored \cup {o}
    /\ UNCHANGED <<applied, lastSnap, cycle, wall, remote, faults>>

Put(d, e) == Write(d, e, "put")

\* A page only deletes an entity it has shown, which the log then knows of.
Remove(d, e) == (\E o \in oplog[d] : o.entity = e) /\ Write(d, e, "delete")

\* Something goes wrong: a transaction aborts, a request or the pruning fails, the
\* app is killed, or the wall clock is set back.
Fault(kind) == kind \in FaultKinds /\ faults < MaxFaults /\ faults' = faults + 1

\* The transaction aborts (a full disk): the tick has happened, nothing is kept.
AbortedWrite(d) ==
    /\ Fault("abort")
    /\ ~TickThrows(mem[d], wall[d])
    /\ mem' = [mem EXCEPT ![d] = Tick(mem[d], wall[d])]
    /\ UNCHANGED <<db, cycle, wall, remote, authored>>

----------------------------------------------------------------------------
\* A sync cycle.

Goto(d, step) == pc' = [pc EXCEPT ![d] = step]

\* The locals of runCycle and of what it calls go with its promise.
ForgetLocals(d) ==
    /\ mark' = [mark EXCEPT ![d] = {}]
    /\ todo' = [todo EXCEPT ![d] = {}]
    /\ got' = [got EXCEPT ![d] = {}]
    /\ heads' = [heads EXCEPT ![d] = {}]
    /\ batch' = [batch EXCEPT ![d] = {}]

\* The end of a cycle, with what the status bar says: "idle" when it ran to the
\* end, "retry" after a transport error worth retrying, "error" after another.
EndCycle(d, outcome) ==
    /\ Goto(d, "idle")
    /\ status' = [status EXCEPT ![d] = outcome]
    /\ ForgetLocals(d)

\* sync(): a timer, a button or a reconnect; callers share a cycle in flight.
Begin(d) ==
    /\ pc[d] = "idle"
    /\ Goto(d, "snapshots")
    /\ status' = [status EXCEPT ![d] = "syncing"]
    /\ UNCHANGED <<db, mem, mark, todo, got, heads, batch, world>>

\* applySnapshot(): list, and look at the newest only.
ListSnapshots(d) ==
    /\ pc[d] = "snapshots"
    /\ LET unapplied == Last(List("snapshot")) \ applied[d]
       IN /\ todo' = [todo EXCEPT ![d] = unapplied]
          /\ Goto(d, IF unapplied = {} THEN "list" ELSE "getSnapshot")
    /\ UNCHANGED <<db, mem, mark, got, heads, batch, status, world>>

\* Download the snapshot, observe its watermark, merge its rows as operations.
ApplySnapshot(d) ==
    /\ pc[d] = "getSnapshot"
    /\ \E o \in remote :
         /\ o.name \in todo[d]
         /\ ~ObserveThrows(mem[d], wall[d], o.name.stamp)
         /\ LET clock == Observe(mem[d], wall[d], o.name.stamp)
            IN /\ mem' = [mem EXCEPT ![d] = clock]
               /\ disk' = [disk EXCEPT ![d] = IF o.ops = {} THEN @ ELSE clock]
         /\ rows' = [rows EXCEPT ![d] = MergeRows(@, oplog[d], o.ops)]
         /\ oplog' = [oplog EXCEPT ![d] = MergeLog(@, o.ops)]
    /\ Goto(d, "recordSnapshot")
    /\ UNCHANGED <<unsynced, applied, lastSnap,
                   mark, todo, got, heads, batch, status, world>>

RecordSnapshot(d) ==
    /\ pc[d] = "recordSnapshot"
    /\ applied' = [applied EXCEPT ![d] = @ \cup todo[d]]
    /\ Goto(d, "noteSnapshot")
    /\ UNCHANGED <<rows, oplog, unsynced, disk, lastSnap, mem,
                   mark, todo, got, heads, batch, status, world>>

NoteSnapshot(d) ==
    /\ pc[d] = "noteSnapshot"
    /\ LET watermark == {n.stamp : n \in todo[d]}
       IN /\ lastSnap' = [lastSnap EXCEPT ![d] = watermark]
          /\ mark' = [mark EXCEPT ![d] = watermark]
    /\ todo' = [todo EXCEPT ![d] = {}]
    /\ Goto(d, "list")
    /\ UNCHANGED <<rows, oplog, unsynced, disk, applied, mem,
                   got, heads, batch, status, world>>

\* pull(): list the operations; what the snapshot covers is recorded unseen.
ListOps(d) ==
    /\ pc[d] = "list"
    /\ LET unseen == List("ops") \ applied[d]
           covered == {n \in unseen : coveredBy(n, mark[d])}
       IN /\ applied' = [applied EXCEPT ![d] = @ \cup covered]
          /\ todo' = [todo EXCEPT ![d] = unseen \ covered]
          /\ Goto(d, IF unseen = covered THEN "pending" ELSE "get")
    /\ UNCHANGED <<rows, oplog, unsynced, disk, lastSnap, mem,
                   mark, got, heads, batch, status, world>>

\* Download the next object.  Our own batches teach nothing.
GetObject(d) ==
    /\ pc[d] = "get"
    /\ todo[d] # {}
    /\ \E o \in remote :
         /\ o.name \in First(todo[d])
         /\ todo' = [todo EXCEPT ![d] = @ \ {o.name}]
         /\ got' = [got EXCEPT ![d] = @ \cup {o}]
         /\ heads' = [heads EXCEPT ![d] = IF o.device = d THEN @ ELSE @ \cup {o.name.stamp}]
    /\ UNCHANGED <<db, mem, pc, mark, batch, status, world>>

\* observeStamps(): the heads, one by one.  The loop is synchronous; that other
\* steps may fall between two heads here only adds behaviours.
ObserveHead(d) ==
    /\ pc[d] = "get"
    /\ todo[d] = {}
    /\ \E head \in Oldest(heads[d]) :
         /\ ~ObserveThrows(mem[d], wall[d], head)
         /\ mem' = [mem EXCEPT ![d] = Observe(mem[d], wall[d], head)]
         /\ heads' = [heads EXCEPT ![d] = @ \ {head}]
    /\ UNCHANGED <<db, pc, mark, todo, got, batch, status, world>>

\* merge(): one transaction; merging nothing leaves the clock unpersisted.
Merge(d) ==
    /\ pc[d] = "get"
    /\ todo[d] = {}
    /\ heads[d] = {}
    /\ LET ops == UNION {o.ops : o \in {x \in got[d] : x.device # d}}
       IN /\ rows' = [rows EXCEPT ![d] = MergeRows(@, oplog[d], ops)]
          /\ oplog' = [oplog EXCEPT ![d] = MergeLog(@, ops)]
          /\ disk' = [disk EXCEPT ![d] = IF ops = {} THEN @ ELSE mem[d]]
    /\ Goto(d, "record")
    /\ UNCHANGED <<unsynced, applied, lastSnap, mem,
                   mark, todo, got, heads, batch, status, world>>

RecordApplied(d) ==
    /\ pc[d] = "record"
    /\ applied' = [applied EXCEPT ![d] = @ \cup {o.name : o \in got[d]}]
    /\ got' = [got EXCEPT ![d] = {}]
    /\ Goto(d, "pending")
    /\ UNCHANGED <<rows, oplog, unsynced, disk, lastSnap, mem,
                   mark, todo, heads, batch, status, world>>

\* push(): capture what is pending, once.
CapturePending(d) ==
    /\ pc[d] = "pending"
    /\ LET pending == {o \in oplog[d] : o.hlc \in unsynced[d]}
       IN /\ batch' = [batch EXCEPT ![d] = OldestOps(pending, PendingLimit)]
          /\ Goto(d, IF pending = {} THEN "threshold" ELSE "upload")
    /\ mark' = [mark EXCEPT ![d] = {}]
    /\ UNCHANGED <<db, mem, todo, got, heads, status, world>>

\* The object to upload next, sealed under the name of its newest operation.
OpsObjects(d) ==
    {[name |-> opsObjectName(head), device |-> d, ops |-> Slice(d)] : head \in HeadOf(Slice(d))}

Upload(d) ==
    /\ pc[d] = "upload"
    /\ \E b \in OpsObjects(d) : ~PutRefused(b.name) /\ PutObject(b)
    /\ Goto(d, "recordOwn")
    /\ UNCHANGED <<db, mem, mark, todo, got, heads, batch, status, wall, faults, authored>>

RecordOwn(d) ==
    /\ pc[d] = "recordOwn"
    /\ applied' = [applied EXCEPT ![d] = @ \cup {b.name : b \in OpsObjects(d)}]
    /\ Goto(d, "markSynced")
    /\ UNCHANGED <<rows, oplog, unsynced, disk, lastSnap, mem,
                   mark, todo, got, heads, batch, status, world>>

\* Mutant: whatever is pending now is marked, not what was uploaded.
UploadedAll(d) == unsynced[d]

\* The stamps an upload lets push() mark.
Uploaded(d) == {o.hlc : o \in Slice(d)}

MarkSynced(d) ==
    /\ pc[d] = "markSynced"
    /\ unsynced' = [unsynced EXCEPT ![d] = @ \ Uploaded(d)]
    /\ batch' = [batch EXCEPT ![d] = @ \ Slice(d)]
    /\ Goto(d, IF batch[d] = Slice(d) THEN "threshold" ELSE "upload")
    /\ UNCHANGED <<rows, oplog, disk, applied, lastSnap, mem,
                   mark, todo, got, heads, status, world>>

\* maybeSnapshot(): enough operations past the last snapshot; the watermark is
\* the newest stamp of the log.
Threshold(d) ==
    /\ pc[d] = "threshold"
    /\ LET since == {o \in oplog[d] : ~\E w \in lastSnap[d] : AtMost(o.hlc, w)}
       IN IF Cardinality(since) < SnapshotAfter
            THEN Goto(d, "finish") /\ UNCHANGED mark
            ELSE /\ mark' = [mark EXCEPT ![d] = HeadOf(oplog[d])]
                 /\ Goto(d, "putSnapshot")
    /\ UNCHANGED <<db, mem, todo, got, heads, batch, status, world>>

\* The tables are read after the log, and hold only what is live.
SnapshotObjects(d) ==
    {[name |-> snapshotObjectName(w), device |-> d, ops |-> rows[d]] : w \in mark[d]}

PutSnapshot(d) ==
    /\ pc[d] = "putSnapshot"
    /\ \E b \in SnapshotObjects(d) : ~PutRefused(b.name) /\ PutObject(b)
    /\ Goto(d, "recordOwnSnapshot")
    /\ UNCHANGED <<db, mem, mark, todo, got, heads, batch, status, wall, faults, authored>>

RecordOwnSnapshot(d) ==
    /\ pc[d] = "recordOwnSnapshot"
    /\ applied' = [applied EXCEPT ![d] = @ \cup {snapshotObjectName(w) : w \in mark[d]}]
    /\ Goto(d, "noteOwnSnapshot")
    /\ UNCHANGED <<rows, oplog, unsynced, disk, lastSnap, mem,
                   mark, todo, got, heads, batch, status, world>>

NoteOwnSnapshot(d) ==
    /\ pc[d] = "noteOwnSnapshot"
    /\ lastSnap' = [lastSnap EXCEPT ![d] = mark[d]]
    /\ Goto(d, "prune")
    /\ UNCHANGED <<rows, oplog, unsynced, disk, applied, mem,
                   mark, todo, got, heads, batch, status, world>>

\* prune(): what the snapshot supersedes, as listed now.
\* Mutant: snapshots are compared like operations.
SupersededInclusive(watermark) ==
    {n \in List("ops") \cup List("snapshot") : coveredBy(n, watermark)}

Superseded(watermark) ==
    {n \in List("ops") : coveredBy(n, watermark)}
      \cup {n \in List("snapshot") : \E w \in watermark : Before(n.stamp, w)}

ListSuperseded(d) ==
    /\ pc[d] = "prune"
    /\ todo' = [todo EXCEPT ![d] = Superseded(mark[d])]
    /\ Goto(d, "remove")
    /\ UNCHANGED <<db, mem, mark, got, heads, batch, status, world>>

\* Operations first, then snapshots, each in listing order.
NextSuperseded(d) ==
    LET ops == {n \in todo[d] : n.kind = "ops"}
    IN  First(IF ops # {} THEN ops ELSE todo[d])

RemoveSuperseded(d) ==
    /\ pc[d] = "remove"
    /\ todo[d] # {}
    /\ \E n \in NextSuperseded(d) :
         /\ remote' = {o \in remote : o.name # n}
         /\ applied' = [applied EXCEPT ![d] = @ \ {n}]
         /\ todo' = [todo EXCEPT ![d] = @ \ {n}]
    /\ UNCHANGED <<rows, oplog, unsynced, disk, lastSnap, mem,
                   pc, mark, got, heads, batch, status, wall, faults, authored>>

Finish(d) ==
    /\ pc[d] = "finish" \/ (pc[d] = "remove" /\ todo[d] = {})
    /\ EndCycle(d, "idle")
    /\ UNCHANGED <<db, mem, world>>

----------------------------------------------------------------------------
\* Errors the cycle meets without anything failing.

\* ClockDriftError, or an overflow, from observe().
ObserveError(d) ==
    /\ \/ /\ pc[d] = "getSnapshot"
          /\ \E o \in remote : o.name \in todo[d] /\ ObserveThrows(mem[d], wall[d], o.name.stamp)
       \/ /\ pc[d] = "get" /\ todo[d] = {}
          /\ \E head \in Oldest(heads[d]) : ObserveThrows(mem[d], wall[d], head)
    /\ EndCycle(d, "error")
    /\ UNCHANGED <<db, mem, world>>

\* A listed object was pruned before it was fetched: 404, not retryable.
ObjectGone(d) ==
    /\ pc[d] \in {"getSnapshot", "get"}
    /\ todo[d] # {}
    /\ ~\E o \in remote : o.name \in First(todo[d])
    /\ EndCycle(d, "error")
    /\ UNCHANGED <<db, mem, world>>

\* The server answers 409 or 400: not retryable either.
PutError(d) ==
    /\ \/ pc[d] = "upload" /\ \E b \in OpsObjects(d) : PutRefused(b.name)
       \/ pc[d] = "putSnapshot" /\ \E b \in SnapshotObjects(d) : PutRefused(b.name)
    /\ EndCycle(d, "error")
    /\ UNCHANGED <<db, mem, world>>

----------------------------------------------------------------------------
\* Faults.

Requests == {"snapshots", "getSnapshot", "list", "upload", "putSnapshot"}

\* A request fails, and nothing has happened at the store.
RequestFails(d) ==
    /\ Fault("request")
    /\ pc[d] \in Requests \/ (pc[d] = "get" /\ todo[d] # {})
    /\ EndCycle(d, "retry")
    /\ UNCHANGED <<db, mem, wall, remote, authored>>

\* The store has stored the object, and the reply is lost.
PutReplyLost(d) ==
    /\ Fault("request")
    /\ \/ pc[d] = "upload" /\ \E b \in OpsObjects(d) : ~PutRefused(b.name) /\ PutObject(b)
       \/ pc[d] = "putSnapshot" /\ \E b \in SnapshotObjects(d) : ~PutRefused(b.name) /\ PutObject(b)
    /\ EndCycle(d, "retry")
    /\ UNCHANGED <<db, mem, wall, authored>>

\* Pruning swallows its errors: the object may be gone or not, the record stays.
PruneFails(d) ==
    /\ Fault("prune")
    /\ \/ pc[d] = "prune" /\ UNCHANGED remote
       \/ /\ pc[d] = "remove" /\ todo[d] # {}
          /\ remote' \in {remote, {o \in remote : o.name \notin NextSuperseded(d)}}
    /\ Goto(d, "finish")
    /\ todo' = [todo EXCEPT ![d] = {}]
    /\ UNCHANGED <<db, mem, mark, got, heads, batch, status, wall, authored>>

\* Mutant: the clock starts afresh.
RestoredFromNothing(d) == ZeroClock

\* LedgerService.initialise(): the clock comes back from the database.
RestoredClock(d) == disk[d]

\* The app is killed and started again.
Crash(d) ==
    /\ Fault("crash")
    /\ mem' = [mem EXCEPT ![d] = RestoredClock(d)]
    /\ EndCycle(d, "idle")
    /\ UNCHANGED <<db, wall, remote, authored>>

\* The wall clock runs; or the system sets it back.
Advance(d) ==
    /\ wall[d] < MaxTime
    /\ wall' = [wall EXCEPT ![d] = @ + 1]
    /\ UNCHANGED <<db, mem, cycle, remote, faults, authored>>

SetBack(d) ==
    /\ Fault("clock")
    /\ wall[d] > 0
    /\ wall' = [wall EXCEPT ![d] = @ - 1]
    /\ UNCHANGED <<db, mem, cycle, remote, authored>>

----------------------------------------------------------------------------
CycleStep(d) ==
    \/ Begin(d)
    \/ ListSnapshots(d) \/ ApplySnapshot(d) \/ RecordSnapshot(d) \/ NoteSnapshot(d)
    \/ ListOps(d) \/ GetObject(d) \/ ObserveHead(d) \/ Merge(d) \/ RecordApplied(d)
    \/ CapturePending(d) \/ Upload(d) \/ RecordOwn(d) \/ MarkSynced(d)
    \/ Threshold(d) \/ PutSnapshot(d) \/ RecordOwnSnapshot(d) \/ NoteOwnSnapshot(d)
    \/ ListSuperseded(d) \/ RemoveSuperseded(d)
    \/ Finish(d)
    \/ ObserveError(d) \/ ObjectGone(d) \/ PutError(d)

UserStep(d) == \E e \in Entities : Put(d, e) \/ Remove(d, e)

FaultStep(d) ==
    AbortedWrite(d) \/ RequestFails(d) \/ PutReplyLost(d) \/ PruneFails(d) \/ Crash(d) \/ SetBack(d)

Next == \E d \in Devices : CycleStep(d) \/ UserStep(d) \/ FaultStep(d) \/ Advance(d)

Spec == Init /\ [][Next]_vars

\* The timer of the scheduler keeps starting cycles and the event loop keeps
\* running them; time passes.  Users owe nothing, and faults are not fair.
Fairness == \A d \in Devices : WF_vars(CycleStep(d)) /\ WF_vars(Advance(d))

FairSpec == Spec /\ Fairness

----------------------------------------------------------------------------
(***************************************************************************)
(* Properties.                                                             *)
(***************************************************************************)
Steps ==
    {"idle", "snapshots", "getSnapshot", "recordSnapshot", "noteSnapshot",
     "list", "get", "record", "pending", "upload", "recordOwn", "markSynced",
     "threshold", "putSnapshot", "recordOwnSnapshot", "noteOwnSnapshot",
     "prune", "remove", "finish"}

\* Every variable has its type.
TypeOK ==
    /\ rows \in [Devices -> SUBSET Op]
    /\ oplog \in [Devices -> SUBSET Op]
    /\ unsynced \in [Devices -> SUBSET Stamp]
    /\ disk \in [Devices -> HlcState]
    /\ applied \in [Devices -> SUBSET Name]
    /\ lastSnap \in [Devices -> SUBSET Stamp]
    /\ mem \in [Devices -> HlcState]
    /\ pc \in [Devices -> Steps]
    /\ mark \in [Devices -> SUBSET Stamp]
    /\ todo \in [Devices -> SUBSET Name]
    /\ got \in [Devices -> SUBSET Object]
    /\ heads \in [Devices -> SUBSET Stamp]
    /\ batch \in [Devices -> SUBSET Op]
    /\ status \in [Devices -> {"idle", "syncing", "retry", "error"}]
    /\ wall \in [Devices -> Nat]
    /\ remote \in SUBSET Object
    /\ faults \in Nat
    /\ authored \in SUBSET Op

\* A stamp names one write: no two writes, on any devices and across crashes,
\* carry the same stamp (models/oplog.ts: "globally unique").
StampsUnique == \A o, p \in authored : o.hlc = p.hlc => o = p

\* The tables say what the log says: an entity's row is its newest operation
\* if that is a put, and absent otherwise (LedgerService: put, remove, merge).
RowsFollowLog == \A d \in Devices : rows[d] = LiveRows(oplog[d])

\* A write is stamped after everything its device has in its log, merged
\* operations included (observeStamps before merge).
WritesAfterKnown ==
    [][\A d \in Devices : \A o \in oplog'[d] \ oplog[d] :
          o \in authored' \ authored => NewerThanLog(o, oplog[d])]_vars

\* An object recorded in remoteObjects has been merged: the log holds each of
\* its operations or something newer (pull() records after it merges).
AppliedIsMerged ==
    \A d \in Devices : \A b \in remote :
        b.name \in applied[d] => \A o \in b.ops : Reflects(oplog[d], o)

\* What a device no longer counts as pending is at the destination: a write
\* marked synced is in an object there (push() marks what it uploaded).
SyncedIsStored ==
    \A d \in Devices : \A o \in oplog[d] :
        o.hlc.device = d /\ o.hlc \notin unsynced[d] => \E b \in remote : o \in b.ops

\* An object name never changes its contents, whoever writes it and however
\* often: batches are named after their newest operation.
BatchesImmutable ==
    [][\A b \in remote, c \in remote' :
          b.name.kind = "ops" /\ b.name = c.name => b.ops = c.ops]_vars

\* Nothing to send, and nothing at the destination it has not applied.
Settled(d) == unsynced[d] = {} /\ {b.name : b \in remote} \subseteq applied[d]

\* Two devices with nothing left to exchange show the same ledger, whatever
\* the order in which they learned of each other's writes.
SettledAgree ==
    \A c, d \in Devices : Settled(c) /\ Settled(d) => rows[c] = rows[d]

\* Once the writes and the faults are over, every device has sent everything.
EventuallySent == <>[](\A d \in Devices : unsynced[d] = {})

\* ... and all of them show the same ledger from then on.
EventuallyAgree == <>[](\A c, d \in Devices : rows[c] = rows[d])

----------------------------------------------------------------------------
\* Snapshots.

Stored == {b.name : b \in remote}

\* A device that remembers a snapshot can count on one: pruning, by any number
\* of devices at once, leaves a snapshot at least as new at the destination.
SnapshotKept ==
    \A d \in Devices : \A w \in lastSnap[d] :
        \E n \in Stored : n.kind = "snapshot" /\ AtMost(w, n.stamp)

\* A batch recorded as applied because a snapshot covers it holds nothing the
\* snapshot has not said: the device knows the writes in it that still stand
\* (sync.service.ts, pull).
CoveredIsKnown ==
    \A d \in Devices : \A b \in remote :
        b.name.kind = "ops" /\ b.name \in applied[d] =>
            \A o \in b.ops \cap LiveRows(authored) : Reflects(oplog[d], o)

\* Pruning removes nothing that still stands and is said nowhere else at the
\* destination (sync.service.ts, prune).
PruneKeepsWrites ==
    [][\A b \in remote : b.name \notin Stored' =>
          \A o \in b.ops \cap LiveRows(authored) : \E c \in remote' : o \in c.ops]_vars

\* A deletion reaches everybody: when two devices have nothing left to
\* exchange, neither shows a row the other knows to be deleted.
DeletionsReach ==
    \A c, d \in Devices : Settled(c) /\ Settled(d) =>
        \A r \in rows[c], t \in oplog[d] :
            t.op = "delete" /\ t.entity = r.entity => Before(t.hlc, r.hlc)

\* With clocks that agree and no failing request, no cycle ends in an error
\* that retrying cannot clear.
NoLastingError == \A d \in Devices : status[d] # "error"
=============================================================================
