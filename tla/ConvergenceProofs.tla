------------------------- MODULE ConvergenceProofs --------------------------
(***************************************************************************)
(* What holds of devices that sync as long as no snapshot is stored, for   *)
(* any set of devices, any limits and any number of writes and faults:     *)
(* through the sync server, which refuses the names of snapshots and names *)
(* in use, and through an S3 bucket, which replaces whatever is put again, *)
(* until there are as many operations as a snapshot is worth.              *)
(***************************************************************************)
EXTENDS SyncProofs, MCSync, FiniteSetTheorems

\* No snapshot is stored: the server refuses it, or it never comes to that.
Unsnapshotted == Target = "server" \/ MaxOps < SnapshotAfter


----------------------------------------------------------------------------
\* Layer 1: no snapshots.

\* The steps a cycle takes only if there are snapshots at the destination.
SnapshotSteps ==
    {"getSnapshot", "recordSnapshot", "noteSnapshot",
     "recordOwnSnapshot", "noteOwnSnapshot", "prune", "remove"}

NoSnapshots ==
    /\ \A b \in remote : b.name.kind = "ops"
    /\ \A d \in Devices : pc[d] \notin SnapshotSteps
    /\ \A d \in Devices : mark[d] # {} => pc[d] = "putSnapshot"
    /\ \A d \in Devices : pc[d] = "putSnapshot" => Target = "server"

\* The operations made are finitely many, and no more than the bound.
Counted == IsFiniteSet(authored) /\ Cardinality(authored) <= MaxOps

\* A log holds writes somebody made.
LogsAuthored == \A d \in Devices : oplog[d] \subseteq authored

\* Operations of a log are finitely many.
LEMMA LogCounted ==
    ASSUME Counted, LogsAuthored, NEW d \in Devices, NEW S \in SUBSET oplog[d]
    PROVE  IsFiniteSet(S) /\ Cardinality(S) \in Nat /\ Cardinality(S) <= MaxOps
<1>1. S \in SUBSET authored
  BY DEF LogsAuthored
<1>2. IsFiniteSet(S) /\ Cardinality(S) <= Cardinality(authored)
  BY <1>1, FS_Subset DEF Counted
<1>3. Cardinality(S) \in Nat /\ Cardinality(authored) \in Nat
  BY <1>2, FS_CardinalityType DEF Counted
<1> QED
  BY <1>2, <1>3, SyncAssumption DEF Counted

\* A write adds one operation to the history, below the bound; no other step adds any.
LEMMA CountedStep ==
    ASSUME Counted, [Next]_vars
    PROVE  Counted'
<1>1. CASE UNCHANGED authored
  BY <1>1 DEF Counted
<1>2. ASSUME NEW d \in Devices, UserStep(d) PROVE Counted'
  <2>1. PICK e \in Entities, kind \in {"put", "delete"} : Write(d, e, kind)
    BY <1>2 DEF UserStep, Put, Remove
  <2>2. authored' = authored \cup {Written(d, e, kind)} /\ Cardinality(authored) < MaxOps
    BY <2>1 DEF Write, Written
  <2>3. IsFiniteSet(authored') /\ Cardinality(authored') \in {Cardinality(authored), Cardinality(authored) + 1}
    BY <2>2, FS_AddElement DEF Counted
  <2> QED
    BY <2>2, <2>3, FS_CardinalityType, SyncAssumption DEF Counted
<1>3. ASSUME NEW d \in Devices, CycleStep(d) PROVE UNCHANGED authored
  BY <1>3 DEF CycleStep, Begin, ListSnapshots, ApplySnapshot, RecordSnapshot, NoteSnapshot, ListOps,
     GetObject, ObserveHead, Merge, RecordApplied, CapturePending, Upload, RecordOwn, MarkSynced,
     Threshold, PutSnapshot, RecordOwnSnapshot, NoteOwnSnapshot, ListSuperseded, RemoveSuperseded,
     Finish, ObserveError, ObjectGone, PutError, world
<1>4. ASSUME NEW d \in Devices, FaultStep(d) \/ Advance(d) PROVE UNCHANGED authored
  BY <1>4 DEF FaultStep, AbortedWrite, RequestFails, PutReplyLost, PruneFails, Crash, SetBack, Advance
<1> QED
  BY <1>1, <1>2, <1>3, <1>4 DEF Next, vars, world

\* What a device uploads are operations; a snapshot is refused, where one is sent.
LEMMA UploadKinds ==
    ASSUME NoSnapshots, NEW d \in Devices
    PROVE  /\ \A b \in OpsObjects(d) : b.name.kind = "ops"
           /\ pc[d] = "putSnapshot" => \A b \in SnapshotObjects(d) : PutRefused(b.name)
BY DEF OpsObjects, opsObjectName, SnapshotObjects, snapshotObjectName, PutRefused, NoSnapshots

\* The end of a cycle forgets the watermark.
LEMMA NoSnapshotsEnd ==
    ASSUME NoSnapshots, TypeOK, NEW d \in Devices, NEW outcome, EndCycle(d, outcome),
           \A b \in remote' : b.name.kind = "ops"
    PROVE  NoSnapshots'
BY DEF NoSnapshots, TypeOK, EndCycle, ForgetLocals, Goto, SnapshotSteps

\* No step of any device stores a snapshot, finds one or prunes.
LEMMA NoSnapshotsStep ==
    ASSUME Unsnapshotted, NoSnapshots, Counted, LogsAuthored, TypeOK, [Next]_vars
    PROVE  NoSnapshots'
<1>1. CASE UNCHANGED vars
  BY <1>1 DEF NoSnapshots, vars, cycle, world
<1>2. ASSUME NEW d \in Devices, CycleStep(d) PROVE NoSnapshots'
  <2>0. pc[d] \notin SnapshotSteps
    BY DEF NoSnapshots
  <2>1. CASE Begin(d)
    BY <2>1 DEF Begin, NoSnapshots, TypeOK, Goto, SnapshotSteps, world
  <2>2. CASE ListSnapshots(d)
    <3>1. Last(List("snapshot")) = {}
      BY DEF NoSnapshots, List, Last
    <3> QED
      BY <2>2, <3>1 DEF ListSnapshots, NoSnapshots, TypeOK, Goto, SnapshotSteps, world
  <2>3. CASE ListOps(d)
    BY <2>3 DEF ListOps, NoSnapshots, TypeOK, Goto, SnapshotSteps, world
  <2>4. CASE GetObject(d) \/ ObserveHead(d)
    BY <2>4 DEF GetObject, ObserveHead, NoSnapshots, world
  <2>5. CASE Merge(d)
    BY <2>5 DEF Merge, NoSnapshots, TypeOK, Goto, SnapshotSteps, world
  <2>6. CASE RecordApplied(d)
    BY <2>6 DEF RecordApplied, NoSnapshots, TypeOK, Goto, SnapshotSteps, world
  <2>7. CASE CapturePending(d)
    BY <2>7 DEF CapturePending, NoSnapshots, TypeOK, Goto, SnapshotSteps, world
  <2>8. CASE Upload(d)
    <3>1. \A b \in remote' : b.name.kind = "ops"
      BY <2>8, UploadKinds DEF Upload, PutObject, NoSnapshots
    <3> QED
      BY <2>8, <3>1 DEF Upload, NoSnapshots, TypeOK, Goto, SnapshotSteps
  <2>9. CASE RecordOwn(d)
    BY <2>9 DEF RecordOwn, NoSnapshots, TypeOK, Goto, SnapshotSteps, world
  <2>10. CASE MarkSynced(d)
    BY <2>10 DEF MarkSynced, NoSnapshots, TypeOK, Goto, SnapshotSteps, world
  <2>11. CASE Threshold(d)
    <3>1. \A S \in SUBSET oplog[d] : Target = "server" \/ Cardinality(S) < SnapshotAfter
      BY LogCounted, SyncAssumption DEF Unsnapshotted
    <3> DEFINE since == {o \in oplog[d] : ~\E w \in lastSnap[d] : AtMost(o.hlc, w)}
    <3>2. since \in SUBSET oplog[d]
      OBVIOUS
    <3>3. pc[d] = "threshold" /\ mark[d] = {}
      BY <2>11 DEF Threshold, NoSnapshots
    <3>4. IF Cardinality(since) < SnapshotAfter
          THEN pc' = [pc EXCEPT ![d] = "finish"] /\ UNCHANGED mark
          ELSE mark' = [mark EXCEPT ![d] = HeadOf(oplog[d])] /\ pc' = [pc EXCEPT ![d] = "putSnapshot"]
      BY <2>11 DEF Threshold, Goto
    <3> HIDE DEF since
    <3>5. Target = "server" \/ (pc' = [pc EXCEPT ![d] = "finish"] /\ UNCHANGED mark)
      BY <3>1, <3>2, <3>4
    <3>6. UNCHANGED remote
      BY <2>11 DEF Threshold, world
    <3> QED
      BY <3>3, <3>4, <3>5, <3>6 DEF NoSnapshots, TypeOK, SnapshotSteps
  <2>12. CASE PutSnapshot(d)
    BY <2>12, UploadKinds DEF PutSnapshot
  <2>13. CASE Finish(d) \/ ObserveError(d) \/ ObjectGone(d) \/ PutError(d)
    BY <2>13, NoSnapshotsEnd DEF Finish, ObserveError, ObjectGone, PutError, NoSnapshots, world
  <2>14. CASE ApplySnapshot(d) \/ RecordSnapshot(d) \/ NoteSnapshot(d) \/ RecordOwnSnapshot(d)
              \/ NoteOwnSnapshot(d) \/ ListSuperseded(d) \/ RemoveSuperseded(d)
    BY <2>0, <2>14 DEF ApplySnapshot, RecordSnapshot, NoteSnapshot, RecordOwnSnapshot,
       NoteOwnSnapshot, ListSuperseded, RemoveSuperseded, SnapshotSteps
  <2> QED
    BY <1>2, <2>1, <2>2, <2>3, <2>4, <2>5, <2>6, <2>7, <2>8, <2>9, <2>10, <2>11, <2>12,
       <2>13, <2>14 DEF CycleStep
<1>3. ASSUME NEW d \in Devices, UserStep(d) PROVE NoSnapshots'
  BY <1>3 DEF UserStep, Put, Remove, Write, NoSnapshots, cycle
<1>4. ASSUME NEW d \in Devices, FaultStep(d) PROVE NoSnapshots'
  <2>1. CASE AbortedWrite(d) \/ SetBack(d)
    BY <2>1 DEF AbortedWrite, SetBack, NoSnapshots, cycle
  <2>2. CASE RequestFails(d) \/ Crash(d)
    BY <2>2, NoSnapshotsEnd DEF RequestFails, Crash, NoSnapshots
  <2>3. CASE PutReplyLost(d)
    <3>1. \A b \in remote' : b.name.kind = "ops"
      BY <2>3, UploadKinds DEF PutReplyLost, PutObject, NoSnapshots
    <3> QED
      BY <2>3, <3>1, NoSnapshotsEnd DEF PutReplyLost
  <2>4. CASE PruneFails(d)
    BY <2>4 DEF PruneFails, NoSnapshots, SnapshotSteps
  <2> QED
    BY <1>4, <2>1, <2>2, <2>3, <2>4 DEF FaultStep
<1>5. ASSUME NEW d \in Devices, Advance(d) PROVE NoSnapshots'
  BY <1>5 DEF Advance, NoSnapshots, cycle
<1> QED
  BY <1>1, <1>2, <1>3, <1>4, <1>5 DEF Next

----------------------------------------------------------------------------
\* Layer 2: logs, and the objects they travel in.

\* What is captured for upload is in the log.
BatchesLogged == \A d \in Devices : batch[d] \subseteq oplog[d]

\* An object holds operations its device has in its log, none newer than its
\* name, and no two objects have one name.
ObjectsLogged == \A b \in remote : b.ops \subseteq oplog[b.device]
ObjectsBounded == \A b \in remote : \A o \in b.ops : AtMost(o.hlc, b.name.stamp)
NamesUnique == \A b, c \in remote : b.name = c.name => b = c

\* What a device has fetched is at the destination, and its clock covers it or
\* is about to.
FetchedStored == \A d \in Devices : got[d] \subseteq remote
FetchedCovered ==
    \A d \in Devices : \A g \in got[d] :
        \/ g.device = d
        \/ g.name.stamp \in heads[d]
        \/ NotAhead(decodeHlc(g.name.stamp), mem[d])

\* The persisted clock covers the log.
LogsCovered == \A d \in Devices : \A o \in oplog[d] : NotAhead(decodeHlc(o.hlc), disk[d])

LogInv ==
    /\ LogsAuthored /\ BatchesLogged
    /\ ObjectsLogged /\ ObjectsBounded /\ NamesUnique
    /\ FetchedStored /\ FetchedCovered
    /\ LogsCovered
    /\ RowsFollowLog

\* A stamp not newer than a stamp the clock covers is covered.
LEMMA AtMostCovered ==
    ASSUME NEW s \in Stamp, NEW t \in Stamp, NEW c \in HlcState,
           AtMost(s, t), NotAhead(decodeHlc(t), c)
    PROVE  NotAhead(decodeHlc(s), c)
BY StampFields, StateFields DEF AtMost, Before, NotAhead, decodeHlc

\* A step that touches neither logs nor tables nor the destination, and moves
\* no fetched object or captured operation but by forgetting it.
LEMMA LogInvQuiet ==
    ASSUME LogInv, UNCHANGED <<rows, oplog, authored, remote, disk>>,
           \A d \in Devices :
             /\ batch'[d] \subseteq oplog[d]
             /\ got'[d] = {} \/ UNCHANGED <<got[d], heads[d], mem[d]>>
    PROVE  LogInv'
<1>1. LogsAuthored' /\ BatchesLogged' /\ ObjectsLogged' /\ ObjectsBounded' /\ NamesUnique'
  BY DEF LogInv, LogsAuthored, BatchesLogged, ObjectsLogged, ObjectsBounded, NamesUnique
<1>2. FetchedStored' /\ FetchedCovered'
  BY DEF LogInv, FetchedStored, FetchedCovered
<1>3. LogsCovered' /\ RowsFollowLog'
  BY DEF LogInv, LogsCovered, RowsFollowLog
<1> QED
  BY <1>1, <1>2, <1>3 DEF LogInv

\* The end of a cycle, where the destination has not changed.
LEMMA LogInvEnd ==
    ASSUME LogInv, TypeOK, NEW d \in Devices, NEW outcome, EndCycle(d, outcome),
           UNCHANGED <<rows, oplog, authored, remote, disk>>,
           \A c \in Devices : c # d => UNCHANGED mem[c]
    PROVE  LogInv'
<1>1. \A c \in Devices :
        /\ batch'[c] \subseteq oplog[c]
        /\ got'[c] = {} \/ UNCHANGED <<got[c], heads[c], mem[c]>>
  BY DEF EndCycle, ForgetLocals, TypeOK, LogInv, BatchesLogged
<1> QED
  BY <1>1, LogInvQuiet

\* The operations a device uploads are in its log, and at most its name.
LEMMA UploadLogged ==
    ASSUME LogInv, TypeOK, NEW d \in Devices, NEW b \in OpsObjects(d)
    PROVE  /\ b.device = d /\ b.ops = Slice(d) /\ b.ops \subseteq oplog[d]
           /\ \A o \in b.ops : AtMost(o.hlc, b.name.stamp)
<1>1. batch[d] \in SUBSET Op /\ batch[d] \subseteq oplog[d]
  BY DEF TypeOK, LogInv, BatchesLogged
<1>2. Slice(d) \subseteq batch[d]
  BY <1>1, SliceType DEF Slice
<1>3. PICK head \in HeadOf(Slice(d)) :
        b = [name |-> opsObjectName(head), device |-> d, ops |-> Slice(d)]
  BY DEF OpsObjects
<1>4. \A o \in Slice(d) : AtMost(o.hlc, head)
  BY <1>3 DEF HeadOf, Newest
<1> QED
  BY <1>1, <1>2, <1>3, <1>4 DEF opsObjectName

----------------------------------------------------------------------------
\* Layer 3: what is pending, and what of it has been stored under which name.

\* The operations of a log that count as unsent, and those older than a stamp.
Pending(d) == {o \in oplog[d] : o.hlc \in unsynced[d]}
Older(d, s) == {p \in Pending(d) : Before(p.hlc, s)}

Pushing == {"upload", "recordOwn", "markSynced"}

\* What counts as unsent is a device's own, and in its log.
PendingOwn == \A d \in Devices : \A s \in unsynced[d] : s.device = d /\ \E o \in oplog[d] : o.hlc = s

\* What is captured is unsent, and so is everything older that is unsent.
BatchPrefix ==
    \A d \in Devices : \A o \in batch[d] :
        /\ o \in Pending(d)
        /\ Older(d, o.hlc) \subseteq batch[d]
        /\ Cardinality(Older(d, o.hlc)) < PendingLimit

\* An object is named after one of its operations, which its device made.
ObjectsHeaded ==
    \A b \in remote : b.name.stamp.device = b.device /\ \E o \in b.ops : o.hlc = b.name.stamp

\* An object whose upload was never marked holds what is pending up to its name: a push
\* that starts over sends it again as it is.
ResentSame ==
    \A b \in remote : b.name.stamp \in unsynced[b.device] =>
        /\ b.ops = {o \in Pending(b.device) : AtMost(o.hlc, b.name.stamp)}
        /\ Cardinality(Older(b.device, b.name.stamp)) < BatchSize
        /\ Cardinality(Older(b.device, b.name.stamp)) < PendingLimit

\* Such an object is within the slice being pushed, so that marking the slice marks it.
SliceCovers ==
    \A d \in Devices : pc[d] \in Pushing =>
        \A b \in remote : b.device = d /\ b.name.stamp \in unsynced[d] =>
            \E o \in Slice(d) : o.hlc = b.name.stamp

PendInv == PendingOwn /\ BatchPrefix /\ ObjectsHeaded /\ ResentSame /\ SliceCovers

\* A log is finite, and its operations differ in their stamps.
LEMMA LogFacts ==
    ASSUME Counted, StampInv, LogInv, NEW d \in Devices
    PROVE  /\ Pending(d) \in SUBSET oplog[d]
           /\ \A o \in oplog[d] : o \in Op /\ o.hlc \in Stamp
           /\ \A o, p \in oplog[d] : o.hlc = p.hlc => o = p
           /\ \A S \in SUBSET oplog[d] : \A T \in SUBSET S :
                Cardinality(S) \in Nat /\ Cardinality(T) \in Nat /\ Cardinality(T) <= Cardinality(S)
<1>1. Pending(d) \in SUBSET oplog[d]
  BY DEF Pending
<1>2. \A o \in oplog[d] : o \in Op /\ o.hlc \in Stamp
  BY OpFields DEF StampInv, TypeOK
<1>3. \A o, p \in oplog[d] : o.hlc = p.hlc => o = p
  BY DEF StampInv, StampsUnique, LogInv, LogsAuthored
<1>4. ASSUME NEW S \in SUBSET oplog[d], NEW T \in SUBSET S
      PROVE  Cardinality(S) \in Nat /\ Cardinality(T) \in Nat /\ Cardinality(T) <= Cardinality(S)
  <2>1. IsFiniteSet(S) /\ Cardinality(S) \in Nat /\ Cardinality(T) \in Nat
    BY LogCounted DEF LogInv
  <2> QED
    BY <2>1, FS_Subset
<1> QED
  BY <1>1, <1>2, <1>3, <1>4

\* The oldest of a log's operations: with one of them come all that are older.
LEMMA OldestPrefix ==
    ASSUME Counted, StampInv, LogInv, NEW d \in Devices, NEW S \in SUBSET oplog[d],
           NEW k \in Nat, NEW o \in OldestOps(S, k), NEW p \in S, Before(p.hlc, o.hlc)
    PROVE  p \in OldestOps(S, k)
<1> DEFINE P == {q \in S : Before(q.hlc, p.hlc)}
           O == {q \in S : Before(q.hlc, o.hlc)}
<1>1. o \in S /\ Cardinality(O) < k
  BY DEF OldestOps
<1>2. o.hlc \in Stamp /\ p.hlc \in Stamp /\ \A q \in S : q.hlc \in Stamp
  BY <1>1, LogFacts
<1>3. P \in SUBSET O /\ O \in SUBSET oplog[d]
  BY <1>2, BeforeTransitive
<1> HIDE DEF P, O
<1>4. Cardinality(P) <= Cardinality(O) /\ Cardinality(P) \in Nat /\ Cardinality(O) \in Nat
  BY <1>3, LogFacts
<1>5. Cardinality(P) < k
  BY <1>1, <1>4
<1> QED
  BY <1>5 DEF OldestOps, P

\* What a device uploads is what it has pending up to the name, which is one of its own.
LEMMA UploadIsPrefix ==
    ASSUME Counted, StampInv, LogInv, PendInv, NEW d \in Devices, NEW b \in OpsObjects(d)
    PROVE  /\ b.device = d /\ b.ops = Slice(d)
           /\ b.name.stamp \in unsynced[d] /\ b.name.stamp.device = d
           /\ \E o \in b.ops : o.hlc = b.name.stamp
           /\ b.ops = {o \in Pending(d) : AtMost(o.hlc, b.name.stamp)}
           /\ Cardinality(Older(d, b.name.stamp)) < BatchSize
           /\ Cardinality(Older(d, b.name.stamp)) < PendingLimit
<1>1. PICK head \in HeadOf(Slice(d)) :
        b = [name |-> opsObjectName(head), device |-> d, ops |-> Slice(d)]
  BY DEF OpsObjects
<1>2. b.device = d /\ b.ops = Slice(d) /\ b.name.stamp = head
  BY <1>1 DEF opsObjectName
<1>3. PICK h \in Slice(d) : h.hlc = head
  BY <1>1 DEF HeadOf, Newest
<1>4. \A o \in Slice(d) : AtMost(o.hlc, head)
  BY <1>1 DEF HeadOf, Newest
<1>5. batch[d] \in SUBSET oplog[d] /\ batch[d] \in SUBSET Pending(d) /\ Slice(d) \in SUBSET batch[d]
  BY DEF LogInv, BatchesLogged, PendInv, BatchPrefix, Slice, OldestOps
<1>6. /\ Older(d, head) \subseteq batch[d] /\ Cardinality(Older(d, head)) < PendingLimit
      /\ head \in unsynced[d] /\ head.device = d
  BY <1>3, <1>5 DEF PendInv, BatchPrefix, PendingOwn, Pending
<1>7. Cardinality(Older(d, head)) < BatchSize
  <2> DEFINE O == {p \in batch[d] : Before(p.hlc, head)}
  <2>1. Cardinality(O) < BatchSize
    BY <1>3 DEF Slice, OldestOps
  <2>2. Older(d, head) \in SUBSET O /\ O \in SUBSET oplog[d]
    BY <1>5, <1>6 DEF Older
  <2> HIDE DEF O
  <2>3. /\ Cardinality(Older(d, head)) <= Cardinality(O)
        /\ Cardinality(Older(d, head)) \in Nat /\ Cardinality(O) \in Nat
    BY <2>2, LogFacts
  <2> QED
    BY <2>1, <2>3, SyncAssumption
<1>8. ASSUME NEW o \in Pending(d), AtMost(o.hlc, head) PROVE o \in Slice(d)
  <2>1. o \in oplog[d] /\ h \in oplog[d] /\ o.hlc \in Stamp /\ head \in Stamp
    BY <1>3, <1>5, LogFacts
  <2>2. CASE o.hlc = head
    BY <1>3, <2>1, <2>2, LogFacts
  <2>3. CASE Before(o.hlc, head)
    <3>1. o \in batch[d]
      BY <1>6, <1>8, <2>3 DEF Older
    <3> QED
      BY <1>3, <1>5, <2>3, <3>1, OldestPrefix, SyncAssumption DEF Slice
  <2> QED
    BY <1>8, <2>1, <2>2, <2>3, BeforeTotal DEF AtMost
<1>9. Slice(d) = {o \in Pending(d) : AtMost(o.hlc, head)}
  BY <1>4, <1>5, <1>8
<1> QED
  BY <1>2, <1>3, <1>6, <1>7, <1>9

\* An upload adds an object under a new name, or finds the same there already.
LEMMA UploadAdds ==
    ASSUME NoSnapshots, Counted, StampInv, LogInv, PendInv, NEW d \in Devices,
           NEW b \in OpsObjects(d), PutObject(b)
    PROVE  remote' = remote \cup {b} /\ (b \in remote \/ b.name \notin Stored)
<1>1. ASSUME NEW c \in remote, c.name = b.name PROVE c = b
  <2>1. c.device = d
    BY <1>1, UploadIsPrefix DEF PendInv, ObjectsHeaded
  <2>2. c.ops = b.ops
    <3>1. /\ b.name.stamp \in unsynced[d]
          /\ b.ops = {o \in Pending(d) : AtMost(o.hlc, b.name.stamp)}
      BY UploadIsPrefix
    <3>2. c.ops = {o \in Pending(c.device) : AtMost(o.hlc, c.name.stamp)}
      BY <1>1, <2>1, <3>1 DEF PendInv, ResentSame
    <3> QED
      BY <1>1, <2>1, <3>1, <3>2
  <2>3. b.device = d
    BY UploadIsPrefix
  <2>4. c \in Object /\ b \in Object
    BY UploadType DEF StampInv, TypeOK
  <2> QED
    BY <1>1, <2>1, <2>2, <2>3, <2>4 DEF Object
<1> QED
  BY <1>1 DEF PutObject, Stored


----------------------------------------------------------------------------
\* Steps, and the logs.

\* An upload adds one object, under a new name unless it is there.
LEMMA LogInvUpload ==
    ASSUME NoSnapshots, Counted, StampInv, LogInv, PendInv, NEW d \in Devices,
           NEW b \in OpsObjects(d), PutObject(b),
           UNCHANGED <<rows, oplog, authored, disk, mem>>,
           \A c \in Devices :
             /\ batch'[c] \subseteq oplog[c]
             /\ got'[c] = {} \/ UNCHANGED <<got[c], heads[c]>>
    PROVE  LogInv'
<1>1. remote' = remote \cup {b} /\ \A c \in remote : c.name = b.name => c = b
  <2>1. remote' = remote \cup {b} /\ (b \in remote \/ b.name \notin Stored)
    BY UploadAdds
  <2> QED
    BY <2>1 DEF LogInv, NamesUnique, Stored
<1>2. /\ b.device = d /\ b.ops \subseteq oplog[d]
      /\ \A o \in b.ops : AtMost(o.hlc, b.name.stamp)
  BY UploadLogged DEF StampInv
<1>3. LogsAuthored' /\ BatchesLogged' /\ LogsCovered' /\ RowsFollowLog'
  BY DEF LogInv, LogsAuthored, BatchesLogged, LogsCovered, RowsFollowLog
<1>4. ObjectsLogged' /\ ObjectsBounded' /\ NamesUnique'
  BY <1>1, <1>2 DEF LogInv, ObjectsLogged, ObjectsBounded, NamesUnique
<1>5. FetchedStored' /\ FetchedCovered'
  BY <1>1 DEF LogInv, FetchedStored, FetchedCovered
<1> QED
  BY <1>3, <1>4, <1>5 DEF LogInv

\* A write is newer than everything in its device's log.
LEMMA WriteIsNewer ==
    ASSUME StampInv, LogInv, NEW d \in Devices, NEW e \in Entities,
           NEW kind \in {"put", "delete"}, Write(d, e, kind)
    PROVE  \A p \in oplog[d] : Before(p.hlc, Written(d, e, kind).hlc)
<1> TAKE p \in oplog[d]
<1>1. /\ mem[d] \in HlcState /\ disk[d] \in HlcState /\ wall[d] \in Nat
      /\ p.hlc \in Stamp
  BY OpFields DEF StampInv, TypeOK
<1>2. NotAhead(decodeHlc(p.hlc), disk[d]) /\ NotAhead(disk[d], mem[d])
  BY DEF LogInv, LogsCovered, StampInv, ClockKept
<1>3. NotAhead(decodeHlc(p.hlc), mem[d])
  BY <1>1, <1>2, CoversMore
<1>4. ~TickThrows(mem[d], wall[d])
  BY DEF Write
<1>5. Before(p.hlc, encodeHlc(Tick(mem[d], wall[d]), d))
  BY <1>1, <1>3, <1>4, TickIsNewer
<1> QED
  BY <1>5 DEF Written

\* A write adds one operation to the log.
LEMMA WriteAdds ==
    ASSUME StampInv, LogInv, NEW d \in Devices, NEW e \in Entities,
           NEW kind \in {"put", "delete"}, Write(d, e, kind)
    PROVE  /\ oplog' = [oplog EXCEPT ![d] = oplog[d] \cup {Written(d, e, kind)}]
           /\ authored' = authored \cup {Written(d, e, kind)}
<1> DEFINE o == Written(d, e, kind)
<1>1. oplog' = [oplog EXCEPT ![d] = OplogPut(oplog[d], o)] /\ authored' = authored \cup {o}
  BY DEF Write, Written
<1>2. \A p \in oplog[d] : p.hlc # o.hlc
  <2> TAKE p \in oplog[d]
  <2>1. Before(p.hlc, o.hlc) /\ p.hlc \in Stamp
    BY WriteIsNewer, OpFields DEF StampInv, TypeOK
  <2> QED
    BY <2>1, BeforeIrreflexive
<1>3. OplogPut(oplog[d], o) = oplog[d] \cup {o}
  BY <1>2 DEF OplogPut
<1> QED
  BY <1>1, <1>3

\* A write.
LEMMA LogInvWrite ==
    ASSUME StampInv, LogInv, NEW d \in Devices, NEW e \in Entities,
           NEW kind \in {"put", "delete"}, Write(d, e, kind)
    PROVE  LogInv'
<1> DEFINE o == Written(d, e, kind)
           clock == Tick(mem[d], wall[d])
<1>1. /\ oplog' = [oplog EXCEPT ![d] = oplog[d] \cup {o}]
      /\ authored' = authored \cup {o}
      /\ \A p \in oplog[d] : Before(p.hlc, o.hlc)
  BY WriteAdds, WriteIsNewer
<1>2. /\ mem' = [mem EXCEPT ![d] = clock] /\ disk' = [disk EXCEPT ![d] = clock]
      /\ rows' = [rows EXCEPT ![d] = IF kind = "put" THEN TablePut(@, o) ELSE TableDelete(@, e)]
      /\ UNCHANGED <<remote, got, heads, batch>>
      /\ ~TickThrows(mem[d], wall[d])
  BY DEF Write, Written, cycle
<1>3. TypeOK
  BY DEF StampInv
<1>4. clock \in HlcState /\ o \in Op /\ o.entity = e /\ o.op = kind /\ decodeHlc(o.hlc) = clock
  <2>1. clock \in HlcState /\ o \in Op
    BY <1>3, WrittenType
  <2> QED
    BY <2>1, StampTypes DEF Written
<1>5. NotAhead(mem[d], clock) /\ NotAhead(disk[d], clock) /\ mem[d] \in HlcState /\ disk[d] \in HlcState
  <2>1. mem[d] \in HlcState /\ disk[d] \in HlcState /\ wall[d] \in Nat
    BY <1>3 DEF TypeOK
  <2>2. NotAhead(mem[d], clock) /\ NotAhead(disk[d], mem[d])
    BY <1>2, <2>1, TickAdvances DEF StampInv, ClockKept
  <2> QED
    BY <1>4, <2>1, <2>2, NotAheadTransitive
<1> HIDE DEF o, clock
<1>6. LogsAuthored' /\ BatchesLogged'
  BY <1>1, <1>2, <1>3 DEF LogInv, LogsAuthored, BatchesLogged, TypeOK
<1>7. ObjectsLogged' /\ ObjectsBounded' /\ NamesUnique' /\ FetchedStored'
  BY <1>1, <1>2, <1>3 DEF LogInv, ObjectsLogged, ObjectsBounded, NamesUnique, FetchedStored, TypeOK
<1>8. FetchedCovered'
  <2> SUFFICES ASSUME NEW c \in Devices, NEW g \in got[c], g.device # c,
                      g.name.stamp \notin heads[c]
               PROVE  NotAhead(decodeHlc(g.name.stamp), mem'[c])
    BY <1>2 DEF FetchedCovered
  <2>1. NotAhead(decodeHlc(g.name.stamp), mem[c]) /\ g.name.stamp \in Stamp
    BY <1>3, ObjectFields DEF LogInv, FetchedCovered, TypeOK
  <2>2. CASE c = d
    <3>1. mem'[c] = clock
      BY <1>2, <1>3, <2>2 DEF TypeOK
    <3> QED
      BY <1>4, <1>5, <2>1, <2>2, <3>1, CoversMore
  <2>3. CASE c # d
    BY <1>2, <1>3, <2>1, <2>3 DEF TypeOK
  <2> QED
    BY <2>2, <2>3
<1>9. LogsCovered'
  <2> SUFFICES ASSUME NEW c \in Devices, NEW p \in oplog'[c]
               PROVE  NotAhead(decodeHlc(p.hlc), disk'[c])
    BY DEF LogsCovered
  <2>1. CASE c = d /\ p = o
    BY <1>2, <1>3, <1>4, <2>1, NotAheadReflexive DEF TypeOK
  <2>2. CASE c = d /\ p \in oplog[d]
    <3>1. NotAhead(decodeHlc(p.hlc), disk[d]) /\ p.hlc \in Stamp
      BY <1>3, <2>2, OpFields DEF LogInv, LogsCovered, TypeOK
    <3>2. NotAhead(decodeHlc(p.hlc), clock)
      BY <1>4, <1>5, <3>1, CoversMore
    <3> QED
      BY <1>2, <1>3, <2>2, <3>2 DEF TypeOK
  <2>3. CASE c # d
    BY <1>1, <1>2, <1>3, <2>3 DEF LogInv, LogsCovered, TypeOK
  <2> QED
    BY <1>1, <1>3, <2>1, <2>2, <2>3 DEF TypeOK
<1>10. RowsFollowLog'
  <2>1. rows[d] = LiveRows(oplog[d]) /\ oplog[d] \in SUBSET Op
    BY <1>3 DEF LogInv, RowsFollowLog, TypeOK
  <2>2. (IF kind = "put" THEN TablePut(rows[d], o) ELSE TableDelete(rows[d], e))
          = LiveRows(oplog[d] \cup {o})
    BY <1>1, <1>4, <2>1, WriteFollows
  <2> QED
    BY <1>1, <1>2, <1>3, <2>2 DEF LogInv, RowsFollowLog, TypeOK
<1> QED
  BY <1>6, <1>7, <1>8, <1>9, <1>10 DEF LogInv

\* What a merge takes in: the operations of the objects others wrote.
Incoming(d) == UNION {o.ops : o \in {x \in got[d] : x.device # d}}

\* A merge adds to the log what is newer than it, all of it written by somebody
\* and covered by the clock.
LEMMA MergeStep ==
    ASSUME StampInv, LogInv, NEW d \in Devices, Merge(d)
    PROVE  /\ Incoming(d) \subseteq authored
           /\ \A o \in Incoming(d) : NotAhead(decodeHlc(o.hlc), mem[d])
           /\ \A o, p \in oplog[d] \cup Incoming(d) : o.hlc = p.hlc => o = p
           /\ oplog[d] \in SUBSET Op /\ Incoming(d) \in SUBSET Op
           /\ oplog' = [oplog EXCEPT ![d] = oplog[d] \cup Accepted(oplog[d], Incoming(d))]
           /\ rows' = [rows EXCEPT ![d] = MergeRows(rows[d], oplog[d], Incoming(d))]
           /\ disk' = [disk EXCEPT ![d] = IF Incoming(d) = {} THEN @ ELSE mem[d]]
<1>1. TypeOK /\ authored \in SUBSET Op /\ oplog[d] \in SUBSET Op
  BY DEF StampInv, TypeOK
<1>2. ASSUME NEW o \in Incoming(d)
      PROVE  o \in authored /\ NotAhead(decodeHlc(o.hlc), mem[d])
  <2>1. PICK g \in got[d] : g.device # d /\ o \in g.ops
    BY DEF Incoming
  <2>2. g \in remote /\ g \in Object
    BY <1>1 DEF LogInv, FetchedStored, TypeOK
  <2>3. o \in oplog[g.device] /\ g.device \in Devices
    BY <2>1, <2>2, ObjectFields DEF LogInv, ObjectsLogged
  <2>4. o \in authored
    BY <2>3 DEF LogInv, LogsAuthored
  <2>5. NotAhead(decodeHlc(g.name.stamp), mem[d])
    BY <2>1 DEF LogInv, FetchedCovered, Merge
  <2>6. AtMost(o.hlc, g.name.stamp)
    BY <2>1, <2>2 DEF LogInv, ObjectsBounded
  <2>7. o.hlc \in Stamp /\ g.name.stamp \in Stamp /\ mem[d] \in HlcState
    BY <1>1, <2>2, <2>4, OpFields, ObjectFields DEF TypeOK
  <2> QED
    BY <2>4, <2>5, <2>6, <2>7, AtMostCovered
<1>3. oplog[d] \subseteq authored
  BY DEF LogInv, LogsAuthored
<1>4. \A o, p \in oplog[d] \cup Incoming(d) : o.hlc = p.hlc => o = p
  BY <1>2, <1>3 DEF StampInv, StampsUnique
<1>5. /\ oplog' = [oplog EXCEPT ![d] = MergeLog(oplog[d], Incoming(d))]
      /\ rows' = [rows EXCEPT ![d] = MergeRows(rows[d], oplog[d], Incoming(d))]
      /\ disk' = [disk EXCEPT ![d] = IF Incoming(d) = {} THEN @ ELSE mem[d]]
  BY DEF Merge, Incoming
<1>6. Incoming(d) \in SUBSET Op
  BY <1>1, <1>2
<1>7. MergeLog(oplog[d], Incoming(d)) = oplog[d] \cup Accepted(oplog[d], Incoming(d))
  BY <1>1, <1>4, <1>6, MergeAdds
<1> QED
  BY <1>1, <1>2, <1>4, <1>5, <1>6, <1>7

\* A merge.
LEMMA LogInvMerge ==
    ASSUME StampInv, LogInv, NEW d \in Devices, Merge(d)
    PROVE  LogInv'
<1> DEFINE L == oplog[d]
           A == Accepted(oplog[d], Incoming(d))
<1>1. TypeOK /\ ClockKept
  BY DEF StampInv
<1>2. /\ oplog' = [oplog EXCEPT ![d] = L \cup A]
      /\ disk' = [disk EXCEPT ![d] = IF Incoming(d) = {} THEN @ ELSE mem[d]]
      /\ A \subseteq Incoming(d) /\ A \subseteq authored
      /\ \A o \in A : NotAhead(decodeHlc(o.hlc), mem[d]) /\ o.hlc \in Stamp
  BY MergeStep, OpFields DEF Accepted
<1>3. rows' = [rows EXCEPT ![d] = LiveRows(L \cup A)]
  <2>1. rows[d] = LiveRows(L)
    BY DEF LogInv, RowsFollowLog
  <2>2. MergeRows(LiveRows(L), L, Incoming(d)) = LiveRows(MergeLog(L, Incoming(d)))
    BY MergeStep, MergeFollows
  <2>3. MergeLog(L, Incoming(d)) = L \cup A
    BY MergeStep, MergeAdds
  <2> QED
    BY <2>1, <2>2, <2>3, MergeStep
<1>4. UNCHANGED <<authored, remote, got, heads, mem, batch>>
  BY DEF Merge, world
<1> HIDE DEF A
<1>5. LogsAuthored' /\ BatchesLogged' /\ ObjectsLogged'
  BY <1>1, <1>2, <1>4 DEF LogInv, LogsAuthored, BatchesLogged, ObjectsLogged, TypeOK
<1>6. ObjectsBounded' /\ NamesUnique' /\ FetchedStored' /\ FetchedCovered'
  BY <1>4 DEF LogInv, ObjectsBounded, NamesUnique, FetchedStored, FetchedCovered
<1>7. LogsCovered'
  <2> SUFFICES ASSUME NEW c \in Devices, NEW p \in oplog'[c]
               PROVE  NotAhead(decodeHlc(p.hlc), disk'[c])
    BY DEF LogsCovered
  <2>1. CASE c = d /\ p \in A
    <3>1. disk'[c] = mem[d]
      BY <1>1, <1>2, <2>1 DEF TypeOK
    <3> QED
      BY <1>2, <2>1, <3>1
  <2>2. CASE c = d /\ p \in L
    <3>1. NotAhead(decodeHlc(p.hlc), disk[d]) /\ p.hlc \in Stamp
      BY <1>1, <2>2, OpFields DEF LogInv, LogsCovered, TypeOK
    <3>2. disk[d] \in HlcState /\ mem[d] \in HlcState /\ NotAhead(disk[d], mem[d])
      BY <1>1 DEF TypeOK, ClockKept
    <3>3. NotAhead(decodeHlc(p.hlc), mem[d])
      BY <3>1, <3>2, CoversMore
    <3>4. disk'[c] = disk[d] \/ disk'[c] = mem[d]
      BY <1>1, <1>2, <2>2 DEF TypeOK
    <3> QED
      BY <3>1, <3>3, <3>4
  <2>3. CASE c # d
    BY <1>1, <1>2, <2>3 DEF LogInv, LogsCovered, TypeOK
  <2> QED
    BY <1>1, <1>2, <2>1, <2>2, <2>3 DEF TypeOK
<1>8. RowsFollowLog'
  BY <1>1, <1>2, <1>3 DEF LogInv, RowsFollowLog, TypeOK
<1> QED
  BY <1>5, <1>6, <1>7, <1>8 DEF LogInv

\* The other steps of a pull.
LEMMA LogInvFetch ==
    ASSUME StampInv, LogInv, NEW d \in Devices, GetObject(d) \/ ObserveHead(d)
    PROVE  LogInv'
<1>1. TypeOK
  BY DEF StampInv
<1>2. UNCHANGED <<rows, oplog, authored, remote, disk, batch>>
  BY DEF GetObject, ObserveHead, db, world
<1>3. /\ LogsAuthored' /\ BatchesLogged' /\ ObjectsLogged' /\ ObjectsBounded' /\ NamesUnique'
      /\ LogsCovered' /\ RowsFollowLog'
  BY <1>2 DEF LogInv, LogsAuthored, BatchesLogged, ObjectsLogged, ObjectsBounded, NamesUnique,
     LogsCovered, RowsFollowLog
<1>4. CASE GetObject(d)
  <2>1. PICK o \in remote :
          /\ got' = [got EXCEPT ![d] = @ \cup {o}]
          /\ heads' = [heads EXCEPT ![d] = IF o.device = d THEN @ ELSE @ \cup {o.name.stamp}]
    BY <1>4 DEF GetObject
  <2>2. FetchedStored'
    BY <1>1, <1>2, <2>1 DEF LogInv, FetchedStored, TypeOK
  <2>3. FetchedCovered'
    BY <1>1, <1>4, <2>1 DEF LogInv, FetchedCovered, TypeOK, GetObject
  <2> QED
    BY <1>3, <2>2, <2>3 DEF LogInv
<1>5. CASE ObserveHead(d)
  <2>1. PICK head \in heads[d] :
          /\ ~ObserveThrows(mem[d], wall[d], head)
          /\ mem' = [mem EXCEPT ![d] = Observe(mem[d], wall[d], head)]
          /\ heads' = [heads EXCEPT ![d] = @ \ {head}]
          /\ UNCHANGED got
    BY <1>5 DEF ObserveHead, Oldest
  <2> DEFINE clock == Observe(mem[d], wall[d], head)
  <2>2. head \in Stamp /\ mem[d] \in HlcState /\ wall[d] \in Nat
    BY <1>1 DEF TypeOK
  <2>3. /\ clock \in HlcState /\ NotAhead(mem[d], clock) /\ NotAhead(decodeHlc(head), clock)
    BY <2>1, <2>2, ObserveCovers
  <2> HIDE DEF clock
  <2>4. FetchedStored'
    BY <1>2, <2>1 DEF LogInv, FetchedStored
  <2>5. FetchedCovered'
    <3> SUFFICES ASSUME NEW c \in Devices, NEW g \in got[c], g.device # c,
                        g.name.stamp \notin heads'[c]
                 PROVE  NotAhead(decodeHlc(g.name.stamp), mem'[c])
      BY <2>1 DEF FetchedCovered
    <3>1. g.name.stamp \in Stamp
      BY <1>1, ObjectFields DEF TypeOK
    <3>2. CASE c = d
      <4>1. mem'[c] = clock /\ heads'[c] = heads[d] \ {head}
        BY <1>1, <2>1, <3>2 DEF TypeOK, clock
      <4>2. CASE g.name.stamp = head
        BY <2>3, <4>1, <4>2
      <4>3. CASE g.name.stamp # head
        <5>1. NotAhead(decodeHlc(g.name.stamp), mem[d])
          BY <3>2, <4>1, <4>3 DEF LogInv, FetchedCovered
        <5> QED
          BY <2>2, <2>3, <3>1, <4>1, <5>1, CoversMore
      <4> QED
        BY <4>2, <4>3
    <3>3. CASE c # d
      BY <1>1, <2>1, <3>3 DEF LogInv, FetchedCovered, TypeOK
    <3> QED
      BY <3>2, <3>3
  <2> QED
    BY <1>3, <2>4, <2>5 DEF LogInv
<1> QED
  BY <1>4, <1>5

\* An aborted write only moves a clock in memory forward.
LEMMA LogInvAborted ==
    ASSUME StampInv, LogInv, NEW d \in Devices, AbortedWrite(d)
    PROVE  LogInv'
<1>1. TypeOK
  BY DEF StampInv
<1>2. /\ UNCHANGED <<rows, oplog, authored, remote, disk, batch, got, heads>>
      /\ mem' = [mem EXCEPT ![d] = Tick(mem[d], wall[d])]
  BY DEF AbortedWrite, db, cycle
<1>3. /\ mem[d] \in HlcState /\ Tick(mem[d], wall[d]) \in HlcState
      /\ NotAhead(mem[d], Tick(mem[d], wall[d]))
  BY <1>1, TickAdvances DEF AbortedWrite, TypeOK
<1>4. FetchedCovered'
  <2> SUFFICES ASSUME NEW c \in Devices, NEW g \in got[c], g.device # c,
                      g.name.stamp \notin heads[c]
               PROVE  NotAhead(decodeHlc(g.name.stamp), mem'[c])
    BY <1>2 DEF FetchedCovered
  <2>1. NotAhead(decodeHlc(g.name.stamp), mem[c]) /\ g.name.stamp \in Stamp
    BY <1>1, ObjectFields DEF LogInv, FetchedCovered, TypeOK
  <2>2. CASE c = d
    <3>1. mem'[c] = Tick(mem[d], wall[d])
      BY <1>1, <1>2, <2>2 DEF TypeOK
    <3> QED
      BY <1>3, <2>1, <2>2, <3>1, CoversMore
  <2>3. CASE c # d
    BY <1>1, <1>2, <2>1, <2>3 DEF TypeOK
  <2> QED
    BY <2>2, <2>3
<1> QED
  BY <1>2, <1>4 DEF LogInv, LogsAuthored, BatchesLogged, ObjectsLogged, ObjectsBounded,
     NamesUnique, FetchedStored, LogsCovered, RowsFollowLog

\* Every step preserves the invariant of the logs.
LEMMA LogInvStep ==
    ASSUME NoSnapshots, Counted, StampInv, LogInv, PendInv, [Next]_vars
    PROVE  LogInv'
<1>1. TypeOK
  BY DEF StampInv
<1>2. CASE UNCHANGED vars
  BY <1>2 DEF vars, db, cycle, world, LogInv, LogsAuthored, BatchesLogged, ObjectsLogged,
     ObjectsBounded, NamesUnique, FetchedStored, FetchedCovered, LogsCovered, RowsFollowLog
<1>3. ASSUME NEW d \in Devices, CycleStep(d) PROVE LogInv'
  <2>1. pc[d] \notin SnapshotSteps
    BY DEF NoSnapshots
  <2>2. CASE Begin(d) \/ ListSnapshots(d) \/ ListOps(d) \/ RecordOwn(d) \/ Threshold(d)
    <3>1. UNCHANGED <<rows, oplog, authored, remote, disk, mem, got, heads, batch>>
      BY <2>2 DEF Begin, ListSnapshots, ListOps, RecordOwn, Threshold, db, world
    <3> QED
      BY <3>1, LogInvQuiet DEF LogInv, BatchesLogged
  <2>3. CASE RecordApplied(d)
    <3>1. UNCHANGED <<rows, oplog, authored, remote, disk, mem, heads, batch>>
          /\ \A c \in Devices : got'[c] = {} \/ UNCHANGED got[c]
      BY <1>1, <2>3 DEF RecordApplied, world, TypeOK
    <3> QED
      BY <3>1, LogInvQuiet DEF LogInv, BatchesLogged
  <2>4. CASE CapturePending(d)
    <3>1. UNCHANGED <<rows, oplog, authored, remote, disk, mem, heads, got>>
      BY <2>4 DEF CapturePending, db, world
    <3>2. batch'[d] \subseteq oplog[d]
      BY <1>1, <2>4 DEF CapturePending, TypeOK, OldestOps
    <3>3. \A c \in Devices : batch'[c] \subseteq oplog[c]
      BY <1>1, <2>4, <3>2 DEF CapturePending, TypeOK, LogInv, BatchesLogged
    <3> QED
      BY <3>1, <3>3, LogInvQuiet
  <2>5. CASE MarkSynced(d)
    <3>1. UNCHANGED <<rows, oplog, authored, remote, disk, mem, heads, got>>
      BY <2>5 DEF MarkSynced, world
    <3>2. \A c \in Devices : batch'[c] \subseteq oplog[c]
      BY <1>1, <2>5 DEF MarkSynced, TypeOK, LogInv, BatchesLogged
    <3> QED
      BY <3>1, <3>2, LogInvQuiet
  <2>6. CASE GetObject(d) \/ ObserveHead(d)
    BY <2>6, LogInvFetch
  <2>7. CASE Merge(d)
    BY <2>7, LogInvMerge
  <2>8. CASE Upload(d)
    <3>1. PICK b \in OpsObjects(d) : ~PutRefused(b.name) /\ PutObject(b)
      BY <2>8 DEF Upload
    <3>2. UNCHANGED <<rows, oplog, authored, disk, mem, got, heads, batch>>
      BY <2>8 DEF Upload, db
    <3> QED
      BY <1>1, <3>1, <3>2, LogInvUpload DEF LogInv, BatchesLogged
  <2>9. CASE PutSnapshot(d)
    BY <2>9, UploadKinds DEF PutSnapshot
  <2>10. CASE Finish(d) \/ ObserveError(d) \/ ObjectGone(d) \/ PutError(d)
    BY <1>1, <2>10, LogInvEnd DEF Finish, ObserveError, ObjectGone, PutError, db, world
  <2>11. CASE ApplySnapshot(d) \/ RecordSnapshot(d) \/ NoteSnapshot(d) \/ RecordOwnSnapshot(d)
              \/ NoteOwnSnapshot(d) \/ ListSuperseded(d) \/ RemoveSuperseded(d)
    BY <2>1, <2>11 DEF ApplySnapshot, RecordSnapshot, NoteSnapshot, RecordOwnSnapshot,
       NoteOwnSnapshot, ListSuperseded, RemoveSuperseded, SnapshotSteps
  <2> QED
    BY <1>3, <2>2, <2>3, <2>4, <2>5, <2>6, <2>7, <2>8, <2>9, <2>10, <2>11 DEF CycleStep
<1>4. ASSUME NEW d \in Devices, UserStep(d) PROVE LogInv'
  BY <1>4, LogInvWrite DEF UserStep, Put, Remove
<1>5. ASSUME NEW d \in Devices, FaultStep(d) PROVE LogInv'
  <2>1. CASE AbortedWrite(d)
    BY <2>1, LogInvAborted
  <2>2. CASE RequestFails(d)
    BY <1>1, <2>2, LogInvEnd DEF RequestFails, db
  <2>3. CASE Crash(d)
    BY <1>1, <2>3, LogInvEnd DEF Crash, db, TypeOK
  <2>4. CASE PutReplyLost(d)
    <3>1. PICK b \in OpsObjects(d) : ~PutRefused(b.name) /\ PutObject(b)
      BY <2>4, UploadKinds DEF PutReplyLost
    <3>2. /\ UNCHANGED <<rows, oplog, authored, disk, mem>>
          /\ EndCycle(d, "retry")
      BY <2>4 DEF PutReplyLost, db
    <3>3. \A c \in Devices :
            /\ batch'[c] \subseteq oplog[c]
            /\ got'[c] = {} \/ UNCHANGED <<got[c], heads[c]>>
      BY <1>1, <3>2 DEF EndCycle, ForgetLocals, TypeOK, LogInv, BatchesLogged
    <3> QED
      BY <1>1, <3>1, <3>2, <3>3, LogInvUpload
  <2>5. CASE PruneFails(d)
    BY <2>5 DEF PruneFails, NoSnapshots, SnapshotSteps
  <2>6. CASE SetBack(d)
    BY <2>6, LogInvQuiet DEF SetBack, db, cycle, LogInv, BatchesLogged
  <2> QED
    BY <1>5, <2>1, <2>2, <2>3, <2>4, <2>5, <2>6 DEF FaultStep
<1>6. ASSUME NEW d \in Devices, Advance(d) PROVE LogInv'
  BY <1>6, LogInvQuiet DEF Advance, db, cycle, LogInv, BatchesLogged
<1> QED
  BY <1>2, <1>3, <1>4, <1>5, <1>6 DEF Next

----------------------------------------------------------------------------
\* Steps, and what is pending.

\* Steps that write and mark nothing: captured operations are kept or forgotten, and the
\* only objects added are those devices upload.
LEMMA PendInvKept ==
    ASSUME Counted, StampInv, LogInv, PendInv, UNCHANGED <<oplog, unsynced>>,
           \A x \in remote' : x \in remote \/ \E c \in Devices : x \in OpsObjects(c),
           \A c \in Devices : /\ batch'[c] = {} \/ UNCHANGED batch[c]
                              /\ pc'[c] \in Pushing => pc[c] \in Pushing /\ UNCHANGED batch[c]
    PROVE  PendInv'
<1>1. /\ \A c \in Devices : Pending(c)' = Pending(c)
      /\ \A c \in Devices : \A s : Older(c, s)' = Older(c, s)
  BY DEF Pending, Older
<1>2. PendingOwn'
  BY DEF PendInv, PendingOwn
<1>3. BatchPrefix'
  BY <1>1 DEF PendInv, BatchPrefix
<1>4. ObjectsHeaded'
  BY UploadIsPrefix DEF PendInv, ObjectsHeaded
<1>5. ResentSame'
  <2> SUFFICES ASSUME NEW x \in remote', x.name.stamp \in unsynced[x.device]
               PROVE  /\ x.ops = {o \in Pending(x.device)' : AtMost(o.hlc, x.name.stamp)}
                      /\ Cardinality(Older(x.device, x.name.stamp)') < BatchSize
                      /\ Cardinality(Older(x.device, x.name.stamp)') < PendingLimit
    BY DEF ResentSame
  <2>1. Pending(x.device)' = Pending(x.device) /\ Older(x.device, x.name.stamp)' = Older(x.device, x.name.stamp)
    BY DEF Pending, Older
  <2>2. CASE x \in remote
    BY <2>1, <2>2 DEF PendInv, ResentSame
  <2>3. CASE \E c \in Devices : x \in OpsObjects(c)
    BY <2>1, <2>3, UploadIsPrefix
  <2> QED
    BY <2>2, <2>3
<1>6. SliceCovers'
  <2> SUFFICES ASSUME NEW d \in Devices, pc'[d] \in Pushing, NEW x \in remote', x.device = d,
                      x.name.stamp \in unsynced[d]
               PROVE  \E o \in Slice(d)' : o.hlc = x.name.stamp
    BY DEF SliceCovers
  <2>1. pc[d] \in Pushing /\ Slice(d)' = Slice(d)
    BY DEF Slice
  <2>2. CASE x \in remote
    BY <2>1, <2>2 DEF PendInv, SliceCovers
  <2>3. CASE \E c \in Devices : x \in OpsObjects(c)
    BY <2>1, <2>3, UploadIsPrefix
  <2> QED
    BY <2>2, <2>3
<1> QED
  BY <1>2, <1>3, <1>4, <1>5, <1>6 DEF PendInv

LEMMA PendInvEnd ==
    ASSUME Counted, StampInv, LogInv, PendInv, NEW d \in Devices, NEW outcome, EndCycle(d, outcome),
           UNCHANGED <<oplog, unsynced>>,
           \A x \in remote' : x \in remote \/ \E c \in Devices : x \in OpsObjects(c)
    PROVE  PendInv'
<1>1. \A c \in Devices : /\ batch'[c] = {} \/ UNCHANGED batch[c]
                         /\ pc'[c] \in Pushing => pc[c] \in Pushing /\ UNCHANGED batch[c]
  BY DEF EndCycle, ForgetLocals, Goto, StampInv, TypeOK, Pushing
<1> QED
  BY <1>1, PendInvKept

\* A log that grows, in nothing that is older than what was pending.
LEMMA PendInvLogged ==
    ASSUME PendInv, UNCHANGED <<remote, batch, pc>>,
           \A c \in Devices :
             /\ oplog[c] \subseteq oplog'[c]
             /\ \A s \in unsynced[c] :
                    /\ s \in unsynced'[c]
                    /\ Older(c, s)' = Older(c, s)
                    /\ {o \in Pending(c)' : AtMost(o.hlc, s)} = {o \in Pending(c) : AtMost(o.hlc, s)}
             /\ \A s \in unsynced'[c] \ unsynced[c] :
                    /\ s.device = c /\ \E o \in oplog'[c] : o.hlc = s
                    /\ \A b \in remote : b.device = c => b.name.stamp # s,
           \A b \in remote : b.device \in Devices
    PROVE  PendInv'
<1>1. PendingOwn'
  BY DEF PendInv, PendingOwn
<1>2. BatchPrefix'
  <2> SUFFICES ASSUME NEW c \in Devices, NEW o \in batch[c]
               PROVE  /\ o \in Pending(c)'
                      /\ Older(c, o.hlc)' \subseteq batch[c]
                      /\ Cardinality(Older(c, o.hlc)') < PendingLimit
    BY DEF BatchPrefix
  <2>1. /\ o \in Pending(c) /\ Older(c, o.hlc) \subseteq batch[c]
        /\ Cardinality(Older(c, o.hlc)) < PendingLimit
    BY DEF PendInv, BatchPrefix
  <2>2. o.hlc \in unsynced[c] /\ o \in oplog[c]
    BY <2>1 DEF Pending
  <2>3. Older(c, o.hlc)' = Older(c, o.hlc) /\ o.hlc \in unsynced'[c] /\ o \in oplog'[c]
    BY <2>2
  <2> QED
    BY <2>1, <2>3 DEF Pending
<1>3. ObjectsHeaded'
  BY DEF PendInv, ObjectsHeaded
<1>4. ResentSame'
  <2> SUFFICES ASSUME NEW x \in remote, x.name.stamp \in unsynced'[x.device]
               PROVE  /\ x.ops = {o \in Pending(x.device)' : AtMost(o.hlc, x.name.stamp)}
                      /\ Cardinality(Older(x.device, x.name.stamp)') < BatchSize
                      /\ Cardinality(Older(x.device, x.name.stamp)') < PendingLimit
    BY DEF ResentSame
  <2>1. PICK c \in Devices : c = x.device
    OBVIOUS
  <2>2. PICK s : s = x.name.stamp
    OBVIOUS
  <2>3. s \in unsynced[c]
    BY <2>1, <2>2
  <2>4. /\ x.ops = {o \in Pending(c) : AtMost(o.hlc, s)}
        /\ Cardinality(Older(c, s)) < BatchSize /\ Cardinality(Older(c, s)) < PendingLimit
    BY <2>1, <2>2, <2>3 DEF PendInv, ResentSame
  <2>5. /\ Older(c, s)' = Older(c, s)
        /\ {o \in Pending(c)' : AtMost(o.hlc, s)} = {o \in Pending(c) : AtMost(o.hlc, s)}
    BY <2>3
  <2>6. /\ x.ops = {o \in Pending(c)' : AtMost(o.hlc, s)}
        /\ Cardinality(Older(c, s)') < BatchSize /\ Cardinality(Older(c, s)') < PendingLimit
    BY <2>4, <2>5
  <2> QED
    BY <2>1, <2>2, <2>6
<1>5. SliceCovers'
  BY DEF PendInv, SliceCovers, Slice
<1> QED
  BY <1>1, <1>2, <1>3, <1>4, <1>5 DEF PendInv

\* A write is newer than all that was pending, and than every name its device has used.
LEMMA PendInvWrite ==
    ASSUME Counted, StampInv, LogInv, PendInv, NEW d \in Devices, NEW e \in Entities,
           NEW kind \in {"put", "delete"}, Write(d, e, kind)
    PROVE  PendInv'
<1> DEFINE o == Written(d, e, kind)
<1>1. /\ oplog' = [oplog EXCEPT ![d] = oplog[d] \cup {o}]
      /\ unsynced' = [unsynced EXCEPT ![d] = unsynced[d] \cup {o.hlc}]
      /\ UNCHANGED <<remote, pc, batch>>
  BY WriteAdds DEF Write, Written, cycle
<1>2. TypeOK
  BY DEF StampInv
<1>3. o \in Op /\ o.hlc \in Stamp /\ o.hlc.device = d /\ \A p \in oplog[d] : Before(p.hlc, o.hlc)
  <2>1. o \in Op
    BY <1>2, WrittenType
  <2>2. o.hlc.device = d
    BY DEF Written, encodeHlc
  <2> QED
    BY <2>1, <2>2, OpFields, WriteIsNewer
<1> HIDE DEF o
<1>4. /\ oplog'[d] = oplog[d] \cup {o} /\ unsynced'[d] = unsynced[d] \cup {o.hlc}
      /\ \A c \in Devices : c # d => oplog'[c] = oplog[c] /\ unsynced'[c] = unsynced[c]
  BY <1>1, <1>2 DEF TypeOK
<1>5. \A b \in remote : b.device \in Devices
  BY <1>2, ObjectFields DEF TypeOK
<1>6. ASSUME NEW c \in Devices
      PROVE  /\ oplog[c] \subseteq oplog'[c]
             /\ \A s \in unsynced[c] :
                    /\ s \in unsynced'[c]
                    /\ Older(c, s)' = Older(c, s)
                    /\ {p \in Pending(c)' : AtMost(p.hlc, s)} = {p \in Pending(c) : AtMost(p.hlc, s)}
             /\ \A s \in unsynced'[c] \ unsynced[c] :
                    /\ s.device = c /\ \E p \in oplog'[c] : p.hlc = s
                    /\ \A b \in remote : b.device = c => b.name.stamp # s
  <2>1. CASE c # d
    <3>1. oplog'[c] = oplog[c] /\ unsynced'[c] = unsynced[c]
      BY <1>4, <2>1
    <3> QED
      BY <3>1 DEF Pending, Older
  <2>2. CASE c = d
    <3>1. ASSUME NEW s \in unsynced[d] PROVE Before(s, o.hlc) /\ s \in Stamp
      BY <1>3, LogFacts DEF PendInv, PendingOwn
    <3>2. Pending(d)' = Pending(d) \cup {o}
      <4>1. Pending(d)' = {p \in oplog[d] \cup {o} : p.hlc \in unsynced[d] \cup {o.hlc}}
        BY <1>4 DEF Pending
      <4>2. \A p \in oplog[d] : p.hlc # o.hlc
        BY <1>3, LogFacts, BeforeIrreflexive
      <4> QED
        BY <4>1, <4>2 DEF Pending
    <3>3. ASSUME NEW s \in unsynced[d]
          PROVE  /\ Older(d, s)' = Older(d, s)
                 /\ {p \in Pending(d)' : AtMost(p.hlc, s)} = {p \in Pending(d) : AtMost(p.hlc, s)}
      <4>1. ~Before(o.hlc, s) /\ ~AtMost(o.hlc, s)
        BY <1>3, <3>1, BeforeAsymmetric DEF AtMost
      <4>2. Older(d, s)' = {p \in Pending(d)' : Before(p.hlc, s)}
        BY DEF Older
      <4> QED
        BY <3>2, <4>1, <4>2 DEF Older
    <3>4. ASSUME NEW b \in remote, b.device = d PROVE b.name.stamp # o.hlc
      <4>1. PICK p \in b.ops : p.hlc = b.name.stamp
        BY DEF PendInv, ObjectsHeaded
      <4>2. p \in oplog[d]
        BY <3>4 DEF LogInv, ObjectsLogged
      <4> QED
        BY <1>3, <4>1, <4>2, BeforeIrreflexive
    <3>5. oplog[d] \subseteq oplog'[d] /\ \A s \in unsynced[d] : s \in unsynced'[d]
      BY <1>4
    <3>6. \A s \in unsynced'[d] \ unsynced[d] :
                    /\ s.device = d /\ \E p \in oplog'[d] : p.hlc = s
                    /\ \A b \in remote : b.device = d => b.name.stamp # s
      BY <1>3, <1>4, <3>4
    <3> QED
      BY <2>2, <3>3, <3>5, <3>6
  <2> QED
    BY <2>1, <2>2
<1> QED
  BY <1>1, <1>5, <1>6, PendInvLogged

\* A merge brings nothing that is pending.
LEMMA PendInvMerge ==
    ASSUME Counted, StampInv, LogInv, PendInv, NEW d \in Devices, Merge(d)
    PROVE  PendInv'
<1> DEFINE A == Accepted(oplog[d], Incoming(d))
<1>1. /\ oplog' = [oplog EXCEPT ![d] = oplog[d] \cup A]
      /\ UNCHANGED <<unsynced, remote, batch>>
      /\ pc' = [pc EXCEPT ![d] = "record"]
      /\ \A o, p \in oplog[d] \cup A : o.hlc = p.hlc => o = p
  BY MergeStep DEF Merge, Goto, world, Accepted
<1>2. TypeOK
  BY DEF StampInv
<1> HIDE DEF A
<1>3. /\ oplog'[d] = oplog[d] \cup A
      /\ \A c \in Devices : c # d => oplog'[c] = oplog[c]
  BY <1>1, <1>2 DEF TypeOK
<1>4. ASSUME NEW c \in Devices PROVE Pending(c)' = Pending(c)
  <2>1. CASE c # d
    BY <1>1, <1>3, <2>1 DEF Pending
  <2>2. CASE c = d
    <3>1. Pending(d)' = {o \in oplog[d] \cup A : o.hlc \in unsynced[d]}
      BY <1>1, <1>3 DEF Pending
    <3>2. \A o \in A : o.hlc \in unsynced[d] => o \in oplog[d]
      BY <1>1 DEF PendInv, PendingOwn
    <3> QED
      BY <2>2, <3>1, <3>2 DEF Pending
  <2> QED
    BY <2>1, <2>2
<1>5. \A c \in Devices : \A s : Older(c, s)' = Older(c, s)
  BY <1>4 DEF Older
<1>6. PendingOwn'
  BY <1>1, <1>3 DEF PendInv, PendingOwn
<1>7. BatchPrefix'
  BY <1>1, <1>4, <1>5 DEF PendInv, BatchPrefix
<1>8. ObjectsHeaded'
  BY <1>1 DEF PendInv, ObjectsHeaded
<1>9. ResentSame'
  <2>1. \A b \in remote : b.device \in Devices
    BY <1>2, ObjectFields DEF TypeOK
  <2> SUFFICES ASSUME NEW x \in remote, x.name.stamp \in unsynced[x.device]
               PROVE  /\ x.ops = {o \in Pending(x.device)' : AtMost(o.hlc, x.name.stamp)}
                      /\ Cardinality(Older(x.device, x.name.stamp)') < BatchSize
                      /\ Cardinality(Older(x.device, x.name.stamp)') < PendingLimit
    BY <1>1 DEF ResentSame
  <2>2. PICK c \in Devices : c = x.device
    BY <2>1
  <2>3. Pending(c)' = Pending(c) /\ Older(c, x.name.stamp)' = Older(c, x.name.stamp)
    BY <1>4, <1>5
  <2> QED
    BY <2>2, <2>3 DEF PendInv, ResentSame
<1>10. SliceCovers'
  <2>1. \A c \in Devices : pc'[c] \in Pushing => pc[c] \in Pushing
    BY <1>1, <1>2 DEF TypeOK, Pushing
  <2> QED
    BY <1>1, <2>1 DEF PendInv, SliceCovers, Slice
<1> QED
  BY <1>6, <1>7, <1>8, <1>9, <1>10 DEF PendInv

\* What is captured is a prefix of what is pending, and an object of an earlier push that
\* was never marked is within its first slice.
LEMMA PendInvCapture ==
    ASSUME Counted, StampInv, LogInv, PendInv, NEW d \in Devices, CapturePending(d)
    PROVE  PendInv'
<1> DEFINE B == OldestOps(Pending(d), PendingLimit)
<1>1. /\ batch' = [batch EXCEPT ![d] = B]
      /\ pc[d] = "pending"
      /\ pc' = [pc EXCEPT ![d] = IF Pending(d) = {} THEN "threshold" ELSE "upload"]
      /\ UNCHANGED <<oplog, unsynced, remote>>
  BY DEF CapturePending, Goto, Pending, db, world
<1>2. TypeOK
  BY DEF StampInv
<1> HIDE DEF B
<1>3. batch'[d] = B /\ \A c \in Devices : c # d => batch'[c] = batch[c] /\ pc'[c] = pc[c]
  BY <1>1, <1>2 DEF TypeOK
<1>4. /\ \A c \in Devices : Pending(c)' = Pending(c)
      /\ \A c \in Devices : \A s : Older(c, s)' = Older(c, s)
  BY <1>1 DEF Pending, Older
<1>5. Pending(d) \in SUBSET oplog[d] /\ PendingLimit \in Nat /\ BatchSize \in Nat
  BY SyncAssumption DEF Pending
<1>6. PendingOwn' /\ ObjectsHeaded'
  BY <1>1 DEF PendInv, PendingOwn, ObjectsHeaded
<1>7. BatchPrefix'
  <2>1. ASSUME NEW o \in B
        PROVE  /\ o \in Pending(d)
               /\ Older(d, o.hlc) \subseteq B
               /\ Cardinality(Older(d, o.hlc)) < PendingLimit
    <3>1. o \in Pending(d) /\ Cardinality(Older(d, o.hlc)) < PendingLimit
      BY DEF B, OldestOps, Older
    <3>2. ASSUME NEW p \in Older(d, o.hlc) PROVE p \in B
      <4>1. p \in Pending(d) /\ Before(p.hlc, o.hlc)
        BY DEF Older
      <4> QED
        BY <1>5, <4>1, OldestPrefix DEF B
    <3> QED
      BY <3>1, <3>2
  <2>2. ASSUME NEW c \in Devices, NEW o \in batch'[c]
        PROVE  /\ o \in Pending(c)'
               /\ Older(c, o.hlc)' \subseteq batch'[c]
               /\ Cardinality(Older(c, o.hlc)') < PendingLimit
    <3>1. Pending(c)' = Pending(c) /\ Older(c, o.hlc)' = Older(c, o.hlc)
      BY <1>4
    <3>2. CASE c = d
      BY <1>3, <2>1, <2>2, <3>1, <3>2
    <3>3. CASE c # d
      BY <1>3, <2>2, <3>1, <3>3 DEF PendInv, BatchPrefix
    <3> QED
      BY <3>2, <3>3
  <2> QED
    BY <2>2 DEF BatchPrefix
<1>8. ResentSame'
  BY <1>1 DEF PendInv, ResentSame, Pending, Older
<1>9. SliceCovers'
  <2>1. ASSUME NEW x \in remote, x.device = d, x.name.stamp \in unsynced[d]
        PROVE  \E o \in OldestOps(B, BatchSize) : o.hlc = x.name.stamp
    <3>1. PICK o \in oplog[d] : o.hlc = x.name.stamp
      BY <2>1 DEF PendInv, PendingOwn
    <3>2. /\ o \in Pending(d)
          /\ Cardinality(Older(d, o.hlc)) < BatchSize /\ Cardinality(Older(d, o.hlc)) < PendingLimit
      BY <2>1, <3>1 DEF PendInv, ResentSame, Pending
    <3>3. o \in B
      BY <3>2 DEF B, OldestOps, Older
    <3> DEFINE O == {p \in B : Before(p.hlc, o.hlc)}
    <3>4. O \in SUBSET Older(d, o.hlc) /\ Older(d, o.hlc) \in SUBSET oplog[d]
      BY <1>5 DEF B, OldestOps, Older
    <3> HIDE DEF O
    <3>5. /\ Cardinality(O) <= Cardinality(Older(d, o.hlc))
          /\ Cardinality(O) \in Nat /\ Cardinality(Older(d, o.hlc)) \in Nat
      BY <3>4, LogFacts
    <3>6. Cardinality(O) < BatchSize
      BY <1>5, <3>2, <3>5
    <3>7. o \in OldestOps(B, BatchSize)
      BY <3>3, <3>6 DEF OldestOps, O
    <3> QED
      BY <3>1, <3>7
  <2>2. Slice(d)' = OldestOps(B, BatchSize)
    BY <1>3 DEF Slice
  <2>3. \A c \in Devices : c # d => Slice(c)' = Slice(c) /\ pc'[c] = pc[c]
    BY <1>3 DEF Slice
  <2> SUFFICES ASSUME NEW c \in Devices, pc'[c] \in Pushing, NEW x \in remote, x.device = c,
                      x.name.stamp \in unsynced[c]
               PROVE  \E o \in Slice(c)' : o.hlc = x.name.stamp
    BY <1>1 DEF SliceCovers
  <2>4. CASE c = d
    BY <2>1, <2>2, <2>4
  <2>5. CASE c # d
    BY <2>3, <2>5 DEF PendInv, SliceCovers
  <2> QED
    BY <2>4, <2>5
<1> QED
  BY <1>6, <1>7, <1>8, <1>9 DEF PendInv

\* Marking a slice leaves no stored object of the device that still counts as unsent.
LEMMA PendInvMark ==
    ASSUME Counted, StampInv, LogInv, PendInv, NEW d \in Devices, MarkSynced(d)
    PROVE  PendInv'
<1>1. /\ unsynced' = [unsynced EXCEPT ![d] = @ \ Uploaded(d)]
      /\ batch' = [batch EXCEPT ![d] = @ \ Slice(d)]
      /\ pc[d] = "markSynced"
      /\ pc' = [pc EXCEPT ![d] = IF batch[d] = Slice(d) THEN "threshold" ELSE "upload"]
      /\ UNCHANGED <<oplog, remote>>
  BY DEF MarkSynced, Goto, world
<1>2. TypeOK
  BY DEF StampInv
<1> DEFINE U == Uploaded(d)
           S == Slice(d)
<1>3. /\ \A s : s \in U <=> \E o \in S : s = o.hlc
      /\ S \in SUBSET batch[d] /\ batch[d] \in SUBSET oplog[d]
  BY DEF Uploaded, Slice, OldestOps, LogInv, BatchesLogged
<1> HIDE DEF U, S
<1>4. /\ unsynced'[d] = unsynced[d] \ U /\ batch'[d] = batch[d] \ S
      /\ \A c \in Devices : c # d => unsynced'[c] = unsynced[c] /\ batch'[c] = batch[c] /\ pc'[c] = pc[c]
  BY <1>1, <1>2 DEF TypeOK, U, S
<1>5. Pending(d)' = Pending(d) \ S
  <2>1. Pending(d)' = {o \in oplog[d] : o.hlc \in unsynced[d] \ U}
    BY <1>1, <1>4 DEF Pending
  <2>2. \A o \in oplog[d] : o.hlc \in U <=> o \in S
    BY <1>3, LogFacts
  <2> QED
    BY <2>1, <2>2 DEF Pending
<1>6. \A c \in Devices : c # d => Pending(c)' = Pending(c)
  BY <1>1, <1>4 DEF Pending
<1>7. \A s : Older(d, s)' = Older(d, s) \ S
  BY <1>5 DEF Older
<1>8. \A c \in Devices : c # d => \A s : Older(c, s)' = Older(c, s)
  BY <1>6 DEF Older
<1>9. PendingOwn' /\ ObjectsHeaded'
  <2>1. \A c \in Devices : unsynced'[c] \subseteq unsynced[c]
    BY <1>4
  <2> QED
    BY <1>1, <2>1 DEF PendInv, PendingOwn, ObjectsHeaded
<1>10. BatchPrefix'
  <2> SUFFICES ASSUME NEW c \in Devices, NEW o \in batch'[c]
               PROVE  /\ o \in Pending(c)'
                      /\ Older(c, o.hlc)' \subseteq batch'[c]
                      /\ Cardinality(Older(c, o.hlc)') < PendingLimit
    BY DEF BatchPrefix
  <2>1. CASE c # d
    BY <1>4, <1>6, <1>8, <2>1 DEF PendInv, BatchPrefix
  <2>2. CASE c = d
    <3>1. o \in batch[d] /\ o \notin S
      BY <1>4, <2>2
    <3>2. /\ o \in Pending(d) /\ Older(d, o.hlc) \subseteq batch[d]
          /\ Cardinality(Older(d, o.hlc)) < PendingLimit
      BY <3>1 DEF PendInv, BatchPrefix
    <3>3. Older(d, o.hlc) \ S \in SUBSET Older(d, o.hlc) /\ Older(d, o.hlc) \in SUBSET oplog[d]
      BY DEF Older, Pending
    <3>4. /\ Cardinality(Older(d, o.hlc) \ S) <= Cardinality(Older(d, o.hlc))
          /\ Cardinality(Older(d, o.hlc) \ S) \in Nat /\ Cardinality(Older(d, o.hlc)) \in Nat
      BY <3>3, LogFacts
    <3>5. Cardinality(Older(d, o.hlc) \ S) < PendingLimit
      BY <3>2, <3>4, SyncAssumption
    <3> QED
      BY <1>4, <1>5, <1>7, <2>2, <3>1, <3>2, <3>5
  <2> QED
    BY <2>1, <2>2
<1>11. ASSUME NEW x \in remote, x.device = d PROVE x.name.stamp \notin unsynced'[d]
  <2> SUFFICES ASSUME x.name.stamp \in unsynced[d] PROVE x.name.stamp \in U
    BY <1>4
  <2>1. \E o \in S : o.hlc = x.name.stamp
    BY <1>1, <1>11 DEF PendInv, SliceCovers, Pushing, S
  <2> QED
    BY <1>3, <2>1
<1>12. ResentSame'
  <2>1. \A b \in remote : b.device \in Devices
    BY <1>2, ObjectFields DEF TypeOK
  <2> SUFFICES ASSUME NEW x \in remote, x.name.stamp \in unsynced'[x.device]
               PROVE  /\ x.ops = {o \in Pending(x.device)' : AtMost(o.hlc, x.name.stamp)}
                      /\ Cardinality(Older(x.device, x.name.stamp)') < BatchSize
                      /\ Cardinality(Older(x.device, x.name.stamp)') < PendingLimit
    BY <1>1 DEF ResentSame
  <2>2. PICK c \in Devices : c = x.device
    BY <2>1
  <2>3. c # d
    BY <1>11, <2>2
  <2>4. /\ Pending(c)' = Pending(c) /\ Older(c, x.name.stamp)' = Older(c, x.name.stamp)
        /\ unsynced'[c] = unsynced[c]
    BY <1>4, <1>6, <1>8, <2>3
  <2> QED
    BY <2>2, <2>4 DEF PendInv, ResentSame
<1>13. SliceCovers'
  <2> SUFFICES ASSUME NEW c \in Devices, pc'[c] \in Pushing, NEW x \in remote, x.device = c,
                      x.name.stamp \in unsynced'[c]
               PROVE  \E o \in Slice(c)' : o.hlc = x.name.stamp
    BY <1>1 DEF SliceCovers
  <2>1. c # d
    BY <1>11
  <2>2. pc'[c] = pc[c] /\ unsynced'[c] = unsynced[c] /\ Slice(c)' = Slice(c)
    BY <1>4, <2>1 DEF Slice
  <2> QED
    BY <2>2 DEF PendInv, SliceCovers
<1> QED
  BY <1>9, <1>10, <1>12, <1>13 DEF PendInv

\* Every step preserves what is pending.
LEMMA PendInvStep ==
    ASSUME NoSnapshots, Counted, StampInv, LogInv, PendInv, [Next]_vars
    PROVE  PendInv'
<1>1. TypeOK
  BY DEF StampInv
<1>2. CASE UNCHANGED vars
  BY <1>2, PendInvKept DEF vars, db, cycle, world
<1>3. ASSUME NEW d \in Devices, CycleStep(d) PROVE PendInv'
  <2>1. pc[d] \notin SnapshotSteps
    BY DEF NoSnapshots
  <2>2. CASE Begin(d) \/ ListSnapshots(d) \/ ListOps(d) \/ GetObject(d) \/ ObserveHead(d)
             \/ RecordApplied(d) \/ RecordOwn(d) \/ Threshold(d)
    <3>1. UNCHANGED <<oplog, unsynced, remote, batch>>
      BY <2>2 DEF Begin, ListSnapshots, ListOps, GetObject, ObserveHead, RecordApplied, RecordOwn,
         Threshold, db, world
    <3>2. \A c \in Devices : pc'[c] \in Pushing => pc[c] \in Pushing
      BY <1>1, <2>2 DEF Begin, ListSnapshots, ListOps, GetObject, ObserveHead, RecordApplied,
         RecordOwn, Threshold, Goto, TypeOK, Pushing
    <3> QED
      BY <3>1, <3>2, PendInvKept
  <2>3. CASE Merge(d)
    BY <2>3, PendInvMerge
  <2>4. CASE CapturePending(d)
    BY <2>4, PendInvCapture
  <2>5. CASE Upload(d)
    <3>1. PICK b \in OpsObjects(d) : PutObject(b)
      BY <2>5 DEF Upload
    <3>2. remote' = remote \cup {b}
      BY <3>1, UploadAdds
    <3>3. UNCHANGED <<oplog, unsynced, batch>>
      BY <2>5 DEF Upload, db
    <3>4. \A c \in Devices : pc'[c] \in Pushing => pc[c] \in Pushing
      BY <1>1, <2>5 DEF Upload, Goto, TypeOK, Pushing
    <3> QED
      BY <3>2, <3>3, <3>4, PendInvKept
  <2>6. CASE MarkSynced(d)
    BY <2>6, PendInvMark
  <2>7. CASE PutSnapshot(d)
    BY <2>7, UploadKinds DEF PutSnapshot
  <2>8. CASE Finish(d) \/ ObserveError(d) \/ ObjectGone(d) \/ PutError(d)
    BY <2>8, PendInvEnd DEF Finish, ObserveError, ObjectGone, PutError, db, world
  <2>9. CASE ApplySnapshot(d) \/ RecordSnapshot(d) \/ NoteSnapshot(d) \/ RecordOwnSnapshot(d)
             \/ NoteOwnSnapshot(d) \/ ListSuperseded(d) \/ RemoveSuperseded(d)
    BY <2>1, <2>9 DEF ApplySnapshot, RecordSnapshot, NoteSnapshot, RecordOwnSnapshot,
       NoteOwnSnapshot, ListSuperseded, RemoveSuperseded, SnapshotSteps
  <2> QED
    BY <1>3, <2>2, <2>3, <2>4, <2>5, <2>6, <2>7, <2>8, <2>9 DEF CycleStep
<1>4. ASSUME NEW d \in Devices, UserStep(d) PROVE PendInv'
  BY <1>4, PendInvWrite DEF UserStep, Put, Remove
<1>5. ASSUME NEW d \in Devices, FaultStep(d) PROVE PendInv'
  <2>1. CASE AbortedWrite(d) \/ SetBack(d)
    BY <2>1, PendInvKept DEF AbortedWrite, SetBack, db, cycle
  <2>2. CASE RequestFails(d) \/ Crash(d)
    BY <2>2, PendInvEnd DEF RequestFails, Crash, db
  <2>3. CASE PutReplyLost(d)
    <3>1. PICK b \in OpsObjects(d) : PutObject(b)
      BY <2>3, UploadKinds DEF PutReplyLost
    <3>2. remote' = remote \cup {b}
      BY <3>1, UploadAdds
    <3>3. UNCHANGED <<oplog, unsynced>> /\ EndCycle(d, "retry")
      BY <2>3 DEF PutReplyLost, db
    <3> QED
      BY <3>2, <3>3, PendInvEnd
  <2>4. CASE PruneFails(d)
    BY <2>4 DEF PruneFails, NoSnapshots, SnapshotSteps
  <2> QED
    BY <1>5, <2>1, <2>2, <2>3, <2>4 DEF FaultStep
<1>6. ASSUME NEW d \in Devices, Advance(d) PROVE PendInv'
  BY <1>6, PendInvKept DEF Advance, db, cycle
<1> QED
  BY <1>2, <1>3, <1>4, <1>5, <1>6 DEF Next

----------------------------------------------------------------------------
\* Layer 4: what is recorded as applied, and as sent.

\* A recorded name is that of an object at the destination.
AppliedStored == \A d \in Devices : applied[d] \subseteq Stored

\* Before a pull records what it fetched, the log reflects it.
FetchedMerged ==
    \A d \in Devices : pc[d] = "record" =>
        \A g \in got[d] : \A o \in g.ops : Reflects(oplog[d], o)

\* Before a push records or marks a batch, the batch is at the destination.
UploadStored ==
    \A d \in Devices : pc[d] \in {"recordOwn", "markSynced"} => \E b \in OpsObjects(d) : b \in remote

\* Whatever a device does not count as pending is at the destination: its own
\* writes because they were uploaded, the others' because they came from there.
LogsStored ==
    \A d \in Devices : \A o \in oplog[d] :
        o.hlc \notin unsynced[d] => \E b \in remote : o \in b.ops

SentInv == AppliedStored /\ AppliedIsMerged /\ FetchedMerged /\ UploadStored /\ LogsStored

\* A batch has one name.
LEMMA OneUpload ==
    ASSUME TypeOK, NEW d \in Devices, NEW b \in OpsObjects(d), NEW c \in OpsObjects(d)
    PROVE  b = c
<1>1. Slice(d) \in SUBSET Op
  BY UploadType
<1>2. ASSUME NEW s \in HeadOf(Slice(d)), NEW t \in HeadOf(Slice(d)) PROVE s = t
  <2>1. s \in Stamp /\ t \in Stamp
    BY <1>1, SliceType
  <2>2. AtMost(s, t) /\ AtMost(t, s)
    BY DEF HeadOf, Newest
  <2> QED
    BY <2>1, <2>2, AtMostAntisymmetric
<1> QED
  BY <1>2 DEF OpsObjects

\* Steps that log, record and mark nothing: objects may be added under new names.
LEMMA SentInvQuiet ==
    ASSUME SentInv, UNCHANGED <<oplog, applied, unsynced>>,
           remote \subseteq remote', \A b \in remote' \ remote : b.name \notin Stored,
           \A d \in Devices :
             /\ pc'[d] = "record" => pc[d] = "record" /\ UNCHANGED got[d]
             /\ pc'[d] \in {"recordOwn", "markSynced"} => \E b \in OpsObjects(d)' : b \in remote'
    PROVE  SentInv'
<1>1. AppliedStored'
  BY DEF SentInv, AppliedStored, Stored
<1>2. AppliedIsMerged'
  BY DEF SentInv, AppliedStored, AppliedIsMerged, Stored
<1>3. FetchedMerged'
  BY DEF SentInv, FetchedMerged
<1>4. UploadStored'
  BY DEF UploadStored
<1>5. LogsStored'
  BY DEF SentInv, LogsStored
<1> QED
  BY <1>1, <1>2, <1>3, <1>4, <1>5 DEF SentInv

\* The end of a cycle, after an upload or without one.
LEMMA SentInvEnd ==
    ASSUME SentInv, TypeOK, NEW d \in Devices, NEW outcome, EndCycle(d, outcome),
           UNCHANGED <<oplog, applied, unsynced>>,
           remote \subseteq remote', \A b \in remote' \ remote : b.name \notin Stored
    PROVE  SentInv'
<1>1. pc'[d] = "idle" /\ \A c \in Devices : c # d => UNCHANGED <<pc[c], got[c], batch[c]>>
  BY DEF EndCycle, ForgetLocals, Goto, TypeOK
<1>2. \A c \in Devices : pc'[c] = "record" => pc[c] = "record" /\ UNCHANGED got[c]
  BY <1>1
<1>3. ASSUME NEW c \in Devices, pc'[c] \in {"recordOwn", "markSynced"}
      PROVE  \E b \in OpsObjects(c)' : b \in remote'
  <2>1. c # d /\ UNCHANGED <<pc[c], batch[c]>>
    BY <1>1, <1>3
  <2>2. \E b \in OpsObjects(c) : b \in remote
    BY <1>3, <2>1 DEF SentInv, UploadStored
  <2>3. OpsObjects(c)' = OpsObjects(c)
    BY <2>1 DEF OpsObjects, Slice
  <2> QED
    BY <2>2, <2>3
<1> QED
  BY <1>2, <1>3, SentInvQuiet

\* A step that leaves the captured operations and the destination alone, and
\* enters neither the recording of a pull nor that of a push.
LEMMA SentInvMove ==
    ASSUME SentInv, UNCHANGED <<oplog, applied, unsynced, remote, batch>>,
           \A d \in Devices :
             /\ pc'[d] = "record" => pc[d] = "record" /\ UNCHANGED got[d]
             /\ pc'[d] \in {"recordOwn", "markSynced"} => pc[d] \in {"recordOwn", "markSynced"}
    PROVE  SentInv'
<1>1. ASSUME NEW d \in Devices, pc'[d] \in {"recordOwn", "markSynced"}
      PROVE  \E b \in OpsObjects(d)' : b \in remote'
  <2>1. \E b \in OpsObjects(d) : b \in remote
    BY <1>1 DEF SentInv, UploadStored
  <2>2. OpsObjects(d)' = OpsObjects(d)
    BY DEF OpsObjects, Slice
  <2> QED
    BY <2>1, <2>2
<1> QED
  BY <1>1, SentInvQuiet

\* Logs only grow, so what they reflect stays reflected.
LEMMA SentInvLogged ==
    ASSUME SentInv, \A d \in Devices : oplog[d] \subseteq oplog'[d],
           UNCHANGED <<applied, remote>>
    PROVE  AppliedStored' /\ AppliedIsMerged'
<1>1. AppliedStored'
  BY DEF SentInv, AppliedStored, Stored
<1>2. AppliedIsMerged'
  BY ReflectsMore DEF SentInv, AppliedIsMerged
<1> QED
  BY <1>1, <1>2

\* A write is pending.
LEMMA SentInvWrite ==
    ASSUME StampInv, LogInv, SentInv, NEW d \in Devices, NEW e \in Entities,
           NEW kind \in {"put", "delete"}, Write(d, e, kind)
    PROVE  SentInv'
<1> DEFINE o == Written(d, e, kind)
<1>1. /\ oplog' = [oplog EXCEPT ![d] = oplog[d] \cup {o}]
      /\ unsynced' = [unsynced EXCEPT ![d] = unsynced[d] \cup {o.hlc}]
      /\ UNCHANGED <<applied, remote, pc, got, batch>>
  BY WriteAdds DEF Write, Written, cycle
<1>2. TypeOK
  BY DEF StampInv
<1> HIDE DEF o
<1>3. \A c \in Devices : oplog[c] \subseteq oplog'[c]
  BY <1>1, <1>2 DEF TypeOK
<1>4. AppliedStored' /\ AppliedIsMerged'
  BY <1>1, <1>3, SentInvLogged
<1>5. FetchedMerged'
  BY <1>1, <1>3, ReflectsMore DEF SentInv, FetchedMerged
<1>6. UploadStored'
  BY <1>1 DEF SentInv, UploadStored, OpsObjects, Slice
<1>7. LogsStored'
  BY <1>1, <1>2 DEF SentInv, LogsStored, TypeOK
<1> QED
  BY <1>4, <1>5, <1>6, <1>7 DEF SentInv

\* A merge takes in what is at the destination, and reflects it.
LEMMA SentInvMerge ==
    ASSUME StampInv, LogInv, SentInv, NEW d \in Devices, Merge(d)
    PROVE  SentInv'
<1> DEFINE L == oplog[d]
           A == Accepted(oplog[d], Incoming(d))
<1>1. TypeOK
  BY DEF StampInv
<1>2. /\ oplog' = [oplog EXCEPT ![d] = L \cup A]
      /\ pc' = [pc EXCEPT ![d] = "record"]
      /\ UNCHANGED <<unsynced, applied, remote, got, batch>>
  BY MergeStep DEF Merge, Goto, world
<1>3. A \subseteq Incoming(d)
  BY DEF Accepted
<1>4. \A o \in Incoming(d) : Reflects(L \cup A, o)
  <2>1. /\ L \in SUBSET Op /\ Incoming(d) \in SUBSET Op
        /\ \A o, p \in L \cup Incoming(d) : o.hlc = p.hlc => o = p
    BY MergeStep
  <2>2. MergeLog(L, Incoming(d)) = L \cup A
    BY <2>1, MergeAdds
  <2>3. \A o \in Incoming(d) : Reflects(MergeLog(L, Incoming(d)), o)
    BY <2>1, MergeReflects
  <2> QED
    BY <2>2, <2>3
<1> HIDE DEF A
<1>5. (\A c \in Devices : oplog[c] \subseteq oplog'[c]) /\ oplog'[d] = L \cup A
  BY <1>1, <1>2 DEF TypeOK
<1>6. AppliedStored' /\ AppliedIsMerged'
  BY <1>2, <1>5, SentInvLogged
<1>7. FetchedMerged'
  <2> SUFFICES ASSUME NEW c \in Devices, pc'[c] = "record", NEW g \in got[c], NEW o \in g.ops
               PROVE  Reflects(oplog'[c], o)
    BY <1>2 DEF FetchedMerged
  <2>1. CASE c # d
    <3>1. pc[c] = "record"
      BY <1>1, <1>2, <2>1 DEF TypeOK
    <3> QED
      BY <1>5, <3>1, ReflectsMore DEF SentInv, FetchedMerged
  <2>2. CASE c = d /\ g.device # d
    BY <1>4, <1>5, <2>2 DEF Incoming
  <2>3. CASE c = d /\ g.device = d
    <3>1. o \in oplog[d] /\ oplog[d] \in SUBSET Op
      BY <1>1, <2>3 DEF LogInv, FetchedStored, ObjectsLogged, TypeOK
    <3>2. Reflects(oplog[d], o)
      BY <3>1, ReflectsMember
    <3> QED
      BY <1>5, <2>3, <3>2, ReflectsMore
  <2> QED
    BY <2>1, <2>2, <2>3
<1>8. UploadStored'
  <2> SUFFICES ASSUME NEW c \in Devices, pc'[c] \in {"recordOwn", "markSynced"}
               PROVE  \E b \in OpsObjects(c)' : b \in remote'
    BY DEF UploadStored
  <2>1. pc[c] \in {"recordOwn", "markSynced"}
    BY <1>1, <1>2 DEF TypeOK
  <2> QED
    BY <1>2, <2>1 DEF SentInv, UploadStored, OpsObjects, Slice
<1>9. LogsStored'
  <2> SUFFICES ASSUME NEW c \in Devices, NEW o \in oplog'[c], o.hlc \notin unsynced[c]
               PROVE  \E b \in remote : o \in b.ops
    BY <1>2 DEF LogsStored
  <2>1. CASE o \in oplog[c]
    BY <2>1 DEF SentInv, LogsStored
  <2>2. CASE c = d /\ o \in A
    <3>1. PICK g \in got[d] : o \in g.ops
      BY <1>3, <2>2 DEF Incoming
    <3> QED
      BY <3>1 DEF LogInv, FetchedStored
  <2> QED
    BY <1>1, <1>2, <2>1, <2>2 DEF TypeOK
<1> QED
  BY <1>6, <1>7, <1>8, <1>9 DEF SentInv

\* Recording a pull: what was fetched is reflected, and a name has one object.
LEMMA SentInvRecordApplied ==
    ASSUME TypeOK, LogInv, SentInv, NEW d \in Devices, RecordApplied(d)
    PROVE  SentInv'
<1>1. /\ applied' = [applied EXCEPT ![d] = @ \cup {o.name : o \in got[d]}]
      /\ pc[d] = "record" /\ pc' = [pc EXCEPT ![d] = "pending"]
      /\ got' = [got EXCEPT ![d] = {}]
      /\ UNCHANGED <<oplog, unsynced, remote, batch>>
  BY DEF RecordApplied, Goto, world
<1>2. AppliedStored'
  <2>1. {o.name : o \in got[d]} \subseteq Stored
    BY DEF LogInv, FetchedStored, Stored
  <2> QED
    BY <1>1, <2>1 DEF SentInv, AppliedStored, Stored, TypeOK
<1>3. AppliedIsMerged'
  <2> SUFFICES ASSUME NEW c \in Devices, NEW b \in remote, b.name \in applied'[c], NEW o \in b.ops
               PROVE  Reflects(oplog[c], o)
    BY <1>1 DEF AppliedIsMerged
  <2>1. CASE b.name \in applied[c]
    BY <2>1 DEF SentInv, AppliedIsMerged
  <2>2. CASE c = d /\ b.name \in {g.name : g \in got[d]}
    <3>1. PICK g \in got[d] : g.name = b.name
      BY <2>2
    <3>2. g = b
      BY <3>1 DEF LogInv, FetchedStored, NamesUnique
    <3> QED
      BY <1>1, <2>2, <3>1, <3>2 DEF SentInv, FetchedMerged
  <2> QED
    BY <1>1, <2>1, <2>2 DEF TypeOK
<1>4. FetchedMerged'
  BY <1>1 DEF SentInv, FetchedMerged, TypeOK
<1>5. UploadStored'
  <2> SUFFICES ASSUME NEW c \in Devices, pc'[c] \in {"recordOwn", "markSynced"}
               PROVE  \E b \in OpsObjects(c)' : b \in remote'
    BY DEF UploadStored
  <2>1. pc[c] \in {"recordOwn", "markSynced"}
    BY <1>1 DEF TypeOK
  <2> QED
    BY <1>1, <2>1 DEF SentInv, UploadStored, OpsObjects, Slice
<1>6. LogsStored'
  BY <1>1 DEF SentInv, LogsStored
<1> QED
  BY <1>2, <1>3, <1>4, <1>5, <1>6 DEF SentInv

\* Recording a push: the batch is at the destination, and came from the log.
LEMMA SentInvRecordOwn ==
    ASSUME TypeOK, LogInv, SentInv, NEW d \in Devices, RecordOwn(d)
    PROVE  SentInv'
<1>1. /\ applied' = [applied EXCEPT ![d] = @ \cup {b.name : b \in OpsObjects(d)}]
      /\ pc[d] = "recordOwn" /\ pc' = [pc EXCEPT ![d] = "markSynced"]
      /\ UNCHANGED <<oplog, unsynced, remote, batch, got>>
  BY DEF RecordOwn, Goto, world
<1>2. PICK own \in OpsObjects(d) : own \in remote
  BY <1>1 DEF SentInv, UploadStored
<1>3. {b.name : b \in OpsObjects(d)} = {own.name}
  BY <1>2, OneUpload
<1>4. AppliedStored'
  BY <1>1, <1>2, <1>3 DEF SentInv, AppliedStored, Stored, TypeOK
<1>5. AppliedIsMerged'
  <2> SUFFICES ASSUME NEW c \in Devices, NEW b \in remote, b.name \in applied'[c], NEW o \in b.ops
               PROVE  Reflects(oplog[c], o)
    BY <1>1 DEF AppliedIsMerged
  <2>1. CASE b.name \in applied[c]
    BY <2>1 DEF SentInv, AppliedIsMerged
  <2>2. CASE c = d /\ b.name = own.name
    <3>1. b = own
      BY <1>2, <2>2 DEF LogInv, NamesUnique
    <3>2. o \in oplog[d] /\ oplog[d] \in SUBSET Op
      BY <1>2, <3>1, UploadLogged DEF TypeOK
    <3> QED
      BY <2>2, <3>2, ReflectsMember
  <2> QED
    BY <1>1, <1>3, <2>1, <2>2 DEF TypeOK
<1>6. FetchedMerged'
  BY <1>1 DEF SentInv, FetchedMerged, TypeOK
<1>7. UploadStored'
  <2> SUFFICES ASSUME NEW c \in Devices, pc'[c] \in {"recordOwn", "markSynced"}
               PROVE  \E b \in OpsObjects(c)' : b \in remote'
    BY DEF UploadStored
  <2>1. pc[c] \in {"recordOwn", "markSynced"}
    BY <1>1 DEF TypeOK
  <2> QED
    BY <1>1, <2>1 DEF SentInv, UploadStored, OpsObjects, Slice
<1>8. LogsStored'
  BY <1>1 DEF SentInv, LogsStored
<1> QED
  BY <1>4, <1>5, <1>6, <1>7, <1>8 DEF SentInv

\* Marking a push: what is marked was captured, and is in the object stored.
LEMMA SentInvMarkSynced ==
    ASSUME StampInv, LogInv, SentInv, NEW d \in Devices, MarkSynced(d)
    PROVE  SentInv'
<1>0. TypeOK
  BY DEF StampInv
<1>1. /\ unsynced' = [unsynced EXCEPT ![d] = @ \ {o.hlc : o \in Slice(d)}]
      /\ pc[d] = "markSynced" /\ pc'[d] \in {"threshold", "upload"}
      /\ \A c \in Devices : c # d => UNCHANGED <<pc[c], batch[c]>>
      /\ UNCHANGED <<oplog, applied, remote, got>>
  BY <1>0 DEF MarkSynced, Uploaded, Goto, world, TypeOK
<1>2. PICK own \in OpsObjects(d) : own \in remote
  BY <1>1 DEF SentInv, UploadStored
<1>3. own.ops = Slice(d) /\ Slice(d) \subseteq oplog[d]
  BY <1>0, <1>2, UploadLogged
<1>4. AppliedStored' /\ AppliedIsMerged'
  BY <1>1, SentInvLogged
<1>5. FetchedMerged'
  BY <1>1 DEF SentInv, FetchedMerged
<1>6. UploadStored'
  <2> SUFFICES ASSUME NEW c \in Devices, pc'[c] \in {"recordOwn", "markSynced"}
               PROVE  \E b \in OpsObjects(c)' : b \in remote'
    BY DEF UploadStored
  <2>1. c # d /\ pc[c] \in {"recordOwn", "markSynced"} /\ UNCHANGED batch[c]
    BY <1>1
  <2> QED
    BY <1>1, <2>1 DEF SentInv, UploadStored, OpsObjects, Slice
<1>7. LogsStored'
  <2> SUFFICES ASSUME NEW c \in Devices, NEW o \in oplog[c], o.hlc \notin unsynced'[c]
               PROVE  \E b \in remote : o \in b.ops
    BY <1>1 DEF LogsStored
  <2>1. CASE o.hlc \notin unsynced[c]
    BY <2>1 DEF SentInv, LogsStored
  <2>2. CASE c = d /\ o.hlc \in {p.hlc : p \in Slice(d)}
    <3>1. PICK p \in Slice(d) : p.hlc = o.hlc
      BY <2>2
    <3>2. p = o
      BY <1>3, <2>2, <3>1 DEF LogInv, LogsAuthored, StampInv, StampsUnique
    <3> QED
      BY <1>2, <1>3, <3>1, <3>2
  <2> QED
    BY <1>0, <1>1, <2>1, <2>2 DEF TypeOK
<1> QED
  BY <1>4, <1>5, <1>6, <1>7 DEF SentInv

\* Every step preserves what is recorded.
LEMMA SentInvStep ==
    ASSUME NoSnapshots, Counted, StampInv, LogInv, PendInv, SentInv, [Next]_vars
    PROVE  SentInv'
<1>1. TypeOK
  BY DEF StampInv
<1>2. CASE UNCHANGED vars
  BY <1>2, SentInvMove DEF vars, db, cycle, world
<1>3. ASSUME NEW d \in Devices, CycleStep(d) PROVE SentInv'
  <2>1. pc[d] \notin SnapshotSteps
    BY DEF NoSnapshots
  <2>2. CASE Begin(d) \/ ListSnapshots(d) \/ Threshold(d)
    <3>1. UNCHANGED <<oplog, applied, unsynced, remote, batch, got>>
      BY <2>2 DEF Begin, ListSnapshots, Threshold, db, world
    <3>2. \A c \in Devices :
            /\ pc'[c] = "record" => pc[c] = "record"
            /\ pc'[c] \in {"recordOwn", "markSynced"} => pc[c] \in {"recordOwn", "markSynced"}
      BY <1>1, <2>2 DEF Begin, ListSnapshots, Threshold, Goto, TypeOK
    <3> QED
      BY <3>1, <3>2, SentInvMove
  <2>3. CASE ListOps(d)
    <3>1. mark[d] = {}
      BY <2>3 DEF NoSnapshots, ListOps
    <3>2. applied' = applied
      BY <1>1, <2>3, <3>1 DEF ListOps, coveredBy, TypeOK
    <3>3. UNCHANGED <<oplog, unsynced, remote, batch, got>>
      BY <2>3 DEF ListOps, world
    <3>4. \A c \in Devices :
            /\ pc'[c] = "record" => pc[c] = "record"
            /\ pc'[c] \in {"recordOwn", "markSynced"} => pc[c] \in {"recordOwn", "markSynced"}
      BY <1>1, <2>3 DEF ListOps, Goto, TypeOK
    <3> QED
      BY <3>2, <3>3, <3>4, SentInvMove
  <2>4. CASE GetObject(d)
    <3>1. \A c \in Devices : pc[c] = "record" => UNCHANGED got[c]
      BY <1>1, <2>4 DEF GetObject, TypeOK
    <3> QED
      BY <2>4, <3>1, SentInvMove DEF GetObject, db, world
  <2>5. CASE ObserveHead(d)
    BY <2>5, SentInvMove DEF ObserveHead, db, world
  <2>6. CASE Merge(d)
    BY <2>6, SentInvMerge
  <2>7. CASE RecordApplied(d)
    BY <1>1, <2>7, SentInvRecordApplied
  <2>8. CASE CapturePending(d)
    <3>1. UNCHANGED <<oplog, applied, unsynced, remote, got>>
      BY <2>8 DEF CapturePending, db, world
    <3>2. pc'[d] \in {"threshold", "upload"} /\ \A c \in Devices : c # d => UNCHANGED <<pc[c], batch[c]>>
      BY <1>1, <2>8 DEF CapturePending, Goto, TypeOK
    <3>3. ASSUME NEW c \in Devices, pc'[c] \in {"recordOwn", "markSynced"}
          PROVE  \E b \in OpsObjects(c)' : b \in remote'
      <4>1. c # d /\ pc[c] \in {"recordOwn", "markSynced"} /\ UNCHANGED batch[c]
        BY <3>2, <3>3
      <4> QED
        BY <3>1, <4>1 DEF SentInv, UploadStored, OpsObjects, Slice
    <3>4. \A c \in Devices : pc'[c] = "record" => pc[c] = "record"
      BY <3>2
    <3> QED
      BY <3>1, <3>3, <3>4, SentInvQuiet
  <2>9. CASE Upload(d)
    <3>1. PICK b \in OpsObjects(d) : ~PutRefused(b.name) /\ PutObject(b)
      BY <2>9 DEF Upload
    <3>2. remote' = remote \cup {b} /\ (b \in remote \/ b.name \notin Stored)
      BY <3>1, UploadAdds
    <3>3. UNCHANGED <<oplog, applied, unsynced, got, batch>> /\ pc' = [pc EXCEPT ![d] = "recordOwn"]
      BY <2>9 DEF Upload, Goto, db
    <3>4. ASSUME NEW c \in Devices, pc'[c] \in {"recordOwn", "markSynced"}
          PROVE  \E x \in OpsObjects(c)' : x \in remote'
      <4>1. OpsObjects(c)' = OpsObjects(c)
        BY <3>3 DEF OpsObjects, Slice
      <4>2. CASE c = d
        BY <3>2, <4>1, <4>2
      <4>3. CASE c # d
        BY <1>1, <3>2, <3>3, <3>4, <4>1, <4>3 DEF SentInv, UploadStored, TypeOK
      <4> QED
        BY <4>2, <4>3
    <3>5. \A c \in Devices : pc'[c] = "record" => pc[c] = "record"
      BY <1>1, <3>3 DEF TypeOK
    <3> QED
      BY <3>2, <3>3, <3>4, <3>5, SentInvQuiet
  <2>10. CASE RecordOwn(d)
    BY <1>1, <2>10, SentInvRecordOwn
  <2>11. CASE MarkSynced(d)
    BY <2>11, SentInvMarkSynced
  <2>12. CASE PutSnapshot(d)
    BY <2>12, UploadKinds DEF PutSnapshot
  <2>13. CASE Finish(d) \/ ObserveError(d) \/ ObjectGone(d) \/ PutError(d)
    BY <1>1, <2>13, SentInvEnd DEF Finish, ObserveError, ObjectGone, PutError, db, world
  <2>14. CASE ApplySnapshot(d) \/ RecordSnapshot(d) \/ NoteSnapshot(d) \/ RecordOwnSnapshot(d)
              \/ NoteOwnSnapshot(d) \/ ListSuperseded(d) \/ RemoveSuperseded(d)
    BY <2>1, <2>14 DEF ApplySnapshot, RecordSnapshot, NoteSnapshot, RecordOwnSnapshot,
       NoteOwnSnapshot, ListSuperseded, RemoveSuperseded, SnapshotSteps
  <2> QED
    BY <1>3, <2>2, <2>3, <2>4, <2>5, <2>6, <2>7, <2>8, <2>9, <2>10, <2>11, <2>12, <2>13, <2>14
    DEF CycleStep
<1>4. ASSUME NEW d \in Devices, UserStep(d) PROVE SentInv'
  BY <1>4, SentInvWrite DEF UserStep, Put, Remove
<1>5. ASSUME NEW d \in Devices, FaultStep(d) PROVE SentInv'
  <2>1. CASE AbortedWrite(d) \/ SetBack(d)
    BY <2>1, SentInvMove DEF AbortedWrite, SetBack, db, cycle
  <2>2. CASE RequestFails(d) \/ Crash(d)
    BY <1>1, <2>2, SentInvEnd DEF RequestFails, Crash, db
  <2>3. CASE PutReplyLost(d)
    <3>1. PICK b \in OpsObjects(d) : ~PutRefused(b.name) /\ PutObject(b)
      BY <2>3, UploadKinds DEF PutReplyLost
    <3>2. remote' = remote \cup {b} /\ (b \in remote \/ b.name \notin Stored)
      BY <3>1, UploadAdds
    <3> QED
      BY <1>1, <2>3, <3>2, SentInvEnd DEF PutReplyLost, db
  <2>4. CASE PruneFails(d)
    BY <2>4 DEF PruneFails, NoSnapshots, SnapshotSteps
  <2> QED
    BY <1>5, <2>1, <2>2, <2>3, <2>4 DEF FaultStep
<1>6. ASSUME NEW d \in Devices, Advance(d) PROVE SentInv'
  BY <1>6, SentInvMove DEF Advance, db, cycle
<1> QED
  BY <1>2, <1>3, <1>4, <1>5, <1>6 DEF Next

----------------------------------------------------------------------------
\* The theorems.

SyncInv == NoSnapshots /\ Counted /\ StampInv /\ LogInv /\ PendInv /\ SentInv

\* The four layers, on top of that of clocks and stamps, are an invariant.
LEMMA SyncInvariant ==
    ASSUME Unsnapshotted
    PROVE  Spec => []SyncInv
<1>1. Init => NoSnapshots /\ Counted /\ LogInv /\ PendInv /\ SentInv
  <2> SUFFICES ASSUME Init PROVE NoSnapshots /\ Counted /\ LogInv /\ PendInv /\ SentInv
    OBVIOUS
  <2>1. NoSnapshots
    BY DEF Init, NoSnapshots, SnapshotSteps
  <2>2. Counted
    BY FS_EmptySet, SyncAssumption DEF Init, Counted
  <2>3. LogInv
    BY DEF Init, LogInv, LogsAuthored, BatchesLogged, ObjectsLogged, ObjectsBounded, NamesUnique,
       FetchedStored, FetchedCovered, LogsCovered, RowsFollowLog, LiveRows
  <2>4. PendInv
    BY DEF Init, PendInv, PendingOwn, BatchPrefix, ObjectsHeaded, ResentSame, SliceCovers
  <2>5. SentInv
    BY DEF Init, SentInv, AppliedStored, AppliedIsMerged, FetchedMerged, UploadStored, LogsStored
  <2> QED
    BY <2>1, <2>2, <2>3, <2>4, <2>5
<1>2. StampInv /\ NoSnapshots /\ Counted /\ LogInv /\ PendInv /\ SentInv /\ [Next]_vars
        => (NoSnapshots /\ Counted /\ LogInv /\ PendInv /\ SentInv)'
  <2> SUFFICES ASSUME StampInv, NoSnapshots, Counted, LogInv, PendInv, SentInv, [Next]_vars
               PROVE  (NoSnapshots /\ Counted /\ LogInv /\ PendInv /\ SentInv)'
    OBVIOUS
  <2>1. TypeOK /\ LogsAuthored
    BY DEF StampInv, LogInv
  <2> QED
    BY <2>1, NoSnapshotsStep, CountedStep, LogInvStep, PendInvStep, SentInvStep
<1>3. NoSnapshots /\ Counted /\ StampInv /\ LogInv /\ PendInv /\ SentInv => SyncInv
  BY DEF SyncInv
<1> QED
  BY StampInvariant, <1>1, <1>2, <1>3, PTL DEF Spec

\* Without snapshots, every table follows the log: the ledger a device shows
\* is that of the newest operations it knows of, through merges, writes, their
\* interleavings and crashes.
THEOREM TablesFollowLog ==
    ASSUME Unsnapshotted
    PROVE  Spec => []RowsFollowLog
<1>1. SyncInv => RowsFollowLog
  BY DEF SyncInv, LogInv
<1> QED
  BY SyncInvariant, <1>1, PTL

\* Without snapshots, whatever is recorded in remoteObjects has been merged.
THEOREM RecordedIsMerged ==
    ASSUME Unsnapshotted
    PROVE  Spec => []AppliedIsMerged
<1>1. SyncInv => AppliedIsMerged
  BY DEF SyncInv, SentInv
<1> QED
  BY SyncInvariant, <1>1, PTL

\* Without snapshots, no write is lost: one marked synced is stored.
THEOREM NoWriteLost ==
    ASSUME Unsnapshotted
    PROVE  Spec => []SyncedIsStored
<1>1. SyncInv => SyncedIsStored
  BY DEF SyncInv, SentInv, LogsStored, SyncedIsStored
<1> QED
  BY SyncInvariant, <1>1, PTL

\* Everything a settled device knows is reflected in any other settled device.
LEMMA SettledReflects ==
    ASSUME SyncInv, NEW c \in Devices, NEW d \in Devices, Settled(c), Settled(d),
           NEW o \in oplog[c]
    PROVE  Reflects(oplog[d], o)
<1>1. PICK b \in remote : o \in b.ops
  BY DEF SyncInv, SentInv, LogsStored, Settled
<1>2. b.name \in applied[d]
  BY DEF Settled
<1> QED
  BY <1>1, <1>2 DEF SyncInv, SentInv, AppliedIsMerged

\* Without snapshots, devices converge: any two that have nothing to send and
\* have applied what is stored show the same ledger, in whatever order, with
\* whatever failures and on whatever clocks they got there.
THEOREM DevicesConverge ==
    ASSUME Unsnapshotted
    PROVE  Spec => []SettledAgree
<1>1. SyncInv => SettledAgree
  <2> SUFFICES ASSUME SyncInv, NEW c \in Devices, NEW d \in Devices, Settled(c), Settled(d)
               PROVE  rows[c] = rows[d]
    BY DEF SettledAgree
  <2> DEFINE all == oplog[c] \cup oplog[d]
  <2>1. oplog[c] \in SUBSET Op /\ oplog[d] \in SUBSET Op
    BY DEF SyncInv, StampInv, TypeOK
  <2>2. \A o, p \in all : o.hlc = p.hlc => o = p
    BY DEF SyncInv, StampInv, StampsUnique, LogInv, LogsAuthored
  <2>3. \A o \in all : Reflects(oplog[c], o) /\ Reflects(oplog[d], o)
    BY <2>1, SettledReflects, ReflectsMember
  <2>4. /\ all \in SUBSET Op
        /\ oplog[c] \in SUBSET all /\ oplog[d] \in SUBSET all
    BY <2>1
  <2> HIDE DEF all
  <2>5. LiveRows(oplog[c]) = LiveRows(all)
    BY <2>2, <2>3, <2>4, ReflectedRows
  <2>6. LiveRows(oplog[d]) = LiveRows(all)
    BY <2>2, <2>3, <2>4, ReflectedRows
  <2> QED
    BY <2>5, <2>6 DEF SyncInv, LogInv, RowsFollowLog
<1> QED
  BY SyncInvariant, <1>1, PTL

----------------------------------------------------------------------------
\* Steps.

\* The steps that are neither a write nor a merge leave the logs, the tables
\* and the history alone.
LEMMA OtherSteps ==
    ASSUME NoSnapshots, NEW d \in Devices,
           CycleStep(d) \/ FaultStep(d) \/ Advance(d), ~Merge(d)
    PROVE  UNCHANGED <<rows, oplog, authored>>
<1>1. pc[d] # "getSnapshot"
  BY DEF NoSnapshots, SnapshotSteps
<1>2. CASE Begin(d) \/ ListSnapshots(d) \/ ApplySnapshot(d) \/ RecordSnapshot(d) \/ NoteSnapshot(d)
           \/ ListOps(d) \/ GetObject(d) \/ ObserveHead(d) \/ RecordApplied(d)
  BY <1>1, <1>2 DEF Begin, ListSnapshots, ApplySnapshot, RecordSnapshot, NoteSnapshot, ListOps,
     GetObject, ObserveHead, RecordApplied, db, world
<1>3. CASE CapturePending(d) \/ Upload(d) \/ RecordOwn(d) \/ MarkSynced(d) \/ Threshold(d)
           \/ PutSnapshot(d) \/ RecordOwnSnapshot(d) \/ NoteOwnSnapshot(d)
           \/ ListSuperseded(d) \/ RemoveSuperseded(d)
  BY <1>3 DEF CapturePending, Upload, RecordOwn, MarkSynced, Threshold, PutSnapshot,
     RecordOwnSnapshot, NoteOwnSnapshot, ListSuperseded, RemoveSuperseded, db, world
<1>4. CASE Finish(d) \/ ObserveError(d) \/ ObjectGone(d) \/ PutError(d) \/ FaultStep(d) \/ Advance(d)
  BY <1>4 DEF Finish, ObserveError, ObjectGone, PutError, FaultStep, AbortedWrite, RequestFails,
     PutReplyLost, PruneFails, Crash, SetBack, Advance, db, world
<1> QED
  BY <1>2, <1>3, <1>4 DEF CycleStep

\* Without snapshots, a write is stamped after whatever its device knew,
\* merged operations included: what a user has just seen never beats what the
\* user does next.
THEOREM WritesFollowKnown ==
    ASSUME Unsnapshotted
    PROVE  Spec => WritesAfterKnown
<1> DEFINE Step == \A d \in Devices : \A o \in oplog'[d] \ oplog[d] :
                      o \in authored' \ authored => NewerThanLog(o, oplog[d])
<1>1. SyncInv /\ [Next]_vars => [Step]_vars
  <2> SUFFICES ASSUME SyncInv, Next PROVE Step
    OBVIOUS
  <2>1. PICK d \in Devices : CycleStep(d) \/ UserStep(d) \/ FaultStep(d) \/ Advance(d)
    BY DEF Next
  <2>2. CASE UserStep(d)
    <3>1. PICK e \in Entities, kind \in {"put", "delete"} : Write(d, e, kind)
      BY <2>2 DEF UserStep, Put, Remove
    <3>2. /\ oplog' = [oplog EXCEPT ![d] = oplog[d] \cup {Written(d, e, kind)}]
          /\ authored' = authored \cup {Written(d, e, kind)}
      BY <3>1, WriteAdds DEF SyncInv
    <3>3. \A p \in oplog[d] : Before(p.hlc, Written(d, e, kind).hlc)
      BY <3>1, WriteIsNewer DEF SyncInv
    <3> QED
      BY <3>2, <3>3 DEF NewerThanLog, SyncInv, StampInv, TypeOK
  <2>3. CASE Merge(d)
    BY <2>3 DEF Merge, world
  <2>4. CASE ~Merge(d) /\ ~UserStep(d)
    BY <2>1, <2>4, OtherSteps DEF SyncInv
  <2> QED
    BY <2>2, <2>3, <2>4
<1> QED
  BY SyncInvariant, <1>1, PTL DEF Spec, WritesAfterKnown

\* Objects are only added, under names not in use.
LEMMA RemoteGrows ==
    ASSUME NoSnapshots, Counted, StampInv, LogInv, PendInv, Next
    PROVE  remote \subseteq remote' /\ \A b \in remote' \ remote : b.name \notin Stored
<1>1. PICK d \in Devices : CycleStep(d) \/ UserStep(d) \/ FaultStep(d) \/ Advance(d)
  BY DEF Next
<1>2. pc[d] \notin SnapshotSteps
  BY DEF NoSnapshots
<1>3. CASE UNCHANGED remote
  BY <1>3
<1>4. CASE \E b \in OpsObjects(d) : ~PutRefused(b.name) /\ PutObject(b)
  BY <1>4, UploadAdds
<1>5. CASE UserStep(d) \/ Advance(d)
  BY <1>3, <1>5 DEF UserStep, Put, Remove, Write, Advance
<1>6. CASE FaultStep(d)
  BY <1>2, <1>3, <1>4, <1>6, UploadKinds DEF FaultStep, AbortedWrite, RequestFails, PutReplyLost,
     PruneFails, Crash, SetBack, SnapshotSteps
<1>7. CASE CycleStep(d)
  <2>1. CASE Upload(d) \/ PutSnapshot(d) \/ RemoveSuperseded(d)
    BY <1>2, <1>4, <2>1, UploadKinds DEF Upload, PutSnapshot, RemoveSuperseded, SnapshotSteps
  <2>2. CASE ~(Upload(d) \/ PutSnapshot(d) \/ RemoveSuperseded(d))
    BY <1>3, <1>7, <2>2 DEF CycleStep, Begin, ListSnapshots, ApplySnapshot, RecordSnapshot,
       NoteSnapshot, ListOps, GetObject, ObserveHead, Merge, RecordApplied, CapturePending,
       RecordOwn, MarkSynced, Threshold, RecordOwnSnapshot, NoteOwnSnapshot, ListSuperseded,
       Finish, ObserveError, ObjectGone, PutError, world
  <2> QED
    BY <2>1, <2>2
<1> QED
  BY <1>1, <1>5, <1>6, <1>7

\* Without snapshots, the contents of an object name never change.
THEOREM ObjectsNeverChange ==
    ASSUME Unsnapshotted
    PROVE  Spec => BatchesImmutable
<1> DEFINE Step == \A b \in remote, c \in remote' :
                      b.name.kind = "ops" /\ b.name = c.name => b.ops = c.ops
<1>1. SyncInv /\ [Next]_vars => [Step]_vars
  <2> SUFFICES ASSUME SyncInv, Next, NEW b \in remote, NEW c \in remote', b.name = c.name
               PROVE  b.ops = c.ops
    OBVIOUS
  <2>1. c \in remote
    BY RemoteGrows DEF SyncInv, Stored
  <2> QED
    BY <2>1 DEF SyncInv, LogInv, NamesUnique
<1> QED
  BY SyncInvariant, <1>1, PTL DEF Spec, BatchesImmutable

----------------------------------------------------------------------------
\* The promise.

\* The promise reads logs the way the devices do.
LEMMA PromiseReads ==
    ASSUME NEW log, NEW o
    PROVE  /\ Promise!LiveRows(log) = LiveRows(log)
           /\ Promise!NewerThanLog(o, log) <=> NewerThanLog(o, log)
BY DEF Promise!LiveRows, Promise!NewestOfEntity, Promise!AtMost, Promise!Before, Promise!NewerThanLog,
   LiveRows, NewestOfEntity, AtMost, Before, NewerThanLog

\* A write of a device is a write of the promise.
LEMMA WritePromised ==
    ASSUME SyncInv, RowsFollowLog', NEW d \in Devices, NEW e \in Entities,
           NEW kind \in {"put", "delete"}, Write(d, e, kind)
    PROVE  Promise!Write(d)
<1> DEFINE o == Written(d, e, kind)
<1>1. /\ oplog' = [oplog EXCEPT ![d] = @ \cup {o}]
      /\ authored' = authored \cup {o}
      /\ rows' = [rows EXCEPT ![d] = rows'[d]]
  <2>1. rows \in [Devices -> SUBSET Op]
    BY DEF SyncInv, StampInv, TypeOK
  <2>2. rows' = [rows EXCEPT ![d] = rows'[d]]
    BY <2>1 DEF Write
  <2> QED
    BY <2>2, WriteAdds DEF SyncInv
<1>2. \A p \in oplog[d] : Before(p.hlc, o.hlc)
  BY WriteIsNewer DEF SyncInv
<1>3. o.hlc.device = d
  BY DEF Written, encodeHlc
<1>4. o.hlc \notin {p.hlc : p \in authored}
  BY StampInvWrite DEF SyncInv
<1>5. rows' = [rows EXCEPT ![d] = LiveRows(oplog'[d])]
  BY <1>1 DEF RowsFollowLog
<1> HIDE DEF o
<1>6. o \in authored' /\ NewerThanLog(o, oplog[d])
  BY <1>1, <1>2 DEF NewerThanLog
<1> QED
  BY <1>1, <1>3, <1>4, <1>5, <1>6, PromiseReads DEF Promise!Write, Promise!Show

\* A merge is a lesson of the promise.
LEMMA MergePromised ==
    ASSUME SyncInv, RowsFollowLog', NEW d \in Devices, Merge(d)
    PROVE  Promise!Learn(d)
<1> DEFINE A == Accepted(oplog[d], Incoming(d))
<1>1. /\ oplog' = [oplog EXCEPT ![d] = @ \cup A]
      /\ rows' = [rows EXCEPT ![d] = rows'[d]]
      /\ UNCHANGED authored
  BY MergeStep DEF SyncInv, StampInv, TypeOK, Merge, world
<1>2. A \in SUBSET authored /\ \A o \in A : NewerThanLog(o, oplog[d])
  BY MergeStep DEF SyncInv, Accepted
<1>3. rows' = [rows EXCEPT ![d] = LiveRows(oplog'[d])]
  BY <1>1 DEF RowsFollowLog
<1> HIDE DEF A
<1> QED
  BY <1>1, <1>2, <1>3, PromiseReads DEF Promise!Learn, Promise!Show

\* Without snapshots, the devices implement the replicated ledger: every step
\* of theirs is a write at the top of the writer's log, a lesson of somebody's
\* newer writes, or leaves logs and ledgers alone.
THEOREM PromiseKept ==
    ASSUME Unsnapshotted
    PROVE  Spec => KeepsPromise
<1>1. Init => Promise!Init
  BY DEF Init, Promise!Init
<1>2. SyncInv /\ SyncInv' /\ [Next]_vars => [Promise!Next]_<<authored, oplog, rows>>
  <2> SUFFICES ASSUME SyncInv, SyncInv', [Next]_vars
               PROVE  Promise!Next \/ UNCHANGED <<authored, oplog, rows>>
    OBVIOUS
  <2>1. CASE UNCHANGED vars
    BY <2>1 DEF vars, db, world
  <2>2. RowsFollowLog'
    BY DEF SyncInv, LogInv
  <2>3. ASSUME NEW d \in Devices, UserStep(d) PROVE Promise!Next
    <3>1. PICK e \in Entities, kind \in {"put", "delete"} : Write(d, e, kind)
      BY <2>3 DEF UserStep, Put, Remove
    <3> QED
      BY <2>2, <3>1, WritePromised DEF Promise!Next
  <2>4. ASSUME NEW d \in Devices, Merge(d) PROVE Promise!Next
    BY <2>2, <2>4, MergePromised DEF Promise!Next
  <2>5. ASSUME NEW d \in Devices, CycleStep(d) \/ FaultStep(d) \/ Advance(d), ~Merge(d)
        PROVE  UNCHANGED <<authored, oplog, rows>>
    BY <2>5, OtherSteps DEF SyncInv
  <2> QED
    BY <2>1, <2>3, <2>4, <2>5 DEF Next
<1> QED
  BY SyncInvariant, <1>1, <1>2, PTL DEF Spec, KeepsPromise, Promise!Spec
=============================================================================
