----------------------------- MODULE SyncProofs -----------------------------
(***************************************************************************)
(* The order of stamps, what tick() and observe() do to it and what        *)
(* merging and writing do to a device's log, and then what holds of the    *)
(* sync engine: for any set of devices, any limits and any number of       *)
(* writes, cycles, crashes and failing requests.                           *)
(***************************************************************************)
EXTENDS Sync, TLAPS

----------------------------------------------------------------------------
\* Clocks and stamps.

\* The fields of a stamp are numbers, so comparing them is arithmetic.
LEMMA StampFields ==
    ASSUME NEW s \in Stamp
    PROVE  /\ s.physical \in Nat /\ s.counter \in Nat /\ s.device \in Nat
           /\ s.device \in Devices /\ s.counter <= MaxCounter
<1>1. s.physical \in Nat /\ s.counter \in 0..MaxCounter /\ s.device \in Devices
  BY DEF Stamp
<1>2. s.device \in Nat
  BY <1>1, HlcAssumption
<1>3. s.counter \in Nat /\ s.counter <= MaxCounter
  BY <1>1, HlcAssumption
<1> QED
  BY <1>1, <1>2, <1>3

\* The fields of a clock state are numbers.
LEMMA StateFields ==
    ASSUME NEW c \in HlcState
    PROVE  c.physical \in Nat /\ c.counter \in Nat /\ c.counter <= MaxCounter
BY HlcAssumption DEF HlcState

\* Comparing stamps is a strict total order: no stamp is older than itself.
LEMMA BeforeIrreflexive ==
    ASSUME NEW s \in Stamp
    PROVE  ~Before(s, s)
BY StampFields DEF Before

\* Older than something older is older.
LEMMA BeforeTransitive ==
    ASSUME NEW s \in Stamp, NEW t \in Stamp, NEW u \in Stamp,
           Before(s, t), Before(t, u)
    PROVE  Before(s, u)
BY StampFields DEF Before

\* Of two different stamps one is older: no two writes tie, whatever the
\* clocks of the devices that made them.
LEMMA BeforeTotal ==
    ASSUME NEW s \in Stamp, NEW t \in Stamp
    PROVE  Before(s, t) \/ Before(t, s) \/ s = t
<1>1. ASSUME s.physical = t.physical, s.counter = t.counter, s.device = t.device
      PROVE  s = t
  BY <1>1 DEF Stamp
<1> QED
  BY <1>1, StampFields DEF Before

\* Of two stamps at most one is older.
LEMMA BeforeAsymmetric ==
    ASSUME NEW s \in Stamp, NEW t \in Stamp, Before(s, t)
    PROVE  ~Before(t, s) /\ s # t
BY StampFields DEF Before

\* A clock not ahead of another that is not ahead of a third.
LEMMA NotAheadTransitive ==
    ASSUME NEW a \in HlcState, NEW b \in HlcState, NEW c \in HlcState,
           NotAhead(a, b), NotAhead(b, c)
    PROVE  NotAhead(a, c)
BY StateFields DEF NotAhead

\* No clock is ahead of itself.
LEMMA NotAheadReflexive ==
    ASSUME NEW a \in HlcState
    PROVE  NotAhead(a, a)
BY StateFields DEF NotAhead

\* Encoding a clock state gives a stamp, and decoding gives it back.
LEMMA StampTypes ==
    /\ ZeroClock \in HlcState
    /\ \A c \in HlcState, d \in Devices :
         encodeHlc(c, d) \in Stamp /\ decodeHlc(encodeHlc(c, d)) = c
    /\ \A s \in Stamp : decodeHlc(s) \in HlcState
BY HlcAssumption DEF HlcState, Stamp, ZeroClock, encodeHlc, decodeHlc

\* tick() gives a clock state, and it is ahead of the one before.
LEMMA TickAdvances ==
    ASSUME NEW clock \in HlcState, NEW now \in Nat, ~TickThrows(clock, now)
    PROVE  /\ Tick(clock, now) \in HlcState
           /\ NotAhead(clock, Tick(clock, now))
BY StateFields, HlcAssumption DEF HlcState, TickThrows, Tick, NotAhead

\* A stamp ticked from a clock is newer than every stamp the clock covers.
LEMMA TickIsNewer ==
    ASSUME NEW clock \in HlcState, NEW now \in Nat, ~TickThrows(clock, now),
           NEW d \in Devices, NEW s \in Stamp, NotAhead(decodeHlc(s), clock)
    PROVE  Before(s, encodeHlc(Tick(clock, now), d))
BY StateFields, StampFields DEF TickThrows, Tick, NotAhead, decodeHlc, encodeHlc, Before

\* observe() gives a clock state that is behind neither the clock nor the
\* stamp: the next tick is newer than both.
LEMMA ObserveCovers ==
    ASSUME NEW clock \in HlcState, NEW now \in Nat, NEW heard \in Stamp,
           ~ObserveThrows(clock, now, heard)
    PROVE  /\ Observe(clock, now, heard) \in HlcState
           /\ NotAhead(clock, Observe(clock, now, heard))
           /\ NotAhead(decodeHlc(heard), Observe(clock, now, heard))
<1> DEFINE p == ObservedPhysical(clock, now, heard)
           k == ObservedCounter(clock, now, heard)
<1>1. /\ clock.physical \in Nat /\ clock.counter \in Nat
      /\ heard.physical \in Nat /\ heard.counter \in Nat
  BY StateFields, StampFields
<1>2. p \in Nat /\ p >= clock.physical /\ p >= heard.physical
  BY <1>1 DEF ObservedPhysical, Latest
<1>3. /\ k \in Nat
      /\ p = clock.physical => k >= clock.counter
      /\ p = heard.physical => k >= heard.counter
  BY <1>1, <1>2 DEF ObservedCounter, Latest
<1>4. k <= MaxCounter
  BY <1>3, HlcAssumption DEF ObserveThrows
<1>5. Observe(clock, now, heard) = [physical |-> p, counter |-> k]
  BY DEF Observe
<1> HIDE DEF p, k
<1> QED
  BY <1>1, <1>2, <1>3, <1>4, <1>5, HlcAssumption DEF HlcState, NotAhead, decodeHlc

----------------------------------------------------------------------------
\* Tables and logs.

\* The fields of an operation.
LEMMA OpFields ==
    ASSUME NEW o \in Op
    PROVE  o.hlc \in Stamp /\ o.entity \in Entities /\ o.op \in {"put", "delete"}
BY DEF Op

\* Merging operations into tables and logs of operations gives such again.
LEMMA MergeType ==
    ASSUME NEW r \in SUBSET Op, NEW log \in SUBSET Op, NEW ops \in SUBSET Op
    PROVE  MergeRows(r, log, ops) \in SUBSET Op /\ MergeLog(log, ops) \in SUBSET Op
BY DEF MergeRows, MergeLog, Accepted

\* Where a stamp names one operation, merging never takes one out of the log.
LEMMA MergeAdds ==
    ASSUME NEW log \in SUBSET Op, NEW ops \in SUBSET Op,
           \A o, p \in log \cup ops : o.hlc = p.hlc => o = p
    PROVE  MergeLog(log, ops) = log \cup Accepted(log, ops)
<1>1. ASSUME NEW p \in log, NEW o \in Accepted(log, ops) PROVE p.hlc # o.hlc
  <2>1. o \in ops /\ NewerThanLog(o, log)
    BY DEF Accepted
  <2>2. SUFFICES ASSUME p.hlc = o.hlc PROVE FALSE
    OBVIOUS
  <2>3. p = o
    BY <2>1, <2>2
  <2>4. Before(p.hlc, p.hlc)
    BY <2>1, <2>3 DEF NewerThanLog
  <2> QED
    BY <2>4, OpFields, BeforeIrreflexive
<1> QED
  BY <1>1 DEF MergeLog

\* After a merge the log holds each of the operations, or something newer about
\* the same entity: nothing that arrives is dropped for any other reason.
LEMMA MergeReflects ==
    ASSUME NEW log \in SUBSET Op, NEW ops \in SUBSET Op,
           \A o, p \in log \cup ops : o.hlc = p.hlc => o = p,
           NEW o \in ops
    PROVE  Reflects(MergeLog(log, ops), o)
<1>1. MergeLog(log, ops) = log \cup Accepted(log, ops)
  BY MergeAdds
<1>2. CASE o \in Accepted(log, ops)
  <2>1. AtMost(o.hlc, o.hlc)
    BY OpFields, BeforeIrreflexive DEF AtMost
  <2> QED
    BY <1>1, <1>2, <2>1 DEF Reflects
<1>3. CASE o \notin Accepted(log, ops)
  BY <1>1, <1>3 DEF Accepted, NewerThanLog, Reflects, AtMost
<1> QED
  BY <1>2, <1>3

\* Tables that follow the log before a merge follow it afterwards, whatever the
\* operations are, in whatever order they were made and however often they come.
LEMMA MergeFollows ==
    ASSUME NEW log \in SUBSET Op, NEW ops \in SUBSET Op,
           \A o, p \in log \cup ops : o.hlc = p.hlc => o = p
    PROVE  MergeRows(LiveRows(log), log, ops) = LiveRows(MergeLog(log, ops))
<1> DEFINE A == Accepted(log, ops)
           after == MergeRows(LiveRows(log), log, ops)
<1>1. MergeLog(log, ops) = log \cup A
  BY MergeAdds
<1>2. A \in SUBSET Op /\ \A o \in A, p \in log : p.entity = o.entity => Before(p.hlc, o.hlc)
  BY DEF Accepted, NewerThanLog
<1>3. /\ \A r \in after : \/ r \in LiveRows(log) /\ \A o \in A : o.entity # r.entity
                          \/ r \in A /\ r.op = "put" /\ NewestOfEntity(r, A)
      /\ \A r \in LiveRows(log) : (\A o \in A : o.entity # r.entity) => r \in after
      /\ \A r \in A : r.op = "put" /\ NewestOfEntity(r, A) => r \in after
  BY DEF MergeRows
<1> HIDE DEF A, after
<1>4. ASSUME NEW r \in after PROVE r \in LiveRows(log \cup A)
  <2>1. CASE r \in LiveRows(log) /\ \A o \in A : o.entity # r.entity
    BY <2>1 DEF LiveRows, NewestOfEntity
  <2>2. CASE r \in A /\ r.op = "put" /\ NewestOfEntity(r, A)
    <3>1. ASSUME NEW p \in log, p.entity = r.entity PROVE AtMost(p.hlc, r.hlc)
      <4>1. Before(p.hlc, r.hlc)
        BY <1>2, <2>2, <3>1
      <4>2. p.hlc \in Stamp /\ r.hlc \in Stamp
        BY <1>2, <2>2, OpFields
      <4> QED
        BY <4>1, <4>2, BeforeAsymmetric DEF AtMost
    <3> QED
      BY <2>2, <3>1 DEF LiveRows, NewestOfEntity
  <2> QED
    BY <1>3, <2>1, <2>2
<1>5. ASSUME NEW r \in LiveRows(log \cup A) PROVE r \in after
  <2>1. r.op = "put" /\ NewestOfEntity(r, log) /\ NewestOfEntity(r, A)
    BY DEF LiveRows, NewestOfEntity
  <2>2. CASE r \in A
    BY <1>3, <2>1, <2>2
  <2>3. CASE r \in log
    <3>1. \A o \in A : o.entity # r.entity
      BY <1>2, <2>1, <2>3 DEF NewestOfEntity, AtMost
    <3> QED
      BY <1>3, <2>1, <2>3, <3>1 DEF LiveRows
  <2> QED
    BY <2>2, <2>3 DEF LiveRows
<1> QED
  BY <1>1, <1>4, <1>5 DEF after

\* Tables that follow the log follow it after a write newer than the log.
LEMMA WriteFollows ==
    ASSUME NEW log \in SUBSET Op, NEW o \in Op, \A p \in log : Before(p.hlc, o.hlc)
    PROVE  /\ o.op = "put" => TablePut(LiveRows(log), o) = LiveRows(log \cup {o})
           /\ o.op = "delete" => TableDelete(LiveRows(log), o.entity) = LiveRows(log \cup {o})
<1>1. /\ AtMost(o.hlc, o.hlc)
      /\ \A p \in log : AtMost(p.hlc, o.hlc) /\ ~AtMost(o.hlc, p.hlc)
  BY OpFields, BeforeIrreflexive, BeforeAsymmetric DEF AtMost
<1>2. NewestOfEntity(o, log \cup {o})
  BY <1>1 DEF NewestOfEntity
<1>3. \A p \in log : NewestOfEntity(p, log \cup {o}) <=> NewestOfEntity(p, log) /\ p.entity # o.entity
  BY <1>1 DEF NewestOfEntity
<1> QED
  BY <1>2, <1>3 DEF LiveRows, TablePut, TableDelete

\* Not newer than something not newer is not newer.
LEMMA AtMostTransitive ==
    ASSUME NEW s \in Stamp, NEW t \in Stamp, NEW u \in Stamp, AtMost(s, t), AtMost(t, u)
    PROVE  AtMost(s, u)
BY BeforeTotal, BeforeTransitive, BeforeIrreflexive DEF AtMost

\* Of two stamps neither of which is newer, both are the same.
LEMMA AtMostAntisymmetric ==
    ASSUME NEW s \in Stamp, NEW t \in Stamp, AtMost(s, t), AtMost(t, s)
    PROVE  s = t
BY BeforeTotal DEF AtMost

\* Leaving out operations something newer stands for changes no row: if every
\* operation of all is reflected in a part of it, both call for the same rows.
LEMMA ReflectedRows ==
    ASSUME NEW all \in SUBSET Op, NEW part \in SUBSET all,
           \A o, p \in all : o.hlc = p.hlc => o = p,
           \A o \in all : Reflects(part, o)
    PROVE  LiveRows(part) = LiveRows(all)
<1>1. \A o \in all : o.hlc \in Stamp
  BY OpFields
<1>2. ASSUME NEW r \in LiveRows(part) PROVE r \in LiveRows(all)
  <2>1. r \in part /\ r.op = "put" /\ NewestOfEntity(r, part)
    BY DEF LiveRows
  <2>2. ASSUME NEW o \in all, o.entity = r.entity PROVE AtMost(o.hlc, r.hlc)
    <3>1. PICK p \in part : p.entity = o.entity /\ AtMost(o.hlc, p.hlc)
      BY DEF Reflects
    <3>2. AtMost(p.hlc, r.hlc)
      BY <2>1, <2>2, <3>1 DEF NewestOfEntity
    <3> QED
      BY <1>1, <2>1, <3>1, <3>2, AtMostTransitive
  <2> QED
    BY <2>1, <2>2 DEF LiveRows, NewestOfEntity
<1>3. ASSUME NEW r \in LiveRows(all) PROVE r \in LiveRows(part)
  <2>1. r \in all /\ r.op = "put" /\ NewestOfEntity(r, all)
    BY DEF LiveRows
  <2>2. PICK p \in part : p.entity = r.entity /\ AtMost(r.hlc, p.hlc)
    BY <2>1 DEF Reflects
  <2>3. AtMost(p.hlc, r.hlc)
    BY <2>1, <2>2 DEF NewestOfEntity
  <2>4. p = r
    BY <1>1, <2>1, <2>2, <2>3, AtMostAntisymmetric
  <2> QED
    BY <2>1, <2>2, <2>4 DEF LiveRows, NewestOfEntity
<1> QED
  BY <1>2, <1>3

\* An operation is reflected in a log that holds it.
LEMMA ReflectsMember ==
    ASSUME NEW log \in SUBSET Op, NEW o \in log
    PROVE  Reflects(log, o)
<1>1. AtMost(o.hlc, o.hlc)
  BY OpFields, BeforeIrreflexive DEF AtMost
<1> QED
  BY <1>1 DEF Reflects

\* A log that grows goes on reflecting what it reflected.
LEMMA ReflectsMore ==
    ASSUME NEW log, NEW more, log \subseteq more, NEW o, Reflects(log, o)
    PROVE  Reflects(more, o)
BY DEF Reflects

\* What a device shows after merging two batches is what all the operations
\* together call for: the order in which devices learn of each other's writes
\* leaves no trace, and neither does learning of one twice.
THEOREM MergeOrderIrrelevant ==
    ASSUME NEW log \in SUBSET Op, NEW A \in SUBSET Op, NEW B \in SUBSET Op,
           \A o, p \in log \cup A \cup B : o.hlc = p.hlc => o = p
    PROVE  /\ LiveRows(MergeLog(MergeLog(log, A), B)) = LiveRows(log \cup A \cup B)
           /\ LiveRows(MergeLog(MergeLog(log, B), A)) = LiveRows(log \cup A \cup B)
<1>1. ASSUME NEW X \in SUBSET Op, NEW Y \in SUBSET Op, X \cup Y = A \cup B
      PROVE  LiveRows(MergeLog(MergeLog(log, X), Y)) = LiveRows(log \cup A \cup B)
  <2> DEFINE first == MergeLog(log, X)
             second == MergeLog(first, Y)
             all == log \cup A \cup B
  <2>1. all \in SUBSET Op /\ log \cup X \subseteq all /\ Y \subseteq all
    BY <1>1
  <2>2. first = log \cup Accepted(log, X) /\ \A o \in X : Reflects(first, o)
    BY <2>1, MergeAdds, MergeReflects
  <2>3. first \in SUBSET Op /\ log \subseteq first /\ first \subseteq all
    BY <2>1, <2>2 DEF Accepted
  <2> HIDE DEF first
  <2>4. second = first \cup Accepted(first, Y) /\ \A o \in Y : Reflects(second, o)
    BY <2>1, <2>3, MergeAdds, MergeReflects
  <2>5. second \in SUBSET all /\ first \subseteq second
    BY <2>1, <2>3, <2>4 DEF Accepted
  <2> HIDE DEF second
  <2>6. ASSUME NEW o \in all PROVE Reflects(second, o)
    <3>1. CASE o \in log
      BY <2>1, <2>3, <2>5, <3>1, ReflectsMember
    <3>2. CASE o \in X
      BY <2>2, <2>5, <3>2, ReflectsMore
    <3>3. CASE o \in Y
      BY <2>4, <3>3
    <3> QED
      BY <1>1, <3>1, <3>2, <3>3
  <2> QED
    BY <2>1, <2>5, <2>6, ReflectedRows DEF second, first
<1> QED
  BY <1>1

----------------------------------------------------------------------------
\* What the operators of the model return.

\* The names of stored objects are names, and so are those a prune selects.
LEMMA ListType ==
    ASSUME remote \in SUBSET Object
    PROVE  /\ \A kind : List(kind) \in SUBSET Name
           /\ \A watermark : Superseded(watermark) \in SUBSET Name
           /\ \A names \in SUBSET Name : First(names) \in SUBSET Name /\ Last(names) \in SUBSET Name
<1>1. \A kind : List(kind) \in SUBSET Name
  BY DEF List, Object
<1> QED
  BY <1>1 DEF Superseded, First, Last

\* The stamps and the parts of a set of operations.
LEMMA SliceType ==
    ASSUME NEW ops \in SUBSET Op, NEW k
    PROVE  /\ OldestOps(ops, k) \in SUBSET ops
           /\ HeadOf(ops) \in SUBSET Stamp
           /\ {o.hlc : o \in ops} \in SUBSET Stamp
<1>1. {o.hlc : o \in ops} \in SUBSET Stamp
  BY OpFields
<1> QED
  BY <1>1 DEF OldestOps, HeadOf, Newest

\* What a device uploads is an object.
LEMMA UploadType ==
    ASSUME TypeOK, NEW d \in Devices
    PROVE  /\ Slice(d) \in SUBSET Op
           /\ OpsObjects(d) \in SUBSET Object
           /\ SnapshotObjects(d) \in SUBSET Object
<1>1. batch[d] \in SUBSET Op /\ rows[d] \in SUBSET Op /\ mark[d] \in SUBSET Stamp
  BY DEF TypeOK
<1>2. Slice(d) \in SUBSET Op /\ HeadOf(Slice(d)) \in SUBSET Stamp
  BY <1>1, SliceType DEF Slice
<1>3. OpsObjects(d) \in SUBSET Object
  BY <1>2 DEF OpsObjects, opsObjectName, Object, Name
<1>4. SnapshotObjects(d) \in SUBSET Object
  BY <1>1 DEF SnapshotObjects, snapshotObjectName, Object, Name
<1> QED
  BY <1>2, <1>3, <1>4

----------------------------------------------------------------------------
\* Types.

\* Every state of the system has its types, initially ...
LEMMA TypeInit == Init => TypeOK
BY StampTypes, SyncAssumption DEF Init, TypeOK, Steps

\* The end of a cycle leaves the types of what it resets.
LEMMA EndCycleType ==
    ASSUME TypeOK, NEW d \in Devices, NEW outcome \in {"idle", "syncing", "retry", "error"},
           EndCycle(d, outcome)
    PROVE  /\ pc' \in [Devices -> Steps]
           /\ status' \in [Devices -> {"idle", "syncing", "retry", "error"}]
           /\ mark' \in [Devices -> SUBSET Stamp]
           /\ todo' \in [Devices -> SUBSET Name]
           /\ got' \in [Devices -> SUBSET Object]
           /\ heads' \in [Devices -> SUBSET Stamp]
           /\ batch' \in [Devices -> SUBSET Op]
BY DEF TypeOK, EndCycle, ForgetLocals, Goto, Steps

\* An object is made of its parts.
LEMMA ObjectFields ==
    ASSUME NEW b \in Object
    PROVE  b.name \in Name /\ b.name.stamp \in Stamp /\ b.device \in Devices /\ b.ops \in SUBSET Op
BY DEF Object, Name

\* ... after a step that brings writes in,
LEMMA TypePull ==
    ASSUME TypeOK, NEW d \in Devices,
           ListSnapshots(d) \/ ApplySnapshot(d) \/ RecordSnapshot(d) \/ NoteSnapshot(d)
             \/ ListOps(d) \/ GetObject(d) \/ ObserveHead(d) \/ Merge(d) \/ RecordApplied(d)
    PROVE  TypeOK'
<1>1. CASE ListSnapshots(d)
  BY <1>1, ListType DEF TypeOK, ListSnapshots, Goto, Steps, db, world
<1>2. CASE ApplySnapshot(d)
  <2>1. PICK o \in remote :
          /\ ~ObserveThrows(mem[d], wall[d], o.name.stamp)
          /\ mem' = [mem EXCEPT ![d] = Observe(mem[d], wall[d], o.name.stamp)]
          /\ disk' = [disk EXCEPT ![d] = IF o.ops = {} THEN @ ELSE Observe(mem[d], wall[d], o.name.stamp)]
          /\ rows' = [rows EXCEPT ![d] = MergeRows(@, oplog[d], o.ops)]
          /\ oplog' = [oplog EXCEPT ![d] = MergeLog(@, o.ops)]
    BY <1>2 DEF ApplySnapshot
  <2>2. /\ o.name.stamp \in Stamp /\ o.ops \in SUBSET Op
        /\ mem[d] \in HlcState /\ wall[d] \in Nat
        /\ rows[d] \in SUBSET Op /\ oplog[d] \in SUBSET Op
    BY ObjectFields DEF TypeOK
  <2>3. Observe(mem[d], wall[d], o.name.stamp) \in HlcState
    BY <2>1, <2>2, ObserveCovers
  <2>4. MergeRows(rows[d], oplog[d], o.ops) \in SUBSET Op /\ MergeLog(oplog[d], o.ops) \in SUBSET Op
    BY <2>2, MergeType
  <2>5. /\ mem' \in [Devices -> HlcState] /\ disk' \in [Devices -> HlcState]
        /\ rows' \in [Devices -> SUBSET Op] /\ oplog' \in [Devices -> SUBSET Op]
    BY <2>1, <2>3, <2>4 DEF TypeOK
  <2> QED
    BY <1>2, <2>5 DEF TypeOK, ApplySnapshot, Goto, Steps, world
<1>3. CASE RecordSnapshot(d)
  BY <1>3 DEF TypeOK, RecordSnapshot, Goto, Steps, world
<1>4. CASE NoteSnapshot(d)
  <2>1. {n.stamp : n \in todo[d]} \in SUBSET Stamp
    BY DEF TypeOK, Name
  <2> QED
    BY <1>4, <2>1 DEF TypeOK, NoteSnapshot, Goto, Steps, world
<1>5. CASE ListOps(d)
  BY <1>5, ListType DEF TypeOK, ListOps, Goto, Steps, world
<1>6. CASE GetObject(d)
  <2>1. PICK o \in remote :
          /\ todo' = [todo EXCEPT ![d] = @ \ {o.name}]
          /\ got' = [got EXCEPT ![d] = @ \cup {o}]
          /\ heads' = [heads EXCEPT ![d] = IF o.device = d THEN @ ELSE @ \cup {o.name.stamp}]
    BY <1>6 DEF GetObject
  <2>2. o \in Object /\ o.name.stamp \in Stamp
    BY ObjectFields DEF TypeOK
  <2>3. /\ todo' \in [Devices -> SUBSET Name]
        /\ got' \in [Devices -> SUBSET Object]
        /\ heads' \in [Devices -> SUBSET Stamp]
    BY <2>1, <2>2 DEF TypeOK
  <2> QED
    BY <1>6, <2>3 DEF TypeOK, GetObject, db, world
<1>7. CASE ObserveHead(d)
  <2>1. PICK head \in heads[d] :
          /\ ~ObserveThrows(mem[d], wall[d], head)
          /\ mem' = [mem EXCEPT ![d] = Observe(mem[d], wall[d], head)]
          /\ heads' = [heads EXCEPT ![d] = @ \ {head}]
    BY <1>7 DEF ObserveHead, Oldest
  <2>2. head \in Stamp /\ mem[d] \in HlcState /\ wall[d] \in Nat
    BY DEF TypeOK
  <2>3. Observe(mem[d], wall[d], head) \in HlcState
    BY <2>1, <2>2, ObserveCovers
  <2>4. mem' \in [Devices -> HlcState] /\ heads' \in [Devices -> SUBSET Stamp]
    BY <2>1, <2>3 DEF TypeOK
  <2> QED
    BY <1>7, <2>4 DEF TypeOK, ObserveHead, db, world
<1>8. CASE Merge(d)
  <2> DEFINE ops == UNION {o.ops : o \in {x \in got[d] : x.device # d}}
  <2>1. got[d] \in SUBSET Object /\ rows[d] \in SUBSET Op /\ oplog[d] \in SUBSET Op
    BY DEF TypeOK
  <2>2. ops \in SUBSET Op
    BY <2>1, ObjectFields
  <2>3. /\ rows' = [rows EXCEPT ![d] = MergeRows(rows[d], oplog[d], ops)]
        /\ oplog' = [oplog EXCEPT ![d] = MergeLog(oplog[d], ops)]
        /\ disk' = [disk EXCEPT ![d] = IF ops = {} THEN @ ELSE mem[d]]
    BY <1>8 DEF Merge
  <2> HIDE DEF ops
  <2>4. MergeRows(rows[d], oplog[d], ops) \in SUBSET Op /\ MergeLog(oplog[d], ops) \in SUBSET Op
    BY <2>1, <2>2, MergeType
  <2>5. /\ rows' \in [Devices -> SUBSET Op] /\ oplog' \in [Devices -> SUBSET Op]
        /\ disk' \in [Devices -> HlcState]
    BY <2>3, <2>4 DEF TypeOK
  <2> QED
    BY <1>8, <2>5 DEF TypeOK, Merge, Goto, Steps, world
<1>9. CASE RecordApplied(d)
  <2>1. {o.name : o \in got[d]} \in SUBSET Name
    BY ObjectFields DEF TypeOK
  <2> QED
    BY <1>9, <2>1 DEF TypeOK, RecordApplied, Goto, Steps, world
<1> QED
  BY <1>1, <1>2, <1>3, <1>4, <1>5, <1>6, <1>7, <1>8, <1>9

\* A put leaves objects at the destination.
LEMMA PutType ==
    ASSUME TypeOK, NEW b \in Object, PutObject(b)
    PROVE  remote' \in SUBSET Object
BY DEF TypeOK, PutObject

\* ... after a step that sends writes out,
LEMMA TypePush ==
    ASSUME TypeOK, NEW d \in Devices,
           CapturePending(d) \/ Upload(d) \/ RecordOwn(d) \/ MarkSynced(d)
    PROVE  TypeOK'
<1>1. CASE CapturePending(d)
  BY <1>1, SliceType DEF TypeOK, CapturePending, Goto, Steps, db, world
<1>2. CASE Upload(d)
  <2>1. remote' \in SUBSET Object
    BY <1>2, UploadType, PutType DEF Upload
  <2> QED
    BY <1>2, <2>1 DEF TypeOK, Upload, Goto, Steps, db
<1>3. CASE RecordOwn(d)
  <2>1. {b.name : b \in OpsObjects(d)} \in SUBSET Name
    BY UploadType, ObjectFields
  <2> QED
    BY <1>3, <2>1 DEF TypeOK, RecordOwn, Goto, Steps, world
<1>4. CASE MarkSynced(d)
  BY <1>4 DEF TypeOK, MarkSynced, Goto, Steps, world
<1> QED
  BY <1>1, <1>2, <1>3, <1>4

\* ... after a step that takes a snapshot or prunes what it covers,
LEMMA TypeSnapshot ==
    ASSUME TypeOK, NEW d \in Devices,
           Threshold(d) \/ PutSnapshot(d) \/ RecordOwnSnapshot(d) \/ NoteOwnSnapshot(d)
             \/ ListSuperseded(d) \/ RemoveSuperseded(d)
    PROVE  TypeOK'
<1>1. CASE Threshold(d)
  <2>1. HeadOf(oplog[d]) \in SUBSET Stamp
    BY SliceType DEF TypeOK
  <2>2. mark' \in [Devices -> SUBSET Stamp] /\ pc' \in [Devices -> Steps]
    BY <1>1, <2>1 DEF TypeOK, Threshold, Goto, Steps
  <2> QED
    BY <1>1, <2>2 DEF TypeOK, Threshold, db, world
<1>2. CASE PutSnapshot(d)
  <2>1. remote' \in SUBSET Object
    BY <1>2, UploadType, PutType DEF PutSnapshot
  <2> QED
    BY <1>2, <2>1 DEF TypeOK, PutSnapshot, Goto, Steps, db
<1>3. CASE RecordOwnSnapshot(d)
  <2>1. {snapshotObjectName(w) : w \in mark[d]} \in SUBSET Name
    BY DEF TypeOK, Name, snapshotObjectName
  <2> QED
    BY <1>3, <2>1 DEF TypeOK, RecordOwnSnapshot, Goto, Steps, world
<1>4. CASE NoteOwnSnapshot(d)
  BY <1>4 DEF TypeOK, NoteOwnSnapshot, Goto, Steps, world
<1>5. CASE ListSuperseded(d)
  BY <1>5, ListType DEF TypeOK, ListSuperseded, Goto, Steps, db, world
<1>6. CASE RemoveSuperseded(d)
  BY <1>6 DEF TypeOK, RemoveSuperseded
<1> QED
  BY <1>1, <1>2, <1>3, <1>4, <1>5, <1>6

\* ... after the first and the last step of a cycle and after a fault,
LEMMA TypeCycleEnds ==
    ASSUME TypeOK, NEW d \in Devices,
           Begin(d) \/ Finish(d) \/ ObserveError(d) \/ ObjectGone(d) \/ PutError(d) \/ FaultStep(d)
    PROVE  TypeOK'
<1>1. CASE Begin(d)
  BY <1>1 DEF TypeOK, Begin, Goto, Steps, db, world
<1>2. CASE Finish(d) \/ ObserveError(d) \/ ObjectGone(d) \/ PutError(d)
  BY <1>2, EndCycleType DEF TypeOK, Finish, ObserveError, ObjectGone, PutError, db, world
<1>3. CASE AbortedWrite(d)
  <2>1. Tick(mem[d], wall[d]) \in HlcState
    BY <1>3, TickAdvances DEF TypeOK, AbortedWrite, Fault
  <2> QED
    BY <1>3, <2>1 DEF TypeOK, AbortedWrite, Fault, db, cycle
<1>4. CASE RequestFails(d)
  BY <1>4, EndCycleType DEF TypeOK, RequestFails, Fault, db
<1>5. CASE PutReplyLost(d)
  <2>1. remote' \in SUBSET Object
    BY <1>5, UploadType, PutType DEF PutReplyLost
  <2> QED
    BY <1>5, <2>1, EndCycleType DEF TypeOK, PutReplyLost, Fault, db
<1>6. CASE PruneFails(d)
  <2>1. remote' \in SUBSET Object
    BY <1>6 DEF TypeOK, PruneFails
  <2> QED
    BY <1>6, <2>1 DEF TypeOK, PruneFails, Fault, Goto, Steps, db
<1>7. CASE Crash(d)
  BY <1>7, EndCycleType DEF TypeOK, Crash, RestoredClock, Fault, db
<1>8. CASE SetBack(d)
  BY <1>8 DEF TypeOK, SetBack, Fault, db, cycle
<1> QED
  BY <1>1, <1>2, <1>3, <1>4, <1>5, <1>6, <1>7, <1>8 DEF FaultStep

\* The operation a write logs.
Written(d, e, kind) ==
    [hlc |-> encodeHlc(Tick(mem[d], wall[d]), d), entity |-> e, op |-> kind]

\* A write stamps an operation from a clock that has advanced.
LEMMA WrittenType ==
    ASSUME TypeOK, NEW d \in Devices, NEW e \in Entities, NEW kind \in {"put", "delete"},
           Write(d, e, kind)
    PROVE  /\ Tick(mem[d], wall[d]) \in HlcState
           /\ Written(d, e, kind).hlc \in Stamp
           /\ Written(d, e, kind) \in Op
<1>1. Tick(mem[d], wall[d]) \in HlcState
  BY TickAdvances DEF TypeOK, Write
<1>2. encodeHlc(Tick(mem[d], wall[d]), d) \in Stamp
  BY <1>1, StampTypes
<1> QED
  BY <1>1, <1>2 DEF Written, Op

\* ... and after a user's write.
LEMMA TypeWrite ==
    ASSUME TypeOK, NEW d \in Devices, NEW e \in Entities, NEW kind \in {"put", "delete"},
           Write(d, e, kind)
    PROVE  TypeOK'
<1> DEFINE o == Written(d, e, kind)
<1>1. /\ mem' = [mem EXCEPT ![d] = Tick(mem[d], wall[d])]
      /\ rows' = [rows EXCEPT ![d] = IF kind = "put" THEN TablePut(@, o) ELSE TableDelete(@, e)]
      /\ oplog' = [oplog EXCEPT ![d] = OplogPut(@, o)]
      /\ unsynced' = [unsynced EXCEPT ![d] = @ \cup {o.hlc}]
      /\ disk' = [disk EXCEPT ![d] = Tick(mem[d], wall[d])]
      /\ authored' = authored \cup {o}
  BY DEF Write, Written
<1>2. Tick(mem[d], wall[d]) \in HlcState /\ o.hlc \in Stamp /\ o \in Op
  BY WrittenType
<1> HIDE DEF o
<1>3. /\ mem' \in [Devices -> HlcState] /\ disk' \in [Devices -> HlcState]
      /\ unsynced' \in [Devices -> SUBSET Stamp] /\ authored' \in SUBSET Op
  BY <1>1, <1>2 DEF TypeOK
<1>4. TablePut(rows[d], o) \in SUBSET Op /\ TableDelete(rows[d], e) \in SUBSET Op
      /\ OplogPut(oplog[d], o) \in SUBSET Op
  BY <1>2 DEF TypeOK, TablePut, TableDelete, OplogPut
<1>5. rows' \in [Devices -> SUBSET Op] /\ oplog' \in [Devices -> SUBSET Op]
  BY <1>1, <1>4 DEF TypeOK
<1> QED
  BY <1>3, <1>5 DEF TypeOK, Write, cycle

\* Every variable keeps its type, in every behaviour: in particular a clock
\* never passes MaxCounter, the field its stamps are encoded in.
THEOREM TypeCorrect == Spec => []TypeOK
<1>1. TypeOK /\ [Next]_vars => TypeOK'
  <2> SUFFICES ASSUME TypeOK, [Next]_vars PROVE TypeOK'
    OBVIOUS
  <2>1. CASE UNCHANGED vars
    BY <2>1 DEF TypeOK, vars, db, cycle, world
  <2>2. ASSUME NEW d \in Devices, CycleStep(d) PROVE TypeOK'
    BY <2>2, TypePull, TypePush, TypeSnapshot, TypeCycleEnds DEF CycleStep
  <2>3. ASSUME NEW d \in Devices, UserStep(d) PROVE TypeOK'
    BY <2>3, TypeWrite DEF UserStep, Put, Remove
  <2>4. ASSUME NEW d \in Devices, FaultStep(d) PROVE TypeOK'
    BY <2>4, TypeCycleEnds
  <2>5. ASSUME NEW d \in Devices, Advance(d) PROVE TypeOK'
    BY <2>5 DEF TypeOK, Advance, db, cycle
  <2> QED
    BY <2>1, <2>2, <2>3, <2>4, <2>5 DEF Next
<1> QED
  BY TypeInit, <1>1, PTL DEF Spec

----------------------------------------------------------------------------
\* Clocks and stamps.

\* What is persisted is never ahead of what is in memory, so that restoring it
\* after a crash loses no tick that was written down.
ClockKept == \A d \in Devices : NotAhead(disk[d], mem[d])

\* Every write is covered by the persisted clock of the device that made it.
WritesCovered == \A o \in authored : NotAhead(decodeHlc(o.hlc), disk[o.hlc.device])

StampInv == TypeOK /\ ClockKept /\ WritesCovered /\ StampsUnique

\* A clock that moves forward covers what it covered.
LEMMA CoversMore ==
    ASSUME NEW s \in Stamp, NEW a \in HlcState, NEW b \in HlcState,
           NotAhead(decodeHlc(s), a), NotAhead(a, b)
    PROVE  NotAhead(decodeHlc(s), b)
BY StampTypes, NotAheadTransitive

\* A step that stamps nothing preserves the invariant if the persisted clocks
\* only move forward and stay behind those in memory.
LEMMA StampInvKept ==
    ASSUME StampInv, TypeOK', UNCHANGED authored,
           \A d \in Devices : NotAhead(disk[d], disk'[d]) /\ NotAhead(disk'[d], mem'[d])
    PROVE  StampInv'
<1>1. ClockKept'
  BY DEF ClockKept
<1>2. ASSUME NEW o \in authored PROVE NotAhead(decodeHlc(o.hlc), disk'[o.hlc.device])
  <2>1. o.hlc \in Stamp /\ o.hlc.device \in Devices
    BY OpFields, StampFields DEF StampInv, TypeOK
  <2>2. disk[o.hlc.device] \in HlcState /\ disk'[o.hlc.device] \in HlcState
    BY <2>1 DEF StampInv, TypeOK
  <2> QED
    BY <2>1, <2>2, CoversMore DEF StampInv, WritesCovered
<1>3. WritesCovered'
  BY <1>2 DEF WritesCovered
<1> QED
  BY <1>1, <1>3 DEF StampInv, StampsUnique

\* A write stamps past everything its device has stamped.
LEMMA StampInvWrite ==
    ASSUME StampInv, NEW d \in Devices, NEW e \in Entities, NEW kind \in {"put", "delete"},
           Write(d, e, kind)
    PROVE  StampInv' /\ \A p \in authored : p.hlc # Written(d, e, kind).hlc
<1> DEFINE clock == Tick(mem[d], wall[d])
           o == Written(d, e, kind)
<1>1. /\ mem' = [mem EXCEPT ![d] = clock] /\ disk' = [disk EXCEPT ![d] = clock]
      /\ authored' = authored \cup {o}
      /\ ~TickThrows(mem[d], wall[d])
  BY DEF Write, Written
<1>2. TypeOK /\ TypeOK'
  BY TypeWrite DEF StampInv
<1>3. mem[d] \in HlcState /\ disk[d] \in HlcState /\ wall[d] \in Nat
  BY <1>2 DEF TypeOK
<1>4. clock \in HlcState /\ NotAhead(mem[d], clock)
  BY <1>1, <1>3, TickAdvances
<1>5. NotAhead(disk[d], mem[d])
  BY DEF StampInv, ClockKept
<1>6. o.hlc = encodeHlc(clock, d) /\ o.hlc.device = d /\ decodeHlc(o.hlc) = clock
  BY <1>4 DEF Written, encodeHlc, decodeHlc, HlcState
<1> HIDE DEF clock, o
<1>7. \A c \in Devices : NotAhead(disk[c], disk'[c]) /\ NotAhead(disk'[c], mem'[c])
  <2> TAKE c \in Devices
  <2>1. CASE c = d
    <3>1. disk'[c] = clock /\ mem'[c] = clock
      BY <1>1, <1>2, <2>1 DEF TypeOK
    <3> QED
      BY <1>3, <1>4, <1>5, <2>1, <3>1, NotAheadTransitive, NotAheadReflexive
  <2>2. CASE c # d
    <3>1. disk'[c] = disk[c] /\ mem'[c] = mem[c] /\ disk[c] \in HlcState
      BY <1>1, <1>2, <2>2 DEF TypeOK
    <3> QED
      BY <3>1, NotAheadReflexive DEF StampInv, ClockKept
  <2> QED
    BY <2>1, <2>2
<1>8. ASSUME NEW p \in authored
      PROVE  /\ NotAhead(decodeHlc(p.hlc), disk'[p.hlc.device])
             /\ p.hlc # o.hlc
  <2>1. p.hlc \in Stamp /\ p.hlc.device \in Devices
    BY <1>2, OpFields, StampFields DEF TypeOK
  <2>2. NotAhead(decodeHlc(p.hlc), disk[p.hlc.device])
    BY DEF StampInv, WritesCovered
  <2>3. disk[p.hlc.device] \in HlcState /\ disk'[p.hlc.device] \in HlcState
    BY <1>2, <2>1 DEF TypeOK
  <2>4. NotAhead(decodeHlc(p.hlc), disk'[p.hlc.device])
    BY <1>7, <2>1, <2>2, <2>3, CoversMore
  <2>5. CASE p.hlc.device = d
    <3>1. NotAhead(decodeHlc(p.hlc), mem[d])
      BY <1>3, <1>5, <2>1, <2>2, <2>5, CoversMore
    <3>2. Before(p.hlc, o.hlc)
      BY <1>1, <1>3, <1>6, <2>1, <3>1, TickIsNewer DEF clock
    <3> QED
      BY <2>1, <2>4, <3>2, BeforeIrreflexive
  <2>6. CASE p.hlc.device # d
    BY <1>6, <2>4, <2>6
  <2> QED
    BY <2>5, <2>6
<1>9. NotAhead(decodeHlc(o.hlc), disk'[o.hlc.device])
  BY <1>1, <1>2, <1>4, <1>6, NotAheadReflexive DEF TypeOK
<1>10. WritesCovered'
  BY <1>1, <1>8, <1>9 DEF WritesCovered
<1>11. StampsUnique'
  BY <1>1, <1>8 DEF StampInv, StampsUnique
<1>12. StampInv'
  BY <1>2, <1>7, <1>10, <1>11 DEF StampInv, ClockKept
<1> QED
  BY <1>8, <1>12 DEF o

\* Any other step moves the persisted clocks forward, or not at all.
LEMMA StampInvOther ==
    ASSUME StampInv, TypeOK', NEW d \in Devices,
           CycleStep(d) \/ FaultStep(d) \/ Advance(d)
    PROVE  StampInv'
<1>1. /\ mem \in [Devices -> HlcState] /\ disk \in [Devices -> HlcState]
      /\ \A c \in Devices : NotAhead(disk[c], mem[c])
      /\ \A c \in Devices : NotAhead(disk[c], disk[c]) /\ NotAhead(mem[c], mem[c])
  BY NotAheadReflexive DEF StampInv, TypeOK, ClockKept
<1>2. ASSUME NEW clock \in HlcState, NotAhead(mem[d], clock), UNCHANGED authored,
             mem' = [mem EXCEPT ![d] = clock],
             disk' = [disk EXCEPT ![d] = clock] \/ UNCHANGED disk
      PROVE  StampInv'
  <2>1. NotAhead(disk[d], clock) /\ NotAhead(clock, clock)
    BY <1>1, <1>2, NotAheadTransitive, NotAheadReflexive
  <2>2. \A c \in Devices : NotAhead(disk[c], disk'[c]) /\ NotAhead(disk'[c], mem'[c])
    BY <1>1, <1>2, <2>1
  <2> QED
    BY <1>2, <2>2, StampInvKept
<1>3. CASE ApplySnapshot(d)
  <2>1. PICK o \in remote :
          /\ ~ObserveThrows(mem[d], wall[d], o.name.stamp)
          /\ mem' = [mem EXCEPT ![d] = Observe(mem[d], wall[d], o.name.stamp)]
          /\ disk' = [disk EXCEPT ![d] = IF o.ops = {} THEN @ ELSE Observe(mem[d], wall[d], o.name.stamp)]
    BY <1>3 DEF ApplySnapshot
  <2>2. o.name.stamp \in Stamp /\ mem[d] \in HlcState /\ wall[d] \in Nat
    BY ObjectFields DEF StampInv, TypeOK
  <2> DEFINE clock == Observe(mem[d], wall[d], o.name.stamp)
  <2>3. clock \in HlcState /\ NotAhead(mem[d], clock)
    BY <2>1, <2>2, ObserveCovers
  <2>4. disk' = [disk EXCEPT ![d] = clock] \/ UNCHANGED disk
    BY <1>1, <2>1
  <2> HIDE DEF clock
  <2> QED
    BY <1>2, <1>3, <2>1, <2>3, <2>4 DEF ApplySnapshot, world, clock
<1>4. CASE ObserveHead(d)
  <2>1. PICK head \in heads[d] :
          /\ ~ObserveThrows(mem[d], wall[d], head)
          /\ mem' = [mem EXCEPT ![d] = Observe(mem[d], wall[d], head)]
    BY <1>4 DEF ObserveHead, Oldest
  <2>2. head \in Stamp /\ mem[d] \in HlcState /\ wall[d] \in Nat
    BY DEF StampInv, TypeOK
  <2>3. Observe(mem[d], wall[d], head) \in HlcState /\ NotAhead(mem[d], Observe(mem[d], wall[d], head))
    BY <2>1, <2>2, ObserveCovers
  <2> QED
    BY <1>2, <1>4, <2>1, <2>3 DEF ObserveHead, db, world
<1>5. CASE AbortedWrite(d)
  <2>1. Tick(mem[d], wall[d]) \in HlcState /\ NotAhead(mem[d], Tick(mem[d], wall[d]))
    BY <1>5, TickAdvances DEF AbortedWrite, StampInv, TypeOK
  <2> QED
    BY <1>2, <1>5, <2>1 DEF AbortedWrite, db
<1>6. CASE Merge(d)
  <2>1. \E b \in BOOLEAN : disk' = [disk EXCEPT ![d] = IF b THEN @ ELSE mem[d]]
    BY <1>6 DEF Merge
  <2>2. \A c \in Devices : NotAhead(disk[c], disk'[c]) /\ NotAhead(disk'[c], mem'[c])
    BY <1>1, <1>6, <2>1 DEF Merge
  <2> QED
    BY <1>6, <2>2, StampInvKept DEF Merge, world
<1>7. CASE Crash(d)
  <2>1. \A c \in Devices : NotAhead(disk[c], disk'[c]) /\ NotAhead(disk'[c], mem'[c])
    BY <1>1, <1>7 DEF Crash, RestoredClock, db
  <2> QED
    BY <1>7, <2>1, StampInvKept DEF Crash
<1>8. CASE UNCHANGED <<mem, disk, authored>>
  BY <1>1, <1>8, StampInvKept
<1> QED
  BY <1>3, <1>4, <1>5, <1>6, <1>7, <1>8
  DEF CycleStep, FaultStep, Begin, ListSnapshots, RecordSnapshot, NoteSnapshot, ListOps,
      GetObject, RecordApplied, CapturePending, Upload, RecordOwn, MarkSynced, Threshold,
      PutSnapshot, RecordOwnSnapshot, NoteOwnSnapshot, ListSuperseded, RemoveSuperseded,
      Finish, ObserveError, ObjectGone, PutError, RequestFails, PutReplyLost, PruneFails,
      SetBack, Advance, db, world

\* The invariant about clocks and stamps is one.
LEMMA StampInvariant == Spec => []StampInv
<1>1. Init => StampInv
  <2> SUFFICES ASSUME Init PROVE StampInv
    OBVIOUS
  <2>1. \A d \in Devices : NotAhead(ZeroClock, ZeroClock)
    BY StampTypes, NotAheadReflexive
  <2> QED
    BY <2>1, TypeInit DEF Init, StampInv, ClockKept, WritesCovered, StampsUnique
<1>2. StampInv /\ TypeOK' /\ [Next]_vars => StampInv'
  <2> SUFFICES ASSUME StampInv, TypeOK', [Next]_vars PROVE StampInv'
    OBVIOUS
  <2>1. CASE UNCHANGED vars
    BY <2>1 DEF StampInv, ClockKept, WritesCovered, StampsUnique, vars, db, world
  <2>2. ASSUME NEW d \in Devices, UserStep(d) PROVE StampInv'
    BY <2>2, StampInvWrite DEF UserStep, Put, Remove
  <2> QED
    BY <2>1, <2>2, StampInvOther DEF Next
<1> QED
  BY TypeCorrect, <1>1, <1>2, PTL DEF Spec

\* No two writes ever carry the same stamp, on any number of devices, whatever
\* their wall clocks do and however often they crash: the clock is persisted
\* with the write, and what is merged only moves it forward.
THEOREM StampsAreUnique == Spec => []StampsUnique
<1>1. StampInv => StampsUnique
  BY DEF StampInv
<1> QED
  BY StampInvariant, <1>1, PTL
----------------------------------------------------------------------------
\* Snapshots, at any destination, with any number of devices pruning at once.

\* A snapshot at least as new as w is at the destination.
Kept(w) == \E n \in Stored : n.kind = "snapshot" /\ AtMost(w, n.stamp)

Fetching == {"getSnapshot", "recordSnapshot", "noteSnapshot"}
Pruning == {"recordOwnSnapshot", "noteOwnSnapshot", "prune", "remove"}

\* What a device is about to remember is kept, as what it remembers is; and what it is
\* about to remove is older than the one snapshot it has just put.
SnapshotsOf(d) ==
    /\ \A w \in lastSnap[d] : Kept(w)
    /\ pc[d] \in Fetching => \A n \in todo[d] : Kept(n.stamp)
    /\ pc[d] \in Pruning => \A w \in mark[d] : Kept(w)
    /\ pc[d] \in Pruning \cup {"putSnapshot"} => \A v, w \in mark[d] : AtMost(v, w)
    /\ pc[d] = "remove" =>
          \A n \in todo[d] : n.kind = "snapshot" => \E w \in mark[d] : Before(n.stamp, w)

SnapshotInv == TypeOK /\ \A d \in Devices : SnapshotsOf(d)

LEMMA AtMostReflexive ==
    ASSUME NEW s \in Stamp
    PROVE  AtMost(s, s)
BY BeforeIrreflexive DEF AtMost

LEMMA StoredTypes ==
    ASSUME TypeOK
    PROVE  \A n \in Stored : n \in Name /\ n.stamp \in Stamp
BY ObjectFields DEF TypeOK, Stored

\* A put adds a name, whatever it replaces.
LEMMA PutKeeps ==
    ASSUME TypeOK, NEW b, PutObject(b)
    PROVE  Stored' = Stored \cup {b.name}
BY DEF Stored, PutObject

\* Removing what is older than the newest snapshot leaves that one, and with it one that
\* is as new as any that was there.
LEMMA PruneKeeps ==
    ASSUME TypeOK, NEW d \in Devices, SnapshotsOf(d), pc[d] = "remove",
           NEW gone \in SUBSET todo[d], remote' = {o \in remote : o.name \notin gone},
           NEW w \in Stamp, Kept(w)
    PROVE  \E n \in Stored' : n.kind = "snapshot" /\ AtMost(w, n.stamp)
<1>1. Stored' = Stored \ gone
  BY DEF Stored
<1>2. PICK n \in Stored : n.kind = "snapshot" /\ AtMost(w, n.stamp)
  BY DEF Kept
<1>3. CASE n \notin gone
  BY <1>1, <1>2, <1>3
<1>4. CASE n \in gone
  <2>1. PICK v \in mark[d] : Before(n.stamp, v)
    BY <1>2, <1>4 DEF SnapshotsOf
  <2>2. PICK m \in Stored : m.kind = "snapshot" /\ AtMost(v, m.stamp)
    BY <2>1 DEF SnapshotsOf, Pruning, Kept
  <2>3. n.stamp \in Stamp /\ m.stamp \in Stamp /\ v \in Stamp
    BY <2>1, StoredTypes DEF TypeOK
  <2>4. AtMost(w, m.stamp)
    BY <1>2, <2>1, <2>2, <2>3, AtMostTransitive, BeforeAsymmetric DEF AtMost
  <2>5. m \notin gone
    <3>1. SUFFICES ASSUME m \in gone PROVE FALSE
      OBVIOUS
    <3>2. PICK u \in mark[d] : Before(m.stamp, u)
      BY <2>2, <3>1 DEF SnapshotsOf
    <3>3. u \in Stamp /\ AtMost(u, v)
      BY <2>1, <3>2 DEF SnapshotsOf, Pruning, TypeOK
    <3>4. AtMost(u, m.stamp)
      BY <2>2, <2>3, <3>3, AtMostTransitive
    <3> QED
      BY <3>2, <3>4 DEF AtMost
  <2> QED
    BY <1>1, <2>2, <2>4, <2>5
<1> QED
  BY <1>3, <1>4

\* No step of any device takes away what is kept.
LEMMA KeptStays ==
    ASSUME SnapshotInv, NEW d \in Devices,
           CycleStep(d) \/ UserStep(d) \/ FaultStep(d) \/ Advance(d),
           NEW w \in Stamp, Kept(w)
    PROVE  Kept(w)'
<1> USE DEF SnapshotInv
<1>1. CASE remote' = remote
  BY <1>1 DEF Kept, Stored
<1>2. ASSUME NEW b, PutObject(b) PROVE Kept(w)'
  BY <1>2, PutKeeps DEF Kept
<1>3. CASE RemoveSuperseded(d)
  <2>1. PICK n \in NextSuperseded(d) : remote' = {o \in remote : o.name # n}
    BY <1>3 DEF RemoveSuperseded
  <2>2. {n} \in SUBSET todo[d] /\ pc[d] = "remove" /\ remote' = {o \in remote : o.name \notin {n}}
    BY <1>3, <2>1 DEF RemoveSuperseded, NextSuperseded, First
  <2> QED
    BY <2>2, PruneKeeps DEF Kept
<1>4. CASE PruneFails(d) /\ remote' # remote
  <2>1. /\ pc[d] = "remove" /\ NextSuperseded(d) \in SUBSET todo[d]
        /\ remote' = {o \in remote : o.name \notin NextSuperseded(d)}
    BY <1>4 DEF PruneFails, NextSuperseded, First
  <2> QED
    BY <2>1, PruneKeeps DEF Kept
<1>5. CASE Upload(d) \/ PutSnapshot(d) \/ PutReplyLost(d)
  BY <1>2, <1>5 DEF Upload, PutSnapshot, PutReplyLost
<1>6. CASE CycleStep(d) /\ remote' # remote
  BY <1>3, <1>5, <1>6 DEF CycleStep, world, Begin, ListSnapshots, ApplySnapshot, RecordSnapshot, NoteSnapshot,
     ListOps, GetObject, ObserveHead, Merge, RecordApplied, CapturePending, RecordOwn, MarkSynced, Threshold,
     RecordOwnSnapshot, NoteOwnSnapshot, ListSuperseded, Finish, ObserveError, ObjectGone, PutError
<1>7. CASE FaultStep(d) /\ remote' # remote
  BY <1>4, <1>5, <1>7 DEF FaultStep, AbortedWrite, RequestFails, Crash, SetBack
<1>8. CASE UserStep(d) \/ Advance(d)
  BY <1>1, <1>8 DEF UserStep, Put, Remove, Write, Advance
<1> QED
  BY <1>1, <1>6, <1>7, <1>8
\* What a step leaves to the other devices.
LEMMA SnapshotFrame ==
    ASSUME TypeOK, NEW d \in Devices, NEW e \in Devices \ {d},
           CycleStep(d) \/ UserStep(d) \/ FaultStep(d) \/ Advance(d)
    PROVE  lastSnap'[e] = lastSnap[e] /\ pc'[e] = pc[e] /\ mark'[e] = mark[e] /\ todo'[e] = todo[e]
<1> USE DEF TypeOK, Goto, EndCycle, ForgetLocals, db, cycle
<1>1. CASE Begin(d) \/ ListSnapshots(d) \/ ApplySnapshot(d) \/ RecordSnapshot(d) \/ NoteSnapshot(d)
             \/ ListOps(d) \/ GetObject(d)
  BY <1>1 DEF Begin, ListSnapshots, ApplySnapshot, RecordSnapshot, NoteSnapshot, ListOps, GetObject
<1>2. CASE ObserveHead(d) \/ Merge(d) \/ RecordApplied(d) \/ CapturePending(d) \/ Upload(d) \/ RecordOwn(d)
             \/ MarkSynced(d)
  BY <1>2 DEF ObserveHead, Merge, RecordApplied, CapturePending, Upload, RecordOwn, MarkSynced
<1>3. CASE Threshold(d) \/ PutSnapshot(d) \/ RecordOwnSnapshot(d) \/ NoteOwnSnapshot(d)
             \/ ListSuperseded(d) \/ RemoveSuperseded(d)
  BY <1>3 DEF Threshold, PutSnapshot, RecordOwnSnapshot, NoteOwnSnapshot, ListSuperseded, RemoveSuperseded
<1>4. CASE Finish(d) \/ ObserveError(d) \/ ObjectGone(d) \/ PutError(d) \/ RequestFails(d) \/ PutReplyLost(d)
             \/ Crash(d) \/ PruneFails(d)
  BY <1>4 DEF Finish, ObserveError, ObjectGone, PutError, RequestFails, PutReplyLost, Crash, PruneFails
<1>5. CASE AbortedWrite(d) \/ SetBack(d) \/ Advance(d) \/ UserStep(d)
  BY <1>5 DEF AbortedWrite, SetBack, Advance, UserStep, Put, Remove, Write
<1> QED
  BY <1>1, <1>2, <1>3, <1>4, <1>5 DEF CycleStep, FaultStep

\* What a step does to its own device.
LEMMA SnapshotLocal ==
    ASSUME SnapshotInv, NEW d \in Devices,
           CycleStep(d) \/ UserStep(d) \/ FaultStep(d) \/ Advance(d)
    PROVE  SnapshotsOf(d)'
<1>1. TypeOK /\ SnapshotsOf(d)
  BY DEF SnapshotInv
<1>2. \A w \in Stamp : Kept(w) => Kept(w)'
  BY KeptStays
<1>3. \A w \in lastSnap[d] : w \in Stamp /\ Kept(w)
  BY <1>1 DEF SnapshotsOf, TypeOK
<1>4. ASSUME lastSnap'[d] = lastSnap[d], pc'[d] \notin Fetching \cup Pruning \cup {"putSnapshot"}
      PROVE  SnapshotsOf(d)'
  BY <1>2, <1>3, <1>4 DEF SnapshotsOf, Pruning
<1>5. ASSUME lastSnap'[d] = lastSnap[d], pc'[d] = pc[d], mark'[d] = mark[d], todo'[d] \in SUBSET todo[d]
      PROVE  SnapshotsOf(d)'
  <2>1. \A n \in todo[d] : n.stamp \in Stamp
    BY <1>1 DEF TypeOK, Name
  <2>2. \A w \in mark[d] : w \in Stamp
    BY <1>1 DEF TypeOK
  <2> QED
    BY <1>1, <1>2, <1>3, <1>5, <2>1, <2>2 DEF SnapshotsOf
<1> USE DEF Goto, db, world
<1>6. CASE ListSnapshots(d)
  <2>1. /\ lastSnap'[d] = lastSnap[d] /\ todo'[d] \in SUBSET List("snapshot") /\ Stored' = Stored
        /\ pc'[d] \in {"list", "getSnapshot"}
    BY <1>1, <1>6 DEF ListSnapshots, TypeOK, Last, Stored
  <2>2. \A n \in todo'[d] : n \in Stored /\ n.kind = "snapshot" /\ AtMost(n.stamp, n.stamp)
    BY <1>1, <2>1, StoredTypes, AtMostReflexive DEF List, Stored
  <2>3. \A n \in todo'[d] : Kept(n.stamp)
    BY <2>2 DEF Kept
  <2> QED
    BY <1>3, <2>1, <2>3 DEF SnapshotsOf, Kept, Fetching, Pruning
<1>7. CASE ApplySnapshot(d) \/ RecordSnapshot(d)
  <2>1. /\ lastSnap'[d] = lastSnap[d] /\ todo'[d] = todo[d] /\ pc[d] \in Fetching
        /\ pc'[d] \in {"recordSnapshot", "noteSnapshot"}
    BY <1>1, <1>7 DEF ApplySnapshot, RecordSnapshot, TypeOK, Fetching
  <2>2. \A n \in todo[d] : n.stamp \in Stamp /\ Kept(n.stamp)
    BY <1>1, <2>1 DEF TypeOK, Name, SnapshotsOf
  <2> QED
    BY <1>2, <1>3, <2>1, <2>2 DEF SnapshotsOf, Pruning
<1>8. CASE NoteSnapshot(d)
  <2>1. pc[d] = "noteSnapshot" /\ pc'[d] = "list" /\ lastSnap'[d] = {n.stamp : n \in todo[d]}
    BY <1>1, <1>8 DEF NoteSnapshot, TypeOK
  <2>2. \A n \in todo[d] : n.stamp \in Stamp /\ Kept(n.stamp)
    BY <1>1, <2>1 DEF TypeOK, Name, SnapshotsOf, Fetching
  <2> QED
    BY <1>2, <2>1, <2>2 DEF SnapshotsOf, Fetching, Pruning
<1>9. CASE Threshold(d)
  <2>1. /\ lastSnap'[d] = lastSnap[d]
        /\ pc'[d] = "finish" \/ (pc'[d] = "putSnapshot" /\ mark'[d] = HeadOf(oplog[d]))
    BY <1>1, <1>9 DEF Threshold, TypeOK
  <2>2. \A v, w \in HeadOf(oplog[d]) : AtMost(v, w)
    BY DEF HeadOf, Newest
  <2> QED
    BY <1>2, <1>3, <2>1, <2>2 DEF SnapshotsOf, Fetching, Pruning
<1>10. CASE PutSnapshot(d)
  <2>1. /\ lastSnap'[d] = lastSnap[d] /\ mark'[d] = mark[d]
        /\ pc[d] = "putSnapshot" /\ pc'[d] = "recordOwnSnapshot"
    BY <1>1, <1>10 DEF PutSnapshot, TypeOK
  <2>2. PICK w \in mark[d] : snapshotObjectName(w) \in Stored'
    BY <1>1, <1>10, PutKeeps DEF PutSnapshot, SnapshotObjects
  <2>3. \A v \in mark[d] : AtMost(v, w)
    BY <1>1, <2>1 DEF SnapshotsOf
  <2>4. \A v \in mark[d] : Kept(v)'
    BY <2>2, <2>3 DEF Kept, snapshotObjectName
  <2> QED
    BY <1>1, <1>2, <1>3, <2>1, <2>4 DEF SnapshotsOf, Fetching, Pruning
<1>11. CASE RecordOwnSnapshot(d) \/ NoteOwnSnapshot(d) \/ ListSuperseded(d)
  <2>1. /\ pc[d] \in Pruning /\ pc'[d] \in Pruning /\ mark'[d] = mark[d]
        /\ lastSnap'[d] = lastSnap[d] \/ lastSnap'[d] = mark[d]
    BY <1>1, <1>11 DEF RecordOwnSnapshot, NoteOwnSnapshot, ListSuperseded, TypeOK, Pruning
  <2>2. \A w \in mark[d] : w \in Stamp /\ Kept(w)
    BY <1>1, <2>1 DEF TypeOK, SnapshotsOf
  <2>3. pc'[d] = "remove" => todo'[d] = Superseded(mark[d])
    BY <1>1, <1>11 DEF RecordOwnSnapshot, NoteOwnSnapshot, ListSuperseded, TypeOK
  <2>4. \A n \in Superseded(mark[d]) : n.kind = "snapshot" => \E w \in mark[d] : Before(n.stamp, w)
    BY DEF Superseded, List
  <2> QED
    BY <1>1, <1>2, <1>3, <2>1, <2>2, <2>3, <2>4 DEF SnapshotsOf, Fetching, Pruning
<1>12. CASE RemoveSuperseded(d) \/ GetObject(d) \/ ObserveHead(d)
  BY <1>1, <1>5, <1>12 DEF RemoveSuperseded, GetObject, ObserveHead, TypeOK
<1>13. CASE UserStep(d) \/ Advance(d) \/ AbortedWrite(d) \/ SetBack(d)
  BY <1>5, <1>13 DEF UserStep, Put, Remove, Write, Advance, AbortedWrite, SetBack, cycle
<1>14. CASE Begin(d) \/ ListOps(d) \/ Merge(d) \/ RecordApplied(d) \/ CapturePending(d) \/ Upload(d)
              \/ RecordOwn(d) \/ MarkSynced(d) \/ PruneFails(d)
  <2>1. lastSnap'[d] = lastSnap[d]
    BY <1>14 DEF Begin, ListOps, Merge, RecordApplied, CapturePending, Upload, RecordOwn, MarkSynced, PruneFails
  <2>2. pc'[d] \in {"snapshots", "pending", "get", "record", "threshold", "upload", "recordOwn",
                    "markSynced", "finish"}
    BY <1>1, <1>14 DEF Begin, ListOps, Merge, RecordApplied, CapturePending, Upload, RecordOwn, MarkSynced,
       PruneFails, TypeOK
  <2> QED
    BY <1>4, <2>1, <2>2 DEF Fetching, Pruning
<1>15. CASE Finish(d) \/ ObserveError(d) \/ ObjectGone(d) \/ PutError(d) \/ RequestFails(d) \/ PutReplyLost(d)
              \/ Crash(d)
  <2>1. lastSnap'[d] = lastSnap[d] /\ pc'[d] = "idle"
    BY <1>1, <1>15 DEF Finish, ObserveError, ObjectGone, PutError, RequestFails, PutReplyLost, Crash, EndCycle,
       TypeOK
  <2> QED
    BY <1>4, <2>1 DEF Fetching, Pruning
<1> QED
  BY <1>6, <1>7, <1>8, <1>9, <1>10, <1>11, <1>12, <1>13, <1>14, <1>15 DEF CycleStep, FaultStep

\* Whatever snapshot a device remembers, one at least as new is at the destination:
\* pruning removes a snapshot only for one that is newer and there.
THEOREM SnapshotsKept == Spec => []SnapshotKept
<1>1. Init => SnapshotInv
  BY TypeInit DEF Init, SnapshotInv, SnapshotsOf, Fetching, Pruning
<1>2. SnapshotInv /\ TypeOK' /\ [Next]_vars => SnapshotInv'
  <2> SUFFICES ASSUME SnapshotInv, TypeOK', [Next]_vars PROVE SnapshotInv'
    OBVIOUS
  <2>1. CASE UNCHANGED vars
    BY <2>1 DEF SnapshotInv, SnapshotsOf, Kept, Stored, vars, db, cycle, world
  <2>2. ASSUME NEW d \in Devices, CycleStep(d) \/ UserStep(d) \/ FaultStep(d) \/ Advance(d),
               NEW e \in Devices
        PROVE  SnapshotsOf(e)'
    <3>1. CASE e = d
      BY <2>2, <3>1, SnapshotLocal
    <3>2. CASE e # d
      <4>1. lastSnap'[e] = lastSnap[e] /\ pc'[e] = pc[e] /\ mark'[e] = mark[e] /\ todo'[e] = todo[e]
        BY <2>2, <3>2, SnapshotFrame DEF SnapshotInv
      <4>2. \A w \in Stamp : Kept(w) => Kept(w)'
        BY <2>2, KeptStays
      <4>3. SnapshotsOf(e) /\ lastSnap[e] \in SUBSET Stamp /\ mark[e] \in SUBSET Stamp
        BY DEF SnapshotInv, TypeOK
      <4>4. \A n \in todo[e] : n.stamp \in Stamp
        BY DEF SnapshotInv, TypeOK, Name
      <4> QED
        BY <4>1, <4>2, <4>3, <4>4 DEF SnapshotsOf
    <3> QED
      BY <3>1, <3>2
  <2> QED
    BY <2>1, <2>2 DEF Next, SnapshotInv
<1>3. SnapshotInv => SnapshotKept
  BY DEF SnapshotInv, SnapshotsOf, Kept, SnapshotKept
<1> QED
  BY TypeCorrect, <1>1, <1>2, <1>3, PTL DEF Spec
=============================================================================
