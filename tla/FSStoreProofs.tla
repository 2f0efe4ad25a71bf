--------------------------- MODULE FSStoreProofs ---------------------------
(***************************************************************************)
(* What holds of the sync server's store for any number of accounts,       *)
(* names, handlers, requests and crashes, any quota and any page size.     *)
(***************************************************************************)
EXTENDS MCFSStore, FiniteSetTheorems, TLAPS

----------------------------------------------------------------------------
\* Bytes.

\* The bytes of one file.
LEMMA BytesOfOne ==
    ASSUME NEW f, f.bytes \in Nat
    PROVE  /\ IsFiniteSet({f} \X (1 .. f.bytes))
           /\ Cardinality({f} \X (1 .. f.bytes)) = f.bytes
<1>1. IsFiniteSet(1 .. f.bytes) /\ Cardinality(1 .. f.bytes) = f.bytes
  BY FS_Interval
<1>2. IsFiniteSet({f}) /\ Cardinality({f}) = 1
  BY FS_Singleton
<1>3. /\ IsFiniteSet({f} \X (1 .. f.bytes))
      /\ Cardinality({f} \X (1 .. f.bytes)) = Cardinality({f}) * Cardinality(1 .. f.bytes)
  BY <1>1, <1>2, FS_Product
<1> QED
  BY <1>1, <1>2, <1>3

\* Finitely many files hold finitely many bytes.
LEMMA BytesFinite ==
    ASSUME NEW fs, IsFiniteSet(fs), \A f \in fs : f.bytes \in Nat
    PROVE  /\ IsFiniteSet(UNION {{f} \X (1 .. f.bytes) : f \in fs})
           /\ Bytes(fs) \in Nat
<1> DEFINE Octets == {{f} \X (1 .. f.bytes) : f \in fs}
           OctetsOf == [f \in fs |-> {f} \X (1 .. f.bytes)]
<1>1. OctetsOf \in Surjection(fs, Octets)
  BY DEF Surjection
<1>2. IsFiniteSet(Octets)
  BY <1>1, FS_Surjection
<1>3. \A o \in Octets : IsFiniteSet(o)
  BY BytesOfOne
<1>4. IsFiniteSet(UNION Octets)
  BY <1>2, <1>3, FS_UNION
<1> QED
  BY <1>4, FS_CardinalityType DEF Bytes

\* A file more is its bytes more.
LEMMA BytesAdd ==
    ASSUME NEW fs, IsFiniteSet(fs), \A f \in fs : f.bytes \in Nat,
           NEW g, g.bytes \in Nat, g \notin fs
    PROVE  Bytes(fs \cup {g}) = Bytes(fs) + g.bytes
<1> DEFINE U == UNION {{f} \X (1 .. f.bytes) : f \in fs}
           G == {g} \X (1 .. g.bytes)
<1>1. UNION {{f} \X (1 .. f.bytes) : f \in fs \cup {g}} = U \cup G
  OBVIOUS
<1>2. U \cap G = {}
  OBVIOUS
<1>3. IsFiniteSet(U) /\ Cardinality(U) \in Nat
  BY BytesFinite DEF Bytes
<1>4. IsFiniteSet(G) /\ Cardinality(G) = g.bytes
  BY BytesOfOne
<1>5. Cardinality(U \cup G) = Cardinality(U) + Cardinality(G) - Cardinality(U \cap G)
  BY <1>3, <1>4, FS_Union
<1>6. Cardinality(U \cap G) = 0
  BY <1>2, FS_EmptySet
<1> HIDE DEF U, G
<1>7. Cardinality(U \cup G) = Cardinality(U) + g.bytes
  BY <1>3, <1>4, <1>5, <1>6
<1> QED
  BY <1>1, <1>7 DEF Bytes, U

\* Fewer files, no more bytes.
LEMMA BytesDrop ==
    ASSUME NEW fs, IsFiniteSet(fs), \A f \in fs : f.bytes \in Nat, NEW gs \in SUBSET fs
    PROVE  IsFiniteSet(gs) /\ Bytes(gs) <= Bytes(fs)
<1>1. IsFiniteSet(gs)
  BY FS_Subset
<1>2. UNION {{f} \X (1 .. f.bytes) : f \in gs} \in SUBSET UNION {{f} \X (1 .. f.bytes) : f \in fs}
  OBVIOUS
<1> QED
  BY <1>1, <1>2, BytesFinite, FS_Subset DEF Bytes

----------------------------------------------------------------------------
\* The invariant.

\* A Put past its first step holds the account's lock, and so is alone.
LockHeld ==
    \A h \in Handlers : pc[h] \in {"check"} \cup Writes => lock[req[h].account] = h

\* What Put has checked under the lock stays so: the name is free, ...
NameFree ==
    \A h \in Handlers : pc[h] \in Writes => req[h].name \notin NamesOf(files[req[h].account])

\* ... and there is room for the body.
Room ==
    Quota > 0 =>
        \A h \in Handlers :
            pc[h] \in Writes => Used(req[h].account) + req[h].body.size <= Quota

\* Files are fsynced before they get their name, so that they are whole.
FilesWhole ==
    /\ \A h \in Handlers : pc[h] = "rename" => synced[h]
    /\ \A a \in Accounts : \A f \in files[a] : f.durable /\ f.bytes = f.body.size

NamesUnique ==
    \A a \in Accounts : \A f, g \in files[a] : f.name = g.name => f = g

\* A cached figure is never stale, whoever holds the lock.
CacheFresh ==
    \A a \in Accounts : cache[a] # {} => cache[a] = {Used(a)}

StoreInv ==
    /\ TypeOK /\ LockHeld /\ NameFree /\ FilesWhole /\ NamesUnique
    /\ CacheFresh /\ Room /\ QuotaKept

\* What a walk finds is a number.
LEMMA UsedType ==
    ASSUME TypeOK, NEW a \in Accounts
    PROVE  Used(a) \in Nat /\ Bytes(files[a]) \in Nat
<1>1. IsFiniteSet(files[a]) /\ \A f \in files[a] : f.bytes \in Nat
  BY DEF TypeOK, File
<1>2. Bytes(files[a]) \in Nat
  BY <1>1, BytesFinite
<1>3. leaked[a] \in Nat
  BY DEF TypeOK
<1> QED
  BY <1>2, <1>3 DEF Used

\* usage() answers what a walk finds.
LEMMA UsageExact ==
    ASSUME TypeOK, CacheFresh, NEW a \in Accounts
    PROVE  UsageOf(a) = Used(a)
BY DEF CacheFresh, UsageOf

\* At the start there is nothing.
LEMMA StoreInit == Init => StoreInv
<1> SUFFICES ASSUME Init PROVE StoreInv
  OBVIOUS
<1>1. TypeOK
  BY FS_EmptySet DEF Init, TypeOK, Writes
<1>2. ASSUME NEW a \in Accounts PROVE Used(a) = 0
  <2>1. UNION {{f} \X (1 .. f.bytes) : f \in files[a]} = {}
    BY DEF Init
  <2> QED
    BY <2>1, FS_EmptySet DEF Init, Used, Bytes
<1>3. QuotaKept
  BY <1>2, StoreAssumption DEF QuotaKept
<1> QED
  BY <1>1, <1>3 DEF Init, StoreInv, LockHeld, NameFree, FilesWhole, NamesUnique, CacheFresh, Room,
     Writes

----------------------------------------------------------------------------
\* Steps that leave the disk alone.

Steady(h) ==
    \/ Arrive(h) \/ Lock(h) \/ CheckExisting(h) \/ CheckQuota(h)
    \/ WriteTemp(h) \/ SyncTemp(h) \/ WriteFails(h)
    \/ Get(h) \/ ReadDir(h) \/ Visit(h) \/ Deliver(h)

\* The least of a set of names is one of them.
LEMMA LeastName ==
    ASSUME NEW S \in SUBSET Nat, S # {}
    PROVE  Min(S) \in S /\ \A n \in S : Min(S) <= n
<1> DEFINE Below == {ss \in Nat \X Nat : ss[1] < ss[2]}
<1>1. IsWellFoundedOn(Below, Nat)
  BY NatLessThanWellFounded DEF OpToRel
<1>2. PICK x \in S : \A y \in S : ~ (<<y, x>> \in Below)
  BY <1>1, WFMin
<1>3. ASSUME NEW y \in S PROVE x <= y
  <2>1. ~ (<<y, x>>[1] < <<y, x>>[2])
    BY <1>2
  <2> QED
    BY <2>1
<1> QED
  BY <1>3 DEF Min

\* Types, when the disk stays as it is.
LEMMA SteadyTypes ==
    ASSUME StoreInv, NEW h \in Handlers, Steady(h)
    PROVE  TypeOK'
<1>1. CASE Arrive(h)
  <2>1. PICK r \in Request :
           /\ req' = [req EXCEPT ![h] = r]
           /\ pc' = [pc EXCEPT ![h] = r.kind]
           /\ since' = [since EXCEPT ![h] =
                          IF r.kind = "list" THEN NamesOf(files[r.account]) ELSE {}]
    BY <1>1 DEF Arrive, Goto
  <2>2. r.account \in Accounts /\ r.kind \in {"put", "get", "delete", "list"}
    BY StoreAssumption DEF Request
  <2>3. NamesOf(files[r.account]) \in SUBSET Names
    BY <2>2 DEF StoreInv, TypeOK, NamesOf, File
  <2>4. since' \in [Handlers -> SUBSET Names] /\ listed' \in [Handlers -> SUBSET Names]
    BY <1>1, <2>1, <2>3 DEF StoreInv, TypeOK, Arrive
  <2>5. /\ pc' \in [Handlers -> {"free", "put", "check", "write", "sync", "rename",
                                 "delete", "get", "list", "visit"}]
        /\ req' \in [Handlers -> Request \cup {NoRequest}]
        /\ \A k \in Handlers : pc'[k] # "free" => req'[k] \in Request
    BY <2>1, <2>2 DEF StoreInv, TypeOK
  <2> QED
    BY <1>1, <2>4, <2>5 DEF StoreInv, TypeOK, Arrive, disk
<1>2. CASE Lock(h) \/ CheckExisting(h) \/ WriteTemp(h) \/ SyncTemp(h) \/ WriteFails(h) \/ Get(h)
  <2>1. req[h] \in Request /\ req[h].account \in Accounts
    BY <1>2 DEF StoreInv, TypeOK, Lock, CheckExisting, WriteTemp, SyncTemp, WriteFails, Get, Request,
       Writes
  <2>2. CASE Lock(h)
    BY <2>1, <2>2 DEF StoreInv, TypeOK, Lock, Goto, disk, listing, bounds
  <2>3. CASE CheckExisting(h)
    BY <2>1, <2>3 DEF StoreInv, TypeOK, CheckExisting, Answer, Goto, Unlock, disk, listing, bounds
  <2>4. CASE WriteTemp(h) \/ SyncTemp(h)
    BY <2>1, <2>4 DEF StoreInv, TypeOK, WriteTemp, SyncTemp, Goto, disk, listing, bounds
  <2>5. CASE WriteFails(h)
    BY <2>1, <2>5 DEF StoreInv, TypeOK, WriteFails, Answer, Goto, Unlock, disk, listing, bounds
  <2>6. CASE Get(h)
    BY <2>1, <2>6 DEF StoreInv, TypeOK, Get, Answer, Goto, disk, listing, bounds
  <2> QED
    BY <1>2, <2>2, <2>3, <2>4, <2>5, <2>6
<1>3. CASE CheckQuota(h)
  <2>1. req[h].account \in Accounts
    BY <1>3 DEF StoreInv, TypeOK, CheckQuota, Request
  <2>2. UsageOf(req[h].account) \in Nat
    BY <2>1, UsageExact, UsedType DEF StoreInv
  <2> QED
    BY <1>3, <2>1, <2>2 DEF StoreInv, TypeOK, CheckQuota, Goto, Answer, Unlock, disk, listing, bounds
<1>4. CASE ReadDir(h)
  BY <1>4 DEF StoreInv, TypeOK, ReadDir, Goto, disk, bounds, NamesOf, File, AfterCursor, Request
<1>5. CASE Visit(h)
  <2>1. Min(entries[h]) \in entries[h]
    BY <1>5, LeastName, StoreAssumption DEF Visit, StoreInv, TypeOK
  <2> QED
    BY <1>5, <2>1 DEF StoreInv, TypeOK, Visit, disk, bounds
<1>6. CASE Deliver(h)
  BY <1>6 DEF StoreInv, TypeOK, Deliver, Goto, Answer, disk, bounds, FirstPage
<1> QED
  BY <1>1, <1>2, <1>3, <1>4, <1>5, <1>6 DEF Steady

\* Such a step touches one handler, and lets the others keep what they hold.
LEMMA SteadyEffect ==
    ASSUME StoreInv, NEW h \in Handlers, Steady(h)
    PROVE  /\ files' = files /\ leaked' = leaked
           /\ \A k \in Handlers \ {h} : pc'[k] = pc[k] /\ req'[k] = req[k] /\ synced'[k] = synced[k]
           /\ pc'[h] \in Writes => pc[h] \in {"check"} \cup Writes
           /\ pc'[h] \in {"check"} \cup Writes => req'[h] = req[h]
           /\ pc'[h] = "rename" => synced'[h]
<1> USE DEF StoreInv, TypeOK, Goto, Answer, disk, Writes
<1>1. CASE Arrive(h)
  BY <1>1, StoreAssumption DEF Arrive, Request
<1>2. CASE Lock(h) \/ CheckExisting(h) \/ WriteTemp(h) \/ SyncTemp(h)
  BY <1>2 DEF Lock, CheckExisting, WriteTemp, SyncTemp
<1>3. CASE CheckQuota(h)
  BY <1>3 DEF CheckQuota
<1>4. CASE WriteFails(h) \/ Get(h) \/ ReadDir(h) \/ Visit(h)
  BY <1>4 DEF WriteFails, Get, ReadDir, Visit
<1>5. CASE Deliver(h)
  BY <1>5 DEF Deliver
<1> QED
  BY <1>1, <1>2, <1>3, <1>4, <1>5 DEF Steady

\* The lock stays with who holds it.
LEMMA SteadyLock ==
    ASSUME StoreInv, NEW h \in Handlers, Steady(h)
    PROVE  LockHeld'
<1> USE DEF StoreInv, TypeOK, LockHeld, Writes
<1> SUFFICES ASSUME NEW k \in Handlers, pc'[k] \in {"check"} \cup Writes
             PROVE  lock'[req'[k].account] = k
  BY DEF LockHeld
<1>1. req'[k] = req[k] /\ req'[k] \in Request /\ req'[k].account \in Accounts
  BY SteadyEffect, SteadyTypes DEF Request
<1>2. k # NoHandler
  BY StoreAssumption
<1>3. CASE Arrive(h)
  BY <1>1, <1>3, SteadyEffect, StoreAssumption DEF Arrive, Goto, Request
<1>4. CASE Lock(h)
  BY <1>1, <1>2, <1>4 DEF Lock, Goto
<1>5. CASE CheckExisting(h)
  BY <1>1, <1>2, <1>5 DEF CheckExisting, Answer, Goto, Unlock
<1>6. CASE CheckQuota(h)
  BY <1>1, <1>2, <1>6 DEF CheckQuota, Answer, Goto, Unlock
<1>7. CASE WriteFails(h)
  BY <1>1, <1>2, <1>7 DEF WriteFails, Answer, Goto, Unlock
<1>8. CASE WriteTemp(h) \/ SyncTemp(h) \/ Get(h) \/ ReadDir(h) \/ Visit(h)
  BY <1>1, <1>8 DEF WriteTemp, SyncTemp, Get, ReadDir, Visit, Answer, Goto
<1>9. CASE Deliver(h)
  BY <1>1, <1>9 DEF Deliver, Answer, Goto
<1> QED
  BY <1>3, <1>4, <1>5, <1>6, <1>7, <1>8, <1>9 DEF Steady

\* The rest of the invariant.
LEMMA SteadyStep ==
    ASSUME StoreInv, NEW h \in Handlers, Steady(h)
    PROVE  StoreInv'
<1>1. TypeOK' /\ LockHeld'
  BY SteadyTypes, SteadyLock
<1>2. files' = files /\ leaked' = leaked /\ \A a \in Accounts : Used(a)' = Used(a)
  BY SteadyEffect DEF Used
<1>3. FilesWhole' /\ NamesUnique' /\ QuotaKept'
  BY <1>2, SteadyEffect DEF StoreInv, FilesWhole, NamesUnique, QuotaKept
<1>4. CASE CheckQuota(h)
  <2> DEFINE a == req[h].account
  <2>1. a \in Accounts /\ UsageOf(a) = Used(a)
    BY <1>4, UsageExact DEF CheckQuota, StoreInv, TypeOK, Request
  <2>2. CacheFresh'
    BY <1>2, <1>4, <2>1 DEF CheckQuota, StoreInv, TypeOK, CacheFresh
  <2>3. NameFree'
    BY <1>2, <1>4, SteadyEffect DEF CheckQuota, StoreInv, NameFree
  <2>4. Room'
    <3> SUFFICES ASSUME Quota > 0, NEW k \in Handlers, pc'[k] \in Writes, NEW b, b = req'[k].account
                 PROVE  Used(b)' + req'[k].body.size <= Quota
      BY DEF Room, Used
    <3>1. req'[k] = req[k] /\ b \in Accounts /\ req[k].body.size \in Nat
      BY <1>1, SteadyEffect, StoreAssumption DEF TypeOK, Request, Writes
    <3>2. Used(b)' = Used(b) /\ Used(b) \in Nat
      BY <1>2, <3>1, UsedType DEF StoreInv
    <3>3. CASE k = h
      <4>1. ~(UsageOf(a) + req[h].body.size > Quota)
        BY <1>4, <3>3 DEF CheckQuota, Answer, Goto, StoreInv, TypeOK, Writes
      <4> QED
        BY <2>1, <3>1, <3>2, <3>3, <4>1, StoreAssumption
    <3>4. CASE k # h
      BY <3>1, <3>2, <3>4, SteadyEffect DEF StoreInv, Room
    <3> QED
      BY <3>3, <3>4
  <2> QED
    BY <1>1, <1>3, <2>2, <2>3, <2>4 DEF StoreInv
<1>5. CASE ~CheckQuota(h)
  <2>1. cache' = cache
    BY <1>5 DEF Steady, Arrive, Lock, CheckExisting, WriteTemp, SyncTemp, WriteFails, Get, ReadDir,
       Visit, Deliver
  <2>2. CacheFresh'
    BY <1>2, <2>1 DEF StoreInv, CacheFresh
  <2>3. \A k \in Handlers : pc'[k] \in Writes => pc[k] \in Writes /\ req'[k] = req[k]
    <3>1. pc'[h] \in Writes => pc[h] \in Writes
      <4> USE DEF StoreInv, TypeOK, Goto, Answer, Writes
      <4>1. CASE Arrive(h)
        BY <4>1, StoreAssumption DEF Arrive, Request
      <4>2. CASE Lock(h) \/ CheckExisting(h) \/ WriteTemp(h) \/ SyncTemp(h)
        BY <4>2 DEF Lock, CheckExisting, WriteTemp, SyncTemp
      <4>3. CASE WriteFails(h) \/ Get(h) \/ ReadDir(h) \/ Visit(h)
        BY <4>3 DEF WriteFails, Get, ReadDir, Visit
      <4>4. CASE Deliver(h)
        BY <4>4 DEF Deliver
      <4> QED
        BY <1>5, <4>1, <4>2, <4>3, <4>4 DEF Steady
    <3> QED
      BY <3>1, SteadyEffect DEF Writes
  <2>4. NameFree' /\ Room'
    <3>1. \A k \in Handlers : pc'[k] \in Writes => req'[k].account \in Accounts
      BY <1>1 DEF TypeOK, Request, Writes
    <3> QED
      BY <1>2, <2>3, <3>1 DEF StoreInv, NameFree, Room
  <2> QED
    BY <1>1, <1>3, <2>2, <2>4 DEF StoreInv
<1> QED
  BY <1>4, <1>5

----------------------------------------------------------------------------
\* Steps that change the disk.

\* What a rename does: the account has one file more, and its bytes more.
LEMMA RenameEffect ==
    ASSUME StoreInv, NEW h \in Handlers, Rename(h), NEW a, a = req[h].account
    PROVE  /\ a \in Accounts /\ req[h] \in Request
           /\ NewFile(h) \in File /\ NewFile(h).durable /\ NewFile(h).bytes = NewFile(h).body.size
           /\ NewFile(h).name \notin NamesOf(files[a])
           /\ files' = [files EXCEPT ![a] = @ \cup {NewFile(h)}]
           /\ IsFiniteSet(files'[a])
           /\ Bytes(files'[a]) = Bytes(files[a]) + req[h].body.size
<1>1. a \in Accounts /\ req[h] \in Request /\ req[h].body \in Bodies /\ req[h].name \in Names
      /\ req[h].body.size \in Nat
  BY StoreAssumption DEF StoreInv, TypeOK, Rename, Request
<1>2. synced[h] = TRUE
  BY DEF StoreInv, TypeOK, FilesWhole, Rename
<1>3. NewFile(h) \in File /\ NewFile(h).durable /\ NewFile(h).bytes = NewFile(h).body.size
      /\ NewFile(h).name = req[h].name /\ NewFile(h).bytes = req[h].body.size
  BY <1>1, <1>2 DEF NewFile, File
<1>4. req[h].name \notin NamesOf(files[a])
  BY DEF StoreInv, NameFree, Rename, Writes
<1>5. {f \in files[a] : f.name # req[h].name} = files[a]
  BY <1>4 DEF NamesOf
<1>6. files' = [files EXCEPT ![a] = @ \cup {NewFile(h)}]
  BY <1>5 DEF Rename
<1>7. IsFiniteSet(files[a]) /\ (\A f \in files[a] : f.bytes \in Nat) /\ NewFile(h) \notin files[a]
  BY <1>1, <1>3, <1>4 DEF StoreInv, TypeOK, File, NamesOf
<1>8. files'[a] = files[a] \cup {NewFile(h)}
  BY <1>1, <1>6 DEF StoreInv, TypeOK
<1>9. IsFiniteSet(files'[a])
  BY <1>7, <1>8, FS_AddElement
<1>10. Bytes(files'[a]) = Bytes(files[a]) + req[h].body.size
  <2>1. NewFile(h).bytes \in Nat
    BY <1>1, <1>3
  <2>2. Bytes(files[a] \cup {NewFile(h)}) = Bytes(files[a]) + NewFile(h).bytes
    BY <1>7, <2>1, BytesAdd
  <2> QED
    BY <1>3, <1>8, <2>2
<1> QED
  BY <1>1, <1>3, <1>4, <1>6, <1>9, <1>10

\* While a Put is past its first step, no other Put is on the same account.
LEMMA Alone ==
    ASSUME StoreInv, NEW h \in Handlers, NEW k \in Handlers,
           pc[h] \in {"check"} \cup Writes, pc[k] \in {"check"} \cup Writes,
           req[h].account = req[k].account
    PROVE  h = k
BY DEF StoreInv, LockHeld

\* A rename keeps the invariant: the file that appears is whole, under a free
\* name, and within the quota.
LEMMA RenameStep ==
    ASSUME StoreInv, NEW h \in Handlers, Rename(h)
    PROVE  StoreInv'
<1> DEFINE f == NewFile(h)
<1>0. PICK a \in Accounts : a = req[h].account
  BY RenameEffect
<1>1. /\ a \in Accounts /\ req[h] \in Request /\ f \in File /\ f.durable /\ f.bytes = f.body.size
      /\ f.name \notin NamesOf(files[a])
      /\ files' = [files EXCEPT ![a] = @ \cup {f}]
      /\ IsFiniteSet(files'[a])
      /\ Bytes(files'[a]) = Bytes(files[a]) + req[h].body.size
  BY <1>0, RenameEffect
<1> HIDE DEF f
<1>2. /\ pc' = [pc EXCEPT ![h] = "free"] /\ lock' = [lock EXCEPT ![a] = NoHandler]
      /\ cache' = [cache EXCEPT ![a] = {}] /\ reply' = [reply EXCEPT ![h] = "created"]
      /\ UNCHANGED <<leaked, req, synced, entries, page, listed, since, requests, crashes>>
      /\ pc[h] = "rename"
  BY <1>0 DEF Rename, Answer, Goto, Unlock, Invalidated, listing, bounds
<1>3. TypeOK'
  BY <1>1, <1>2 DEF StoreInv, TypeOK
<1>4. \A k \in Handlers : pc'[k] \in {"check"} \cup Writes =>
         k # h /\ pc[k] = pc'[k] /\ req'[k] = req[k] /\ req[k].account # a /\ req[k].account \in Accounts
  <2> TAKE k \in Handlers
  <2> HAVE pc'[k] \in {"check"} \cup Writes
  <2>1. k # h /\ pc[k] = pc'[k] /\ req'[k] = req[k]
    BY <1>2 DEF StoreInv, TypeOK, Writes
  <2>2. req[k].account \in Accounts
    BY <2>1 DEF StoreInv, TypeOK, Writes, Request
  <2> QED
    BY <1>0, <1>2, <2>1, <2>2, Alone DEF Writes
<1>5. LockHeld'
  BY <1>2, <1>4 DEF StoreInv, TypeOK, LockHeld
<1>6. \A b \in Accounts \ {a} : files'[b] = files[b] /\ Used(b)' = Used(b) /\ cache'[b] = cache[b]
  BY <1>1, <1>2 DEF StoreInv, TypeOK, Used
<1>7. NameFree'
  BY <1>4, <1>6 DEF StoreInv, NameFree
<1>8. files'[a] = files[a] \cup {f}
  BY <1>1 DEF StoreInv, TypeOK
<1>9. FilesWhole'
  BY <1>1, <1>2, <1>6, <1>8 DEF StoreInv, TypeOK, FilesWhole
<1>10. NamesUnique'
  BY <1>1, <1>6, <1>8 DEF StoreInv, NamesUnique, NamesOf
<1>11. CacheFresh'
  BY <1>1, <1>2, <1>6 DEF StoreInv, TypeOK, CacheFresh
<1>12. Room'
  BY <1>4, <1>6 DEF StoreInv, Room
<1>13. QuotaKept'
  <2> SUFFICES ASSUME Quota > 0 PROVE Used(a)' <= Quota
    BY <1>6 DEF QuotaKept, StoreInv
  <2>1. Used(a)' = Used(a) + req[h].body.size
    <3>1. Bytes(files[a]) \in Nat /\ leaked[a] \in Nat /\ req[h].body.size \in Nat
      BY <1>1, UsedType, StoreAssumption DEF StoreInv, TypeOK, Request
    <3> QED
      BY <1>1, <1>2, <3>1 DEF Used
  <2> QED
    BY <1>0, <1>2, <2>1 DEF StoreInv, Room, Writes
<1> QED
  BY <1>3, <1>5, <1>7, <1>9, <1>10, <1>11, <1>12, <1>13 DEF StoreInv

\* A delete keeps the invariant: nobody is between check and rename.
LEMMA DeleteStep ==
    ASSUME StoreInv, NEW h \in Handlers, Delete(h)
    PROVE  StoreInv'
<1>0. PICK a \in Accounts : a = req[h].account
  BY DEF StoreInv, TypeOK, Delete, Request
<1> DEFINE rest == {f \in files[a] : f.name # req[h].name}
<1>1. a \in Accounts /\ lock[a] = NoHandler
  BY <1>0 DEF Delete
<1>2. /\ pc' = [pc EXCEPT ![h] = "free"] /\ files' = [files EXCEPT ![a] = rest]
      /\ cache' = [cache EXCEPT ![a] = {}] /\ reply' = [reply EXCEPT ![h] = "deleted"]
      /\ UNCHANGED <<leaked, lock, req, synced, entries, page, listed, requests, crashes>>
      /\ \A k \in Handlers : since'[k] \in SUBSET since[k]
      /\ since' \in [Handlers -> {since'[k] : k \in Handlers}]
  BY <1>0 DEF Delete, Answer, Goto, Invalidated, Witness, listing, bounds
<1>3. IsFiniteSet(rest) /\ Bytes(rest) <= Bytes(files[a]) /\ Bytes(rest) \in Nat /\ rest \in SUBSET files[a]
  <2>1. IsFiniteSet(files[a]) /\ \A f \in files[a] : f.bytes \in Nat
    BY <1>1 DEF StoreInv, TypeOK, File
  <2>2. rest \in SUBSET files[a]
    OBVIOUS
  <2> HIDE DEF rest
  <2>3. IsFiniteSet(rest) /\ Bytes(rest) <= Bytes(files[a])
    BY <2>1, <2>2, BytesDrop
  <2> QED
    BY <2>1, <2>2, <2>3, BytesFinite
<1> HIDE DEF rest
<1>4. TypeOK'
  BY <1>1, <1>2, <1>3 DEF StoreInv, TypeOK
<1>5. \A k \in Handlers : pc'[k] \in {"check"} \cup Writes =>
         k # h /\ pc[k] = pc'[k] /\ req'[k] = req[k] /\ req[k].account # a /\ req[k].account \in Accounts
  <2> TAKE k \in Handlers
  <2> HAVE pc'[k] \in {"check"} \cup Writes
  <2>1. k # h /\ pc[k] = pc'[k] /\ req'[k] = req[k]
    BY <1>2 DEF StoreInv, TypeOK, Writes
  <2>2. req[k].account \in Accounts
    BY <2>1 DEF StoreInv, TypeOK, Writes, Request
  <2>3. lock[req[k].account] = k
    BY <2>1 DEF StoreInv, LockHeld
  <2> QED
    BY <1>1, <2>1, <2>2, <2>3, StoreAssumption
<1>6. LockHeld'
  BY <1>2, <1>5 DEF StoreInv, LockHeld
<1>7. \A b \in Accounts \ {a} : files'[b] = files[b] /\ Used(b)' = Used(b) /\ cache'[b] = cache[b]
  BY <1>2 DEF StoreInv, TypeOK, Used
<1>8. NameFree'
  BY <1>5, <1>7 DEF StoreInv, NameFree
<1>9. files'[a] = rest
  BY <1>1, <1>2 DEF StoreInv, TypeOK
<1>10. FilesWhole'
  BY <1>2, <1>3, <1>7, <1>9 DEF StoreInv, TypeOK, FilesWhole
<1>11. NamesUnique'
  BY <1>3, <1>7, <1>9 DEF StoreInv, NamesUnique
<1>12. CacheFresh'
  BY <1>1, <1>2, <1>7 DEF StoreInv, TypeOK, CacheFresh
<1>13. Room'
  BY <1>5, <1>7 DEF StoreInv, Room
<1>14. QuotaKept'
  <2> SUFFICES ASSUME Quota > 0 PROVE Used(a)' <= Quota
    BY <1>7 DEF QuotaKept, StoreInv
  <2>1. Used(a)' <= Used(a) /\ Used(a)' \in Nat /\ Used(a) \in Nat
    <3>1. Bytes(files[a]) \in Nat /\ leaked[a] \in Nat
      BY <1>1, UsedType DEF StoreInv, TypeOK
    <3> QED
      BY <1>2, <1>3, <1>9, <3>1 DEF Used
  <2> QED
    BY <1>1, <2>1, StoreAssumption DEF StoreInv, QuotaKept
<1> QED
  BY <1>4, <1>6, <1>8, <1>10, <1>11, <1>12, <1>13, <1>14 DEF StoreInv

\* A crash leaves files as they are, since all of them were fsynced, and at most one
\* temporary file per account, no larger than the upload there was room for.
LEMMA CrashEffect ==
    ASSUME StoreInv, Crash
    PROVE  /\ files' = files
           /\ \A a \in Accounts :
                /\ leaked'[a] \in Nat
                /\ \/ leaked'[a] = leaked[a]
                   \/ \E h \in Handlers : /\ pc[h] \in Writes /\ req[h].account = a
                                          /\ leaked'[a] <= leaked[a] + req[h].body.size
<1>1. PICK part \in [Handlers -> UNION {0 .. b.size : b \in Bodies}] :
         /\ \A h \in Handlers : part[h] <= IF pc[h] \in Writes THEN req[h].body.size ELSE 0
         /\ leaked' = [a \in Accounts |->
                         leaked[a] + Cardinality(UNION {{h} \X (1 .. part[h]) : h \in Writing(a)})]
  BY DEF Crash
<1>2. files' = files
  <2>1. \A a \in Accounts : {IF f.durable THEN f ELSE [f EXCEPT !.bytes = 0] : f \in files[a]} = files[a]
    BY DEF StoreInv, FilesWhole
  <2>2. files' = [a \in Accounts |-> files[a]]
    BY <2>1 DEF Crash
  <2> QED
    BY <2>2 DEF StoreInv, TypeOK
<1>3. ASSUME NEW a \in Accounts
      PROVE  /\ leaked'[a] \in Nat
             /\ \/ leaked'[a] = leaked[a]
                \/ \E h \in Handlers : /\ pc[h] \in Writes /\ req[h].account = a
                                       /\ leaked'[a] <= leaked[a] + req[h].body.size
  <2> DEFINE Octets == UNION {{h} \X (1 .. part[h]) : h \in Writing(a)}
  <2>1. leaked'[a] = leaked[a] + Cardinality(Octets) /\ leaked[a] \in Nat
    BY <1>1 DEF StoreInv, TypeOK
  <2>2. CASE Writing(a) = {}
    <3>1. Octets = {}
      BY <2>2
    <3>2. Cardinality(Octets) = 0
      BY <3>1, FS_EmptySet
    <3> QED
      BY <2>1, <3>2
  <2>3. CASE Writing(a) # {}
    <3>1. PICK h \in Handlers : pc[h] \in Writes /\ req[h].account = a
      BY <2>3 DEF Writing
    <3>2. Writing(a) = {h}
      BY <3>1, Alone DEF Writing
    <3>3. part[h] \in Nat /\ part[h] <= req[h].body.size /\ req[h].body.size \in Nat
      <4>1. req[h] \in Request
        BY <3>1 DEF StoreInv, TypeOK, Writes
      <4>2. req[h].body.size \in Nat
        BY <4>1, StoreAssumption DEF Request
      <4>3. PICK b \in Bodies : part[h] \in 0 .. b.size
        OBVIOUS
      <4>4. part[h] \in Nat
        BY <4>3, StoreAssumption
      <4> QED
        BY <1>1, <3>1, <4>2, <4>4
    <3>4. Octets = {h} \X (1 .. part[h])
      BY <3>2
    <3>5. Cardinality(Octets) = part[h]
      <4>1. IsFiniteSet(1 .. part[h]) /\ Cardinality(1 .. part[h]) = part[h]
        BY <3>3, FS_Interval
      <4>2. IsFiniteSet({h}) /\ Cardinality({h}) = 1
        BY FS_Singleton
      <4>3. Cardinality({h} \X (1 .. part[h])) = Cardinality({h}) * Cardinality(1 .. part[h])
        BY <4>1, <4>2, FS_Product
      <4>4. Cardinality({h} \X (1 .. part[h])) = part[h]
        BY <3>3, <4>1, <4>2, <4>3
      <4> QED
        BY <3>4, <4>4
    <3> HIDE DEF Octets
    <3> QED
      BY <2>1, <3>1, <3>3, <3>5
  <2> QED
    BY <2>2, <2>3
<1> QED
  BY <1>2, <1>3

\* A crash keeps the invariant.
LEMMA CrashStep ==
    ASSUME StoreInv, Crash
    PROVE  StoreInv'
<1>1. /\ lock' = [a \in Accounts |-> NoHandler] /\ cache' = [a \in Accounts |-> {}]
      /\ pc' = [h \in Handlers |-> "free"]
      /\ reply' = [h \in Handlers |-> IF pc[h] = "free" THEN reply[h] ELSE "none"]
      /\ UNCHANGED <<req, synced, entries, page, listed, since, requests>>
      /\ crashes' = crashes + 1
      /\ leaked' = [a \in Accounts |-> leaked'[a]]
  BY DEF Crash, listing
<1>2. files' = files /\ \A a \in Accounts : leaked'[a] \in Nat
  BY CrashEffect
<1>3. TypeOK'
  <2>1. leaked' \in [Accounts -> Nat] /\ crashes' \in Nat
    BY <1>1, <1>2 DEF StoreInv, TypeOK
  <2> QED
    BY <1>1, <1>2, <2>1 DEF StoreInv, TypeOK
<1>4. LockHeld' /\ NameFree' /\ CacheFresh' /\ Room'
  BY <1>1 DEF LockHeld, NameFree, CacheFresh, Room, Writes
<1>5. FilesWhole' /\ NamesUnique'
  BY <1>1, <1>2 DEF StoreInv, FilesWhole, NamesUnique
<1>6. QuotaKept'
  <2> SUFFICES ASSUME Quota > 0, NEW a \in Accounts PROVE Used(a)' <= Quota
    BY DEF QuotaKept
  <2>1. Bytes(files[a]) \in Nat /\ leaked[a] \in Nat /\ leaked'[a] \in Nat
    BY <1>2, UsedType DEF StoreInv, TypeOK
  <2>2. Used(a)' = Bytes(files[a]) + leaked'[a] /\ Used(a) = Bytes(files[a]) + leaked[a]
    BY <1>2 DEF Used
  <2>3. CASE leaked'[a] = leaked[a]
    BY <2>2, <2>3 DEF StoreInv, QuotaKept
  <2>4. CASE \E h \in Handlers : /\ pc[h] \in Writes /\ req[h].account = a
                                 /\ leaked'[a] <= leaked[a] + req[h].body.size
    <3>1. PICK h \in Handlers : /\ pc[h] \in Writes /\ req[h].account = a
                                /\ leaked'[a] <= leaked[a] + req[h].body.size
      BY <2>4
    <3>2. Used(a) + req[h].body.size <= Quota
      BY <3>1 DEF StoreInv, Room
    <3>3. req[h].body.size \in Nat
      BY <3>1, StoreAssumption DEF StoreInv, TypeOK, Writes, Request
    <3> QED
      BY <2>1, <2>2, <3>1, <3>2, <3>3, StoreAssumption
  <2> QED
    BY <2>3, <2>4, CrashEffect
<1> QED
  BY <1>3, <1>4, <1>5, <1>6 DEF StoreInv

----------------------------------------------------------------------------
\* The server keeps its quota.

\* Every step keeps the invariant.
LEMMA StoreStep ==
    ASSUME StoreInv, [Next]_vars
    PROVE  StoreInv'
<1>1. CASE UNCHANGED vars
  BY <1>1 DEF vars, disk, listing, bounds, StoreInv, TypeOK, LockHeld, NameFree, FilesWhole,
     NamesUnique, CacheFresh, Room, QuotaKept, Used
<1>2. CASE Crash
  BY <1>2, CrashStep
<1>3. ASSUME NEW h \in Handlers, Arrive(h) \/ HandlerStep(h) PROVE StoreInv'
  BY <1>3, SteadyStep, RenameStep, DeleteStep DEF HandlerStep, Steady
<1> QED
  BY <1>1, <1>2, <1>3 DEF Next

\* The invariant holds throughout.
LEMMA StoreInvariant == Spec => []StoreInv
<1> QED
  BY StoreInit, StoreStep, PTL DEF Spec

\* The quota holds on disk, temporary files left by crashes included: Put checks
\* under the account's lock, and nobody else adds a byte before it is done (Room).
THEOREM QuotaHolds == Spec => []QuotaKept
<1>1. StoreInv => QuotaKept
  BY DEF StoreInv
<1> QED
  BY <1>1, StoreInvariant, PTL

\* The cached usage is what a walk would find: no upload is let in, or refused, on a
\* stale figure.
THEOREM CacheNeverStale == Spec => []CacheExact
<1>1. StoreInv => CacheExact
  BY DEF StoreInv, CacheFresh, CacheExact
<1> QED
  BY <1>1, StoreInvariant, PTL

----------------------------------------------------------------------------
\* Listings.

\* What a listing knows while it runs.  Between two pages, what it has not delivered
\* lies after the cursor.  During a walk, what it must have is delivered, collected or
\* still to be visited, and an entry that is no longer there lies after all of it.
Walk(h) ==
    /\ pc[h] \in {"list", "visit"} => since[h] \in SUBSET NamesOf(files[req[h].account])
    /\ pc[h] = "list" =>
         \A n \in since[h] \ listed[h] : \A m \in listed[h] : n > m
    /\ pc[h] = "visit" =>
         /\ IsFiniteSet(page[h]) /\ IsFiniteSet(entries[h])
         /\ since[h] \in SUBSET (listed[h] \cup page[h] \cup entries[h])
         /\ \A n \in page[h] \cup entries[h] : \A m \in listed[h] : n > m
         /\ \A e \in entries[h] :
              e \in NamesOf(files[req[h].account]) \/ \A n \in since[h] : n < e

Walks == \A h \in Handlers : Walk(h)

ListInv == Walks /\ ListingComplete

\* The names in use are finitely many, since the files are.
LEMMA NamesFinite ==
    ASSUME NEW fs, IsFiniteSet(fs)
    PROVE  IsFiniteSet(NamesOf(fs))
<1> DEFINE NameOf == [f \in fs |-> f.name]
<1>1. NameOf \in Surjection(fs, NamesOf(fs))
  BY DEF Surjection, NamesOf
<1> QED
  BY <1>1, FS_Surjection

\* A page cut at PageSize is a beginning of what was collected, and all of it when
\* there is no more.
LEMMA PageCut ==
    ASSUME NEW names \in SUBSET Nat, IsFiniteSet(names)
    PROVE  /\ FirstPage(names) \in SUBSET names
           /\ \A n \in names \ FirstPage(names) : \A m \in FirstPage(names) : n > m
           /\ Cardinality(names) <= PageSize => FirstPage(names) = names
<1> DEFINE Below(n) == {m \in names : m < n}
<1>1. \A n \in names : IsFiniteSet(Below(n)) /\ Cardinality(Below(n)) \in Nat
  <2> TAKE n \in names
  <2>1. Below(n) \in SUBSET names
    OBVIOUS
  <2> QED
    BY <2>1, FS_Subset, FS_CardinalityType
<1>2. ASSUME NEW n \in names \ FirstPage(names), NEW m \in FirstPage(names)
      PROVE  n > m
  <2> SUFFICES ASSUME n <= m PROVE FALSE
    BY DEF FirstPage
  <2>1. m \in names /\ Cardinality(Below(m)) < PageSize /\ ~(Cardinality(Below(n)) < PageSize)
    BY DEF FirstPage
  <2>2. Below(n) \in SUBSET Below(m)
    <3>1. n \in Nat /\ m \in Nat /\ \A x \in names : x \in Nat
      BY <2>1
    <3>2. \A x \in names : x < n => x < m
      BY <3>1
    <3> QED
      BY <3>2
  <2>3. Cardinality(Below(n)) <= Cardinality(Below(m))
    BY <1>1, <2>1, <2>2, FS_Subset
  <2> HIDE DEF Below
  <2> QED
    BY <1>1, <2>1, <2>3, StoreAssumption
<1>3. ASSUME Cardinality(names) <= PageSize, NEW n \in names
      PROVE  n \in FirstPage(names)
  <2>1. Below(n) \in SUBSET names /\ Below(n) # names
    OBVIOUS
  <2>2. Cardinality(Below(n)) <= Cardinality(names) /\ Cardinality(names) # Cardinality(Below(n))
    BY <2>1, FS_Subset
  <2>3. Cardinality(names) \in Nat
    BY FS_CardinalityType
  <2>4. Cardinality(Below(n)) < PageSize
    BY <1>1, <1>3, <2>2, <2>3, StoreAssumption
  <2> QED
    BY <2>4 DEF FirstPage
<1> QED
  BY <1>2, <1>3 DEF FirstPage

\* There is no listing at the start.
LEMMA ListInit == Init => ListInv
BY DEF Init, ListInv, Walks, Walk, ListingComplete

\* A listing keeps its promise when somebody else's step leaves its names in place
\* and, where one is deleted, the names after it are no longer expected.
LEMMA OthersKeepWalk ==
    ASSUME StoreInv, NEW h \in Handlers, Walk(h),
           pc'[h] = pc[h], req'[h] = req[h], entries'[h] = entries[h], page'[h] = page[h],
           listed'[h] = listed[h],
           \/ /\ since'[h] = since[h]
              /\ pc[h] \in {"list", "visit"} =>
                   NamesOf(files[req[h].account]) \in SUBSET NamesOf(files'[req[h].account])
           \/ since'[h] = {n \in since[h] : \A m \in Gone(req[h].account) : n < m}
    PROVE  Walk(h)'
<1> DEFINE before == NamesOf(files[req[h].account])
           after == NamesOf(files'[req[h].account])
<1> SUFFICES ASSUME pc[h] \in {"list", "visit"} PROVE Walk(h)'
  BY DEF Walk
<1>1. since'[h] \in SUBSET since[h] /\ since[h] \in SUBSET Nat /\ entries[h] \in SUBSET Nat
  BY StoreAssumption DEF StoreInv, TypeOK
<1>2. \A n \in since'[h] : n \in before => n \in after
  <2>1. CASE since'[h] = since[h] /\ before \in SUBSET after
    BY <2>1
  <2>2. CASE since'[h] = {n \in since[h] : \A m \in before \ after : n < m}
    <3> SUFFICES ASSUME NEW n \in since'[h], n \in before, n \notin after PROVE FALSE
      OBVIOUS
    <3>1. n < n /\ n \in Nat
      BY <1>1, <2>2
    <3> QED
      BY <3>1
  <2> QED
    BY <2>1, <2>2 DEF Gone
<1>3. \A e \in entries[h] : e \in before => e \in after \/ \A n \in since'[h] : n < e
  BY DEF Gone
<1>4. NamesOf(files[req[h].account])' = after
  BY DEF NamesOf
<1> HIDE DEF before, after
<1>5. pc'[h] \in {"list", "visit"} => since'[h] \in SUBSET after
  BY <1>1, <1>2 DEF Walk, before
<1>6. pc'[h] = "list" => \A n \in since'[h] \ listed'[h] : \A m \in listed'[h] : n > m
  BY <1>1 DEF Walk
<1>7. pc'[h] = "visit" =>
        /\ IsFiniteSet(page'[h]) /\ IsFiniteSet(entries'[h])
        /\ since'[h] \in SUBSET (listed'[h] \cup page'[h] \cup entries'[h])
        /\ \A n \in page'[h] \cup entries'[h] : \A m \in listed'[h] : n > m
  BY <1>1 DEF Walk
<1>8. pc'[h] = "visit" => \A e \in entries'[h] : e \in after \/ \A n \in since'[h] : n < e
  BY <1>1, <1>3 DEF Walk, before
<1> QED
  BY <1>4, <1>5, <1>6, <1>7, <1>8 DEF Walk

\* A new listing expects what is there.
LEMMA ArriveWalk ==
    ASSUME StoreInv, NEW h \in Handlers, Arrive(h)
    PROVE  Walk(h)'
<1>1. PICK r \in Request :
         /\ req' = [req EXCEPT ![h] = r] /\ pc' = [pc EXCEPT ![h] = r.kind]
         /\ listed' = [listed EXCEPT ![h] = {}]
         /\ since' = [since EXCEPT ![h] = IF r.kind = "list" THEN NamesOf(files[r.account]) ELSE {}]
  BY DEF Arrive, Goto
<1>2. pc'[h] = r.kind /\ req'[h] = r /\ r.kind \in {"put", "get", "delete", "list"} /\ listed'[h] = {}
      /\ since'[h] = IF r.kind = "list" THEN NamesOf(files[r.account]) ELSE {}
  BY <1>1, StoreAssumption DEF StoreInv, TypeOK, Request
<1>3. NamesOf(files[req[h].account])' = NamesOf(files[r.account])
  BY <1>2 DEF Arrive, disk, NamesOf
<1> QED
  BY <1>2, <1>3 DEF Walk

\* A walk begins with what lies after the cursor.
LEMMA ReadDirWalk ==
    ASSUME StoreInv, NEW h \in Handlers, Walk(h), ReadDir(h)
    PROVE  Walk(h)'
<1> DEFINE now == NamesOf(files[req[h].account])
<1>1. req[h].account \in Accounts
  BY DEF StoreInv, TypeOK, ReadDir, Request
<1>2. now \in SUBSET Nat /\ IsFiniteSet(now)
  <2>1. IsFiniteSet(files[req[h].account]) /\ files[req[h].account] \in SUBSET File
    BY <1>1 DEF StoreInv, TypeOK
  <2>2. now \in SUBSET Names
    BY <2>1 DEF NamesOf, File
  <2> QED
    BY <2>1, <2>2, NamesFinite, StoreAssumption
<1>3. NamesOf(files[req[h].account])' = now
  BY DEF ReadDir, disk, NamesOf
<1> HIDE DEF now
<1>4. /\ pc'[h] = "visit" /\ pc[h] = "list" /\ listed'[h] = listed[h] /\ since'[h] = since[h]
      /\ page'[h] = {} /\ entries'[h] = {n \in now : \A m \in listed[h] : n > m}
  BY DEF ReadDir, Goto, StoreInv, TypeOK, AfterCursor, now
<1>5. IsFiniteSet(entries'[h]) /\ IsFiniteSet(page'[h])
  <2>1. entries'[h] \in SUBSET now
    BY <1>4
  <2> QED
    BY <1>2, <1>4, <2>1, FS_Subset, FS_EmptySet
<1>6. since[h] \in SUBSET now
  BY <1>4 DEF Walk, now
<1>7. since'[h] \in SUBSET (listed'[h] \cup page'[h] \cup entries'[h])
  BY <1>4, <1>6 DEF Walk
<1> QED
  BY <1>3, <1>4, <1>5, <1>6, <1>7 DEF Walk

\* The next entry is collected; one that has gone ends the walk before anything that is
\* still expected.
LEMMA VisitWalk ==
    ASSUME StoreInv, NEW h \in Handlers, Walk(h), Visit(h)
    PROVE  Walk(h)'
<1> DEFINE n == Min(entries[h])
           now == NamesOf(files[req[h].account])
<1>1. entries[h] \in SUBSET Nat /\ since[h] \in SUBSET Nat
  BY StoreAssumption DEF StoreInv, TypeOK
<1>2. n \in entries[h] /\ \A e \in entries[h] : n <= e
  BY <1>1, LeastName DEF Visit
<1>3. NamesOf(files[req[h].account])' = now
  BY DEF Visit, disk, NamesOf
<1>4. pc'[h] = "visit" /\ pc[h] = "visit" /\ listed'[h] = listed[h] /\ since'[h] = since[h]
  BY DEF Visit
<1>5. IF n \in now
        THEN page'[h] = page[h] \cup {n} /\ entries'[h] = entries[h] \ {n}
        ELSE page'[h] = page[h] /\ entries'[h] = {}
  BY DEF Visit, StoreInv, TypeOK
<1> HIDE DEF n, now
<1>6. IsFiniteSet(page'[h]) /\ IsFiniteSet(entries'[h])
  <2>1. IsFiniteSet(page[h]) /\ IsFiniteSet(entries[h])
    BY <1>4 DEF Walk
  <2>2. IsFiniteSet(page[h] \cup {n}) /\ IsFiniteSet(entries[h] \ {n}) /\ IsFiniteSet({})
    BY <2>1, FS_AddElement, FS_RemoveElement, FS_EmptySet
  <2> QED
    BY <1>5, <2>1, <2>2
<1>7. since'[h] \in SUBSET (listed'[h] \cup page'[h] \cup entries'[h])
  <2>1. CASE n \in now
    BY <1>2, <1>4, <1>5, <2>1 DEF Walk
  <2>2. CASE n \notin now
    <3>1. \A m \in since[h] : m < n
      BY <1>2, <1>4, <2>2 DEF Walk, now
    <3>2. \A m \in since[h] : m \notin entries[h]
      BY <1>1, <1>2, <3>1
    <3> QED
      BY <1>4, <1>5, <2>2, <3>2 DEF Walk
  <2> QED
    BY <2>1, <2>2
<1>8. \A k \in page'[h] \cup entries'[h] : \A m \in listed'[h] : k > m
  BY <1>2, <1>4, <1>5 DEF Walk
<1>9. \A e \in entries'[h] : e \in now \/ \A m \in since'[h] : m < e
  BY <1>4, <1>5 DEF Walk, now
<1>10. since'[h] \in SUBSET now
  BY <1>4 DEF Walk, now
<1> QED
  BY <1>3, <1>4, <1>6, <1>7, <1>8, <1>9, <1>10 DEF Walk

\* A page is delivered: what is left lies after the new cursor, and nothing is left
\* when the listing says it is complete.
LEMMA DeliverWalk ==
    ASSUME StoreInv, NEW h \in Handlers, Walk(h), Deliver(h)
    PROVE  /\ Walk(h)'
           /\ reply'[h] = "listed" => since'[h] \in SUBSET listed'[h] \/ reply[h] = "listed"
<1> DEFINE first == FirstPage(page[h])
<1>1. page[h] \in SUBSET Nat /\ IsFiniteSet(page[h]) /\ pc[h] = "visit" /\ entries[h] = {}
  BY StoreAssumption DEF StoreInv, TypeOK, Walk, Deliver
<1>2. /\ first \in SUBSET page[h]
      /\ \A n \in page[h] \ first : \A m \in first : n > m
      /\ Cardinality(page[h]) <= PageSize => first = page[h]
  BY <1>1, PageCut
<1> HIDE DEF first
<1>3. /\ listed'[h] = listed[h] \cup first /\ since'[h] = since[h] /\ req' = req /\ files' = files
      /\ IF Cardinality(page[h]) > PageSize
           THEN pc'[h] = "list" /\ reply' = reply
           ELSE pc'[h] = "free" /\ reply'[h] = "listed"
  BY DEF Deliver, Goto, Answer, disk, StoreInv, TypeOK, first
<1>4. since[h] \in SUBSET NamesOf(files[req[h].account])
      /\ since[h] \in SUBSET (listed[h] \cup page[h])
      /\ \A n \in page[h] : \A m \in listed[h] : n > m
  BY <1>1 DEF Walk
<1>5. NamesOf(files[req[h].account])' = NamesOf(files[req[h].account])
  BY <1>3 DEF NamesOf
<1>6. \A n \in since'[h] \ listed'[h] : \A m \in listed'[h] : n > m
  BY <1>2, <1>3, <1>4
<1>7. Cardinality(page[h]) \in Nat
  BY <1>1, FS_CardinalityType
<1>8. CASE Cardinality(page[h]) > PageSize
  BY <1>3, <1>4, <1>5, <1>6, <1>8 DEF Walk
<1>9. CASE Cardinality(page[h]) <= PageSize
  <2>1. pc'[h] = "free" /\ since'[h] \in SUBSET listed'[h]
    BY <1>2, <1>3, <1>4, <1>7, <1>9, StoreAssumption
  <2> QED
    BY <2>1 DEF Walk
<1> QED
  BY <1>7, <1>8, <1>9, StoreAssumption

\* The steps of a handler that has nothing to do with listings.
LEMMA OtherWalk ==
    ASSUME StoreInv, NEW h \in Handlers,
           Lock(h) \/ CheckExisting(h) \/ CheckQuota(h) \/ WriteTemp(h) \/ SyncTemp(h)
             \/ Rename(h) \/ WriteFails(h) \/ Delete(h) \/ Get(h)
    PROVE  /\ Walk(h)'
           /\ entries' = entries /\ page' = page /\ listed' = listed /\ req' = req
           /\ reply'[h] = "listed" => reply[h] = "listed"
           /\ \A k \in Handlers \ {h} : reply'[k] = reply[k]
<1>1. pc'[h] \notin {"list", "visit"} /\ (reply'[h] = "listed" => reply[h] = "listed")
      /\ \A k \in Handlers \ {h} : reply'[k] = reply[k]
  <2> USE DEF StoreInv, TypeOK, Goto, Answer
  <2>1. CASE Lock(h) \/ WriteTemp(h) \/ SyncTemp(h) \/ WriteFails(h) \/ Get(h)
    BY <2>1 DEF Lock, WriteTemp, SyncTemp, WriteFails, Get
  <2>2. CASE CheckExisting(h) \/ CheckQuota(h)
    BY <2>2 DEF CheckExisting, CheckQuota
  <2>3. CASE Rename(h) \/ Delete(h)
    BY <2>3 DEF Rename, Delete
  <2> QED
    BY <2>1, <2>2, <2>3
<1>2. entries' = entries /\ page' = page /\ listed' = listed /\ req' = req
  BY DEF Lock, CheckExisting, CheckQuota, WriteTemp, SyncTemp, Rename, WriteFails, Delete, Get, listing
<1> QED
  BY <1>1, <1>2 DEF Walk

\* A step of one handler keeps the walks of the others.
LEMMA OthersWalk ==
    ASSUME StoreInv, NEW h \in Handlers, Arrive(h) \/ HandlerStep(h),
           NEW k \in Handlers \ {h}, Walk(k)
    PROVE  /\ Walk(k)'
           /\ since'[k] \in SUBSET since[k] /\ listed'[k] = listed[k] /\ reply'[k] = reply[k]
<1>1. /\ pc'[k] = pc[k] /\ req'[k] = req[k] /\ entries'[k] = entries[k] /\ page'[k] = page[k]
      /\ listed'[k] = listed[k] /\ reply'[k] = reply[k]
  <2> USE DEF StoreInv, TypeOK, Goto, Answer
  <2>1. CASE Arrive(h)
    BY <2>1 DEF Arrive
  <2>2. CASE Lock(h) \/ WriteTemp(h) \/ SyncTemp(h) \/ WriteFails(h) \/ Get(h)
    BY <2>2 DEF Lock, WriteTemp, SyncTemp, WriteFails, Get, listing
  <2>3. CASE CheckExisting(h) \/ CheckQuota(h)
    BY <2>3 DEF CheckExisting, CheckQuota, listing
  <2>4. CASE Rename(h) \/ Delete(h)
    BY <2>4 DEF Rename, Delete, listing
  <2>5. CASE ReadDir(h) \/ Visit(h)
    BY <2>5 DEF ReadDir, Visit
  <2>6. CASE Deliver(h)
    BY <2>6 DEF Deliver
  <2> QED
    BY <2>1, <2>2, <2>3, <2>4, <2>5, <2>6 DEF HandlerStep
<1>2. CASE Delete(h)
  <2>1. since'[k] = {n \in since[k] : \A m \in Gone(req[k].account) : n < m}
    BY <1>2 DEF Delete, Witness
  <2> QED
    BY <1>1, <2>1, OthersKeepWalk
<1>3. CASE ~Delete(h)
  <2>1. since'[k] = since[k]
    <3>1. CASE Arrive(h)
      BY <3>1 DEF Arrive, StoreInv, TypeOK
    <3> QED
      BY <1>3, <3>1 DEF HandlerStep, Lock, CheckExisting, CheckQuota, WriteTemp, SyncTemp, Rename,
         WriteFails, Get, ReadDir, Visit, Deliver, listing
  <2>2. ASSUME pc[k] \in {"list", "visit"}
        PROVE  NamesOf(files[req[k].account]) \in SUBSET NamesOf(files'[req[k].account])
    <3>0. req[k].account \in Accounts
      BY <2>2 DEF StoreInv, TypeOK, Request
    <3>1. CASE Rename(h)
      <4>1. PICK a \in Accounts : a = req[h].account /\ files' = [files EXCEPT ![a] = @ \cup {NewFile(h)}]
        BY <3>1, RenameEffect
      <4>2. files \in [Accounts -> SUBSET File]
        BY DEF StoreInv, TypeOK
      <4>3. \A b \in Accounts : files[b] \in SUBSET files'[b]
        BY <4>1, <4>2
      <4> QED
        BY <3>0, <4>3 DEF NamesOf
    <3>2. CASE ~Rename(h)
      <4>1. files' = files
        BY <1>3, <3>2, SteadyEffect DEF HandlerStep, Steady
      <4> QED
        BY <4>1
    <3> QED
      BY <3>1, <3>2
  <2> QED
    BY <1>1, <2>1, <2>2, OthersKeepWalk
<1> QED
  BY <1>2, <1>3

\* Every step keeps what listings know.
LEMMA ListStep ==
    ASSUME StoreInv, ListInv, [Next]_vars
    PROVE  ListInv'
<1>1. CASE UNCHANGED vars
  <2>1. \A h \in Handlers : Walk(h)'
    BY <1>1 DEF vars, disk, listing, ListInv, Walks, Walk, NamesOf
  <2> QED
    BY <1>1, <2>1 DEF vars, listing, ListInv, Walks, ListingComplete
<1>2. CASE Crash
  <2>1. Walks'
    BY <1>2 DEF Crash, Walks, Walk
  <2> QED
    BY <1>2, <2>1 DEF Crash, listing, ListInv, ListingComplete
<1>3. ASSUME NEW h \in Handlers, Arrive(h) \/ HandlerStep(h) PROVE ListInv'
  <2>1. \A k \in Handlers : Walk(k)
    BY DEF ListInv, Walks
  <2>2. ASSUME NEW k \in Handlers \ {h}
        PROVE  Walk(k)' /\ (reply'[k] = "listed" => since'[k] \in SUBSET listed'[k])
    BY <1>3, <2>1, <2>2, OthersWalk DEF ListInv, ListingComplete
  <2>3. Walk(h)' /\ (reply'[h] = "listed" => since'[h] \in SUBSET listed'[h])
    <3>1. CASE Arrive(h)
      BY <3>1, ArriveWalk DEF Arrive, StoreInv, TypeOK
    <3>2. CASE ReadDir(h)
      BY <2>1, <3>2, ReadDirWalk DEF ReadDir, ListInv, ListingComplete
    <3>3. CASE Visit(h)
      BY <2>1, <3>3, VisitWalk DEF Visit, ListInv, ListingComplete
    <3>4. CASE Deliver(h)
      <4>1. since'[h] = since[h] /\ listed[h] \in SUBSET listed'[h]
        BY <3>4 DEF Deliver, StoreInv, TypeOK
      <4> QED
        BY <2>1, <3>4, <4>1, DeliverWalk DEF ListInv, ListingComplete
    <3>5. CASE HandlerStep(h) /\ ~(ReadDir(h) \/ Visit(h) \/ Deliver(h))
      <4>1. Walk(h)' /\ listed' = listed /\ (reply'[h] = "listed" => reply[h] = "listed")
        BY <3>5, OtherWalk DEF HandlerStep
      <4>2. since'[h] \in SUBSET since[h]
        BY <3>5 DEF HandlerStep, Lock, CheckExisting, CheckQuota, WriteTemp, SyncTemp, Rename,
           WriteFails, Get, Delete, Witness, listing
      <4> QED
        BY <4>1, <4>2 DEF ListInv, ListingComplete
    <3> QED
      BY <1>3, <3>1, <3>2, <3>3, <3>4, <3>5
  <2>4. \A k \in Handlers : Walk(k)' /\ (reply'[k] = "listed" => since'[k] \in SUBSET listed'[k])
    BY <2>2, <2>3
  <2> QED
    BY <2>4 DEF ListInv, Walks, ListingComplete
<1> QED
  BY <1>1, <1>2, <1>3 DEF Next

\* A listing that says it is complete has every object that was there for as long as it
\* ran, page after page, whatever was uploaded meanwhile, up to the first object that
\* was deleted under it - for any page size and any number of concurrent requests.
THEOREM ListingsComplete == Spec => []ListingComplete
<1>1. ListInv => ListingComplete
  BY DEF ListInv
<1> QED
  BY <1>1, StoreInvariant, ListInit, ListStep, PTL DEF Spec

----------------------------------------------------------------------------
\* The interface.

\* What the interface shows of an account.
Shown(fs) == {Seen(f) : f \in fs}

\* The interface counts the same bytes.
LEMMA ShownBytes ==
    ASSUME NEW fs \in SUBSET File, IsFiniteSet(fs), \A f, g \in fs : f.name = g.name => f = g
    PROVE  Interface!Bytes(Shown(fs)) = Bytes(fs)
<1> DEFINE U == UNION {{f} \X (1 .. f.bytes) : f \in fs}
           V == UNION {{s} \X (1 .. s.bytes) : s \in Shown(fs)}
           Show == [u \in U |-> <<Seen(u[1]), u[2]>>]
<1>1. \A f \in fs : Seen(f).name = f.name /\ Seen(f).bytes = f.bytes
  BY DEF Seen
<1>2. \A u \in U : u = <<u[1], u[2]>> /\ u[1] \in fs /\ u[2] \in 1 .. u[1].bytes
  OBVIOUS
<1>3. Show \in [U -> V]
  <2> SUFFICES ASSUME NEW u \in U PROVE <<Seen(u[1]), u[2]>> \in V
    OBVIOUS
  <2>1. Seen(u[1]) \in Shown(fs) /\ u[2] \in 1 .. Seen(u[1]).bytes
    BY <1>1, <1>2 DEF Shown
  <2> QED
    BY <2>1
<1>4. \A t, u \in U : Show[t] = Show[u] => t = u
  <2> SUFFICES ASSUME NEW t \in U, NEW u \in U, Show[t] = Show[u] PROVE t = u
    OBVIOUS
  <2>1. Seen(t[1]) = Seen(u[1]) /\ t[2] = u[2]
    OBVIOUS
  <2>2. t[1] = u[1]
    BY <1>1, <1>2, <2>1
  <2> QED
    BY <1>2, <2>1, <2>2
<1>5. \A v \in V : \E u \in U : Show[u] = v
  <2> SUFFICES ASSUME NEW v \in V PROVE \E u \in U : Show[u] = v
    OBVIOUS
  <2>1. PICK f \in fs : v \in {Seen(f)} \X (1 .. Seen(f).bytes)
    BY DEF Shown
  <2>2. <<f, v[2]>> \in U /\ v = <<Seen(f), v[2]>>
    BY <1>1, <2>1
  <2> QED
    BY <2>2
<1>6. Show \in Bijection(U, V)
  BY <1>3, <1>4, <1>5 DEF Bijection, Injection, Surjection, IsInjective
<1>7. IsFiniteSet(U)
  BY BytesFinite DEF File
<1>8. Cardinality(V) = Cardinality(U)
  BY <1>6, <1>7, FS_Bijection DEF ExistsBijection
<1>9. Bytes(fs) = Cardinality(U)
  BY DEF Bytes
<1>10. Interface!Bytes(Shown(fs)) = Cardinality(V)
  BY DEF Interface!Bytes, Interface!Cardinality, Cardinality, Interface!IsFiniteSet, IsFiniteSet
<1> QED
  BY <1>8, <1>9, <1>10

\* The interface's objects, account by account.
Objects == [a \in Accounts |-> {Seen(f) : f \in files[a]}]

\* A rename is an upload of the interface.
LEMMA RenameAdds ==
    ASSUME StoreInv, NEW h \in Handlers, Rename(h)
    PROVE  Interface!Next
<1>1. PICK a \in Accounts : a = req[h].account
  BY RenameEffect
<1> DEFINE n == req[h].name
           b == req[h].body
           f == NewFile(h)
<1>2. /\ req[h] \in Request /\ f.bytes = f.body.size /\ f.name \notin NamesOf(files[a])
      /\ files' = [files EXCEPT ![a] = @ \cup {f}]
  BY <1>1, RenameEffect
<1>3. n \in Names /\ b \in Bodies /\ b.size \in Nat
  BY <1>2, StoreAssumption DEF Request
<1>4. f.name = n /\ Seen(f) = [name |-> n, body |-> b, bytes |-> b.size]
  BY DEF NewFile, Seen
<1>5. n \notin {s.name : s \in Objects[a]}
  BY <1>2, <1>4 DEF Objects, Seen, NamesOf
<1>6. Quota > 0 => Interface!Bytes(Objects[a]) + b.size <= Quota
  <2> SUFFICES ASSUME Quota > 0 PROVE Interface!Bytes(Objects[a]) + b.size <= Quota
    OBVIOUS
  <2>1. files[a] \in SUBSET File /\ IsFiniteSet(files[a])
        /\ (\A g, k \in files[a] : g.name = k.name => g = k) /\ leaked[a] \in Nat
    BY DEF StoreInv, TypeOK, NamesUnique
  <2>2. Interface!Bytes(Objects[a]) = Bytes(files[a])
    <3>1. Objects[a] = Shown(files[a])
      BY DEF Objects, Shown
    <3> QED
      BY <2>1, <3>1, ShownBytes
  <2>3. Bytes(files[a]) + leaked[a] + b.size <= Quota
    BY <1>1 DEF StoreInv, Room, Used, Rename, Writes
  <2>4. Bytes(files[a]) \in Nat
    BY UsedType DEF StoreInv
  <2> QED
    BY <1>3, <2>1, <2>2, <2>3, <2>4, StoreAssumption
<1>7. Objects' = [Objects EXCEPT ![a] = @ \cup {Seen(f)}]
  <2>1. \A c \in Accounts : files'[c] = IF c = a THEN files[a] \cup {f} ELSE files[c]
    BY <1>2 DEF StoreInv, TypeOK
  <2>2. ASSUME NEW c \in Accounts
        PROVE  {Seen(g) : g \in files'[c]} = IF c = a THEN Objects[a] \cup {Seen(f)} ELSE Objects[c]
    <3> HIDE DEF f
    <3> QED
      BY <2>1 DEF Objects
  <2>3. Objects' = [c \in Accounts |-> {Seen(g) : g \in files'[c]}]
    BY DEF Objects, Seen
  <2> QED
    BY <2>2, <2>3 DEF Objects
<1> HIDE DEF n, b, f
<1>8. \E m \in Names, c \in Bodies :
         /\ m \notin {s.name : s \in Objects[a]}
         /\ Quota > 0 => Interface!Bytes(Objects[a]) + c.size <= Quota
         /\ Objects' = [Objects EXCEPT ![a] = @ \cup {[name |-> m, body |-> c, bytes |-> c.size]}]
  BY <1>3, <1>4, <1>5, <1>6, <1>7
<1>9. Interface!Add(a)
  BY <1>8, Zenon DEF Interface!Add, Objects
<1> QED
  BY <1>9 DEF Interface!Next

\* A delete takes one object away, or none.
LEMMA DeleteDrops ==
    ASSUME StoreInv, NEW h \in Handlers, Delete(h)
    PROVE  Interface!Next \/ Objects' = Objects
<1>1. PICK a \in Accounts : a = req[h].account
  BY DEF StoreInv, TypeOK, Delete, Request
<1>2. files' = [files EXCEPT ![a] = {f \in @ : f.name # req[h].name}]
  BY <1>1 DEF Delete
<1>3. \A c \in Accounts : files'[c] = IF c = a THEN {f \in files[a] : f.name # req[h].name} ELSE files[c]
  BY <1>2 DEF StoreInv, TypeOK
<1>4. Objects' = [c \in Accounts |-> {Seen(g) : g \in files'[c]}]
  BY DEF Objects, Seen
<1>5. CASE req[h].name \notin NamesOf(files[a])
  <2>1. \A c \in Accounts : files'[c] = files[c]
    BY <1>3, <1>5 DEF NamesOf
  <2> QED
    BY <1>4, <2>1 DEF Objects
<1>6. CASE req[h].name \in NamesOf(files[a])
  <2>1. PICK f \in files[a] : f.name = req[h].name
    BY <1>6 DEF NamesOf
  <2>2. {g \in files[a] : g.name # req[h].name} = files[a] \ {f}
    BY <2>1 DEF StoreInv, NamesUnique
  <2>3. \A g \in files[a] : Seen(g) = Seen(f) => g = f
    BY DEF Seen, StoreInv, NamesUnique
  <2>4. {Seen(g) : g \in files[a] \ {f}} = Objects[a] \ {Seen(f)}
    BY <2>3 DEF Objects
  <2>5. Objects' = [Objects EXCEPT ![a] = @ \ {Seen(f)}]
    BY <1>3, <1>4, <2>2, <2>4 DEF Objects
  <2>6. Seen(f) \in Objects[a]
    BY DEF Objects
  <2>7. Interface!Drop(a)
    BY <2>5, <2>6 DEF Interface!Drop, Objects
  <2> QED
    BY <2>7 DEF Interface!Next
<1> QED
  BY <1>5, <1>6

\* The file store implements the interface: whatever the interleaving and wherever a
\* crash falls, an object appears whole, under a free name and within the quota, and
\* then only ever disappears.
THEOREM StoreImplemented == Spec => ImplementsStore
<1>1. Init => Interface!Init
  BY DEF Init, Interface!Init
<1>2. StoreInv /\ [Next]_vars => [Interface!Next]_([a \in Accounts |-> {Seen(f) : f \in files[a]}])
  <2> SUFFICES ASSUME StoreInv, [Next]_vars PROVE Interface!Next \/ Objects' = Objects
    BY DEF Objects
  <2>1. ASSUME files' = files PROVE Objects' = Objects
    BY <2>1 DEF Objects, Seen
  <2>2. CASE UNCHANGED vars
    BY <2>1, <2>2 DEF vars, disk
  <2>3. CASE Crash
    BY <2>1, <2>3, CrashEffect
  <2>4. ASSUME NEW h \in Handlers, Arrive(h) \/ HandlerStep(h)
        PROVE  Interface!Next \/ Objects' = Objects
    <3>1. Steady(h) \/ Rename(h) \/ Delete(h)
      BY <2>4 DEF HandlerStep, Steady
    <3> QED
      BY <2>1, <3>1, SteadyEffect, RenameAdds, DeleteDrops
  <2> QED
    BY <2>2, <2>3, <2>4 DEF Next
<1> QED
  BY <1>1, <1>2, StoreInvariant, PTL DEF Spec, ImplementsStore, Interface!Spec
=============================================================================
