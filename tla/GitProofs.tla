----------------------------- MODULE GitProofs -----------------------------
(***************************************************************************)
(* What holds of the git adapter for any number of devices, writes,        *)
(* snapshots, failing requests and killed apps.                            *)
(***************************************************************************)
EXTENDS Git, FiniteSetTheorems, TLAPS

----------------------------------------------------------------------------
\* Histories.

\* A prefix agrees with the whole, commit by commit.
LEMMA PrefixMeans ==
    ASSUME NEW s \in Seq(Revision), NEW t \in Seq(Revision)
    PROVE  IsPrefix(s, t) <=> Len(s) <= Len(t) /\ \A i \in 1 .. Len(s) : s[i] = t[i]
<1>1. Len(s) \in Nat /\ Len(t) \in Nat
  OBVIOUS
<1>2. SubSeq(s, 1, Len(s)) = s
  OBVIOUS
<1>3. ASSUME Len(s) <= Len(t)
      PROVE  /\ SubSeq(t, 1, Len(s)) \in Seq(Revision)
             /\ Len(SubSeq(t, 1, Len(s))) = Len(s)
             /\ \A i \in 1 .. Len(s) : SubSeq(t, 1, Len(s))[i] = t[i]
  BY <1>1, <1>3
<1>4. ASSUME Len(s) <= Len(t), \A i \in 1 .. Len(s) : s[i] = t[i]
      PROVE  s = SubSeq(t, 1, Len(s))
  BY <1>1, <1>3, <1>4
<1> QED
  BY <1>1, <1>2, <1>3, <1>4 DEF IsPrefix

\* The newest commit of a history is its last one.
LEMMA TreeMeans ==
    ASSUME NEW s \in Seq(Revision)
    PROVE  /\ Tree(s) \in SUBSET Object
           /\ s # << >> => Len(s) \in 1 .. Len(s) /\ Tree(s) = s[Len(s)].tree
           /\ s = << >> => Tree(s) = {}
<1>1. CASE s = << >>
  BY <1>1 DEF Tree
<1>2. CASE s # << >>
  <2>1. Len(s) \in Nat /\ Len(s) # 0
    BY <1>2
  <2>2. Len(s) \in 1 .. Len(s) /\ s[Len(s)] \in Revision
    BY <2>1
  <2>3. Tree(s) = s[Len(s)].tree
    BY <1>2 DEF Tree, Last
  <2> QED
    BY <1>2, <2>2, <2>3 DEF Revision
<1> QED
  BY <1>1, <1>2

\* The oldest of a set of objects is one of them.
LEMMA OldestMember ==
    ASSUME NEW objects \in SUBSET Object, objects # {}
    PROVE  Oldest(objects) \in objects
<1> DEFINE S == {o.n : o \in objects}
           Below == {ss \in Nat \X Nat : ss[1] < ss[2]}
<1>1. S \in SUBSET Nat /\ S # {}
  BY DEF Object
<1>2. IsWellFoundedOn(Below, Nat)
  BY NatLessThanWellFounded DEF OpToRel
<1>3. PICK x \in S : \A y \in S : ~ (<<y, x>> \in Below)
  BY <1>1, <1>2, WFMin
<1>4. ASSUME NEW y \in S PROVE x <= y
  <2>1. x \in Nat /\ y \in Nat /\ <<y, x>> \in Nat \X Nat
    BY <1>1
  <2>2. ~ (<<y, x>>[1] < <<y, x>>[2])
    BY <1>3, <2>1
  <2> QED
    BY <2>1, <2>2
<1>5. PICK o \in objects : o.n = x
  OBVIOUS
<1>6. \A p \in objects : o.n <= p.n
  BY <1>4, <1>5
<1> QED
  BY <1>6 DEF Oldest

----------------------------------------------------------------------------
\* Types.

\* At the start.
LEMMA TypeInit == Init => TypeOK
BY FS_EmptySet DEF Init, TypeOK, Steps

\* Where a cycle takes an object, it takes one of those it has to do.
LEMMA OldestType ==
    ASSUME TypeOK, NEW d \in Devices, pc[d] \in {"put", "add", "mark", "unlink", "unstage"}
    PROVE  Oldest(todo[d]) \in todo[d] /\ Oldest(todo[d]) \in Object
BY OldestMember DEF TypeOK

\* The end of a cycle.
LEMMA EndCycleType ==
    ASSUME TypeOK, NEW d \in Devices, NEW outcome \in {"idle", "syncing", "error", "done"},
           EndCycle(d, outcome)
    PROVE  /\ pc' \in [Devices -> Steps]
           /\ staged' \in [Devices -> SUBSET Object] /\ todo' \in [Devices -> SUBSET Object]
           /\ status' \in [Devices -> {"idle", "syncing", "error", "done"}]
           /\ \A e \in Devices : pc'[e] \in {"put", "add", "mark", "unlink", "unstage"} => todo'[e] # {}
BY DEF EndCycle, Goto, TypeOK, Steps

\* A user's write.
LEMMA TypeWrite ==
    ASSUME TypeOK, NEW d \in Devices, Write(d)
    PROVE  TypeOK'
<1> DEFINE o == [by |-> d, n |-> Cardinality(written[d]) + 1]
<1>1. IsFiniteSet(written[d]) /\ Cardinality(written[d]) \in Nat
  BY FS_CardinalityType DEF TypeOK
<1>2. o \in Object
  BY <1>1 DEF Object
<1>3. written' = [written EXCEPT ![d] = @ \cup {o}] /\ unsynced' = [unsynced EXCEPT ![d] = @ \cup {o}]
  BY DEF Write
<1> HIDE DEF o
<1>4. \A e \in Devices : IsFiniteSet(written'[e])
  BY <1>1, <1>3, FS_AddElement DEF TypeOK
<1>5. written' \in [Devices -> SUBSET Object] /\ unsynced' \in [Devices -> SUBSET Object]
  BY <1>2, <1>3 DEF TypeOK
<1> QED
  BY <1>4, <1>5 DEF TypeOK, Write, clone, cycle, history

\* Steps that only move on.
LEMMA TypeMove ==
    ASSUME TypeOK, NEW d \in Devices,
           Begin(d) \/ AskRefs(d) \/ NothingToFetch(d) \/ NoSnapshot(d)
    PROVE  TypeOK'
<1> USE DEF TypeOK, Goto, Steps, log, clone, history
<1>1. CASE Begin(d)
  BY <1>1 DEF Begin
<1>2. CASE AskRefs(d)
  BY <1>2 DEF AskRefs
<1>3. CASE NothingToFetch(d)
  BY <1>3 DEF NothingToFetch, After
<1>4. CASE NoSnapshot(d)
  BY <1>4 DEF NoSnapshot
<1> QED
  BY <1>1, <1>2, <1>3, <1>4

\* Steps that change the clone's branch.
LEMMA TypeBranch ==
    ASSUME TypeOK, NEW d \in Devices, cloneOrInit(d) \/ FastForward(d) \/ Commit(d)
    PROVE  TypeOK'
<1>1. commits[d] \in Seq(Revision) /\ remote \in Seq(Revision) /\ << >> \in Seq(Revision)
  BY DEF TypeOK
<1>2. CASE cloneOrInit(d)
  <2>1. PICK fetched \in Seq(Revision) :
           /\ commits' = [commits EXCEPT ![d] = fetched]
           /\ index' = [index EXCEPT ![d] = Tree(fetched)]
           /\ work' = [work EXCEPT ![d] = Tree(fetched)]
    BY <1>1, <1>2 DEF cloneOrInit
  <2>2. Tree(fetched) \in SUBSET Object
    BY TreeMeans
  <2> QED
    BY <1>2, <2>1, <2>2 DEF cloneOrInit, TypeOK, Goto, Steps, log, history
<1>3. CASE FastForward(d)
  <2>1. PICK head \in Seq(Revision) :
           /\ commits' = [commits EXCEPT ![d] = head]
           /\ index' = [index EXCEPT ![d] = Tree(head)]
           /\ work' = [work EXCEPT ![d] = CheckedOut(@, index[d], Tree(head))]
    BY <1>1, <1>3 DEF FastForward
  <2>2. Tree(head) \in SUBSET Object
    BY TreeMeans
  <2>3. CheckedOut(work[d], index[d], Tree(head)) \in SUBSET Object
    BY <2>2 DEF CheckedOut, TypeOK
  <2>4. /\ commits' \in [Devices -> Seq(Revision)]
        /\ index' \in [Devices -> SUBSET Object] /\ work' \in [Devices -> SUBSET Object]
    BY <2>1, <2>2, <2>3 DEF TypeOK
  <2> QED
    BY <1>3, <2>4 DEF FastForward, TypeOK, Goto, Steps, After, log, history
<1>4. CASE Commit(d)
  <2>1. [by |-> d, tree |-> index[d]] \in Revision
    BY DEF TypeOK, Revision
  <2>2. commits' \in [Devices -> Seq(Revision)]
    BY <1>1, <1>4, <2>1 DEF Commit, TypeOK
  <2> QED
    BY <1>4, <2>2 DEF Commit, TypeOK, Goto, Steps, log, history
<1> QED
  BY <1>2, <1>3, <1>4

\* Steps that choose objects to put or to remove.
LEMMA TypeChoose ==
    ASSUME TypeOK, NEW d \in Devices, Pull(d) \/ TakeSnapshot(d) \/ ChooseSuperseded(d)
    PROVE  TypeOK'
<1> USE DEF TypeOK, Goto, Steps, log, clone, history
<1>1. CASE Pull(d)
  BY <1>1 DEF Pull
<1>2. CASE TakeSnapshot(d)
  <2>1. snapshotOf(d) \in Object
    BY DEF snapshotOf, Object
  <2> QED
    BY <1>2, <2>1 DEF TakeSnapshot
<1>3. CASE ChooseSuperseded(d)
  <2>1. PICK superseded \in SUBSET Object :
           /\ todo' = [todo EXCEPT ![d] = superseded]
           /\ Goto(d, IF superseded = {} THEN "flush" ELSE "unlink")
    BY <1>3, ZenonT(60) DEF ChooseSuperseded
  <2> QED
    BY <1>3, <2>1 DEF ChooseSuperseded
<1> QED
  BY <1>1, <1>2, <1>3

\* Steps on one object.
LEMMA TypeObject ==
    ASSUME TypeOK, NEW d \in Devices,
           PutFile(d) \/ AddFile(d) \/ Mark(d) \/ Unlink(d) \/ remove(d)
    PROVE  TypeOK'
<1> DEFINE o == Oldest(todo[d])
<1>1. o \in todo[d] /\ o \in Object
  BY OldestType DEF PutFile, AddFile, Mark, Unlink, remove
<1>2. CASE PutFile(d)
  BY <1>1, <1>2 DEF PutFile, TypeOK, Goto, Steps, log, history
<1>3. CASE AddFile(d)
  BY <1>1, <1>3 DEF AddFile, TypeOK, Goto, Steps, log, history
<1>4. CASE Mark(d)
  <2>1. /\ unsynced' = [unsynced EXCEPT ![d] = @ \ {o}]
        /\ todo' = [todo EXCEPT ![d] = @ \ {o}]
        /\ pushed' = [pushed EXCEPT ![d] = @ \/ ~IsSnapshot(o)]
        /\ pc' = [pc EXCEPT ![d] = IF IsSnapshot(o) THEN "prune"
                                   ELSE IF todo[d] = {o} THEN "threshold" ELSE "put"]
    BY <1>4 DEF Mark, Goto
  <2> HIDE DEF o
  <2>2. pushed' \in [Devices -> BOOLEAN]
    BY <2>1 DEF TypeOK
  <2>3. /\ pc' \in [Devices -> Steps] /\ todo' \in [Devices -> SUBSET Object]
        /\ \A e \in Devices : pc'[e] \in {"put", "add", "mark", "unlink", "unstage"} => todo'[e] # {}
    BY <1>1, <2>1 DEF TypeOK, Steps
  <2>4. unsynced' \in [Devices -> SUBSET Object]
    BY <2>1 DEF TypeOK
  <2> QED
    BY <1>4, <2>2, <2>3, <2>4 DEF Mark, TypeOK, clone, history
<1>5. CASE Unlink(d)
  BY <1>1, <1>5 DEF Unlink, TypeOK, Goto, Steps, log, history
<1>6. CASE remove(d)
  <2>1. /\ index' = [index EXCEPT ![d] = @ \ {o}]
        /\ staged' = [staged EXCEPT ![d] = @ \cup {o}]
        /\ removed' = removed \cup {o}
        /\ todo' = [todo EXCEPT ![d] = @ \ {o}]
        /\ pc' = [pc EXCEPT ![d] = IF todo[d] = {o} THEN "flush" ELSE "unlink"]
    BY <1>6 DEF remove, Goto
  <2> HIDE DEF o
  <2>2. /\ pc' \in [Devices -> Steps] /\ todo' \in [Devices -> SUBSET Object]
        /\ \A e \in Devices : pc'[e] \in {"put", "add", "mark", "unlink", "unstage"} => todo'[e] # {}
    BY <1>1, <2>1 DEF TypeOK, Steps
  <2>3. /\ index' \in [Devices -> SUBSET Object] /\ staged' \in [Devices -> SUBSET Object]
        /\ removed' \in SUBSET Object
    BY <1>1, <2>1 DEF TypeOK
  <2> QED
    BY <1>6, <2>2, <2>3 DEF remove, TypeOK, log
<1> QED
  BY <1>2, <1>3, <1>4, <1>5, <1>6

\* Steps that end a cycle.
LEMMA TypeEnd ==
    ASSUME TypeOK, NEW d \in Devices,
           ListFails(d) \/ FlushNothing(d) \/ Push(d) \/ PushRefused(d) \/ RequestFails(d) \/ Crash(d)
    PROVE  TypeOK'
<1>1. CASE ListFails(d) /\ pc[d] = "prune"
  BY <1>1 DEF ListFails, TypeOK, Goto, Steps, log, clone, history
<1>2. CASE ListFails(d) /\ pc[d] # "prune"
  <2>1. EndCycle(d, "error")
    BY <1>2 DEF ListFails
  <2> QED
    BY <1>2, <2>1, EndCycleType DEF ListFails, TypeOK, log, clone, history
<1>3. CASE FlushNothing(d)
  <2>1. EndCycle(d, "done")
    BY <1>3 DEF FlushNothing
  <2> QED
    BY <1>3, <2>1, EndCycleType DEF FlushNothing, TypeOK, log, clone, history
<1>4. CASE Push(d)
  <2>1. EndCycle(d, "done") /\ remote' \in Seq(Revision)
    BY <1>4 DEF Push, TypeOK
  <2> QED
    BY <1>4, <2>1, EndCycleType DEF Push, TypeOK, log, clone, history
<1>5. CASE PushRefused(d)
  <2>1. EndCycle(d, "error")
    BY <1>5 DEF PushRefused
  <2> QED
    BY <1>5, <2>1, EndCycleType DEF PushRefused, TypeOK, log, clone, history
<1>6. CASE RequestFails(d)
  <2>1. remote' \in Seq(Revision) /\ faults' \in Nat
    BY <1>6, GitAssumption DEF RequestFails, Fault, TypeOK
  <2>2. CASE pc[d] = "prune"
    BY <1>6, <2>1, <2>2 DEF RequestFails, TypeOK, Goto, Steps, log, clone, history
  <2>3. CASE pc[d] # "prune"
    <3>1. EndCycle(d, "error")
      BY <1>6, <2>3 DEF RequestFails
    <3> QED
      BY <1>6, <2>1, <3>1, EndCycleType DEF RequestFails, TypeOK, log, clone, history
  <2> QED
    BY <2>2, <2>3
<1>7. CASE Crash(d)
  <2>1. EndCycle(d, "idle") /\ faults' \in Nat
    BY <1>7, GitAssumption DEF Crash, Fault, TypeOK
  <2>2. cloned' \in [Devices -> BOOLEAN] /\ pushed' \in [Devices -> BOOLEAN]
    BY <1>7 DEF Crash, TypeOK
  <2> QED
    BY <1>7, <2>1, <2>2, EndCycleType DEF Crash, TypeOK, log, history
<1> QED
  BY <1>1, <1>2, <1>3, <1>4, <1>5, <1>6, <1>7

LEMMA TypeStep ==
    ASSUME TypeOK, Next
    PROVE  TypeOK'
<1>1. ASSUME NEW d \in Devices, Write(d) \/ Begin(d) \/ Step(d) \/ RequestFails(d) \/ Crash(d)
      PROVE  TypeOK'
  BY <1>1, TypeWrite, TypeMove, TypeBranch, TypeChoose, TypeObject, TypeEnd DEF Step
<1> QED
  BY <1>1 DEF Next

\* Every variable keeps its type, and a step that takes an object has one to take.
THEOREM GitTypes == Spec => []TypeOK
<1>1. TypeOK /\ UNCHANGED vars => TypeOK'
  BY DEF vars, log, clone, cycle, history, TypeOK
<1> QED
  BY <1>1, TypeInit, TypeStep, PTL DEF Spec

----------------------------------------------------------------------------
\* The invariant.

\* From one commit of a history to a later one, only what a prune removed is lost.
OnlyPruned(branch) ==
    \A i, j \in 1 .. Len(branch) : i <= j => branch[i].tree \ branch[j].tree \in SUBSET removed

Histories ==
    /\ OnlyPruned(remote)
    /\ \A d \in Devices : OnlyPruned(commits[d])

\* The index has what the newest commit has; a push sends what is in it.
Indexes ==
    \A d \in Devices :
        /\ Tree(commits[d]) \ index[d] \in SUBSET removed
        /\ pc[d] = "push" => Tree(commits[d]) = index[d]

\* Before there is a clone there is nothing in it.
Unborn ==
    \A d \in Devices :
        /\ pc[d] \in {"init", "fetch"} => ~cloned[d]
        /\ ~cloned[d] => /\ pc[d] \in {"idle", "clone", "init", "fetch"}
                         /\ index[d] = {} /\ commits[d] = << >>

\* What is marked as synced has been added, and what was added is staged.
Accounting ==
    \A d \in Devices :
        /\ pc[d] = "mark" => Oldest(todo[d]) \in index[d] /\ staged[d] # {}
        /\ pushed[d] /\ pc[d] # "idle" => staged[d] # {}
        /\ status[d] = "done" => pc[d] = "idle"

\* An index with nothing staged is the newest commit, so that a checkout changes
\* nothing; and a cycle lists with something staged only after a snapshot of its own.
StagedIn(d) ==
    /\ pc[d] \in {"idle", "clone", "init", "fetch", "list", "pull"} => staged[d] = {}
    /\ Undisturbed(d) /\ staged[d] = {} => index[d] = Tree(commits[d])
    /\ \A o \in unsynced[d] : ~IsSnapshot(o)
    /\ pc[d] \in {"put", "add", "mark"} =>
            \A o \in todo[d] : IsSnapshot(o) => snapshotOf(d) \in snapshots
    /\ pc[d] \in {"prune", "choose", "unlink", "unstage"} => snapshotOf(d) \in snapshots

Staging == \A d \in Devices : StagedIn(d)

GitInv ==
    /\ TypeOK /\ Histories /\ Indexes /\ Unborn /\ Accounting /\ Staging
    /\ UndisturbedIsHeld /\ SentMeansAllSent

\* What a longer history lacks of a shorter one has been pruned.
LEMMA PrefixPruned ==
    ASSUME NEW s \in Seq(Revision), NEW t \in Seq(Revision), IsPrefix(s, t), OnlyPruned(t)
    PROVE  Tree(s) \ Tree(t) \in SUBSET removed
<1>1. CASE s = << >>
  BY <1>1, TreeMeans
<1>2. CASE s # << >>
  <2>1. Len(s) \in 1 .. Len(s) /\ Tree(s) = s[Len(s)].tree /\ Len(s) \in Nat /\ Len(t) \in Nat
    BY <1>2, TreeMeans
  <2>2. Len(s) <= Len(t) /\ s[Len(s)] = t[Len(s)]
    BY <2>1, PrefixMeans
  <2>3. t # << >> /\ Tree(t) = t[Len(t)].tree /\ Len(s) \in 1 .. Len(t) /\ Len(t) \in 1 .. Len(t)
    BY <2>1, <2>2, TreeMeans
  <2> QED
    BY <2>1, <2>2, <2>3 DEF OnlyPruned
<1> QED
  BY <1>1, <1>2

\* A commit of an index that has what the newest commit had.
LEMMA CommitPruned ==
    ASSUME NEW s \in Seq(Revision), NEW c \in Revision, OnlyPruned(s),
           Tree(s) \ c.tree \in SUBSET removed
    PROVE  OnlyPruned(Append(s, c)) /\ Tree(Append(s, c)) = c.tree /\ Append(s, c) \in Seq(Revision)
<1> DEFINE t == Append(s, c)
<1>1. /\ t \in Seq(Revision) /\ Len(s) \in Nat /\ Len(t) = Len(s) + 1 /\ t[Len(s) + 1] = c
      /\ \A i \in 1 .. Len(s) : t[i] = s[i]
  OBVIOUS
<1>2. Tree(t) = c.tree
  <2>1. t # << >>
    BY <1>1
  <2> HIDE DEF t
  <2> QED
    BY <1>1, <2>1, TreeMeans
<1> HIDE DEF t
<1>3. ASSUME NEW i \in 1 .. Len(t), NEW j \in 1 .. Len(t), i <= j
      PROVE  t[i].tree \ t[j].tree \in SUBSET removed
  <2>1. CASE j <= Len(s)
    <3>1. i \in 1 .. Len(s) /\ j \in 1 .. Len(s) /\ t[i] = s[i] /\ t[j] = s[j]
      BY <1>1, <1>3, <2>1
    <3> QED
      BY <1>3, <3>1 DEF OnlyPruned
  <2>2. CASE ~(j <= Len(s)) /\ i <= Len(s)
    <3>1. i \in 1 .. Len(s) /\ t[i] = s[i] /\ t[j] = c /\ Len(s) \in 1 .. Len(s)
      BY <1>1, <2>2
    <3>2. s # << >> /\ Tree(s) = s[Len(s)].tree
      BY <3>1, TreeMeans
    <3>3. s[i].tree \ s[Len(s)].tree \in SUBSET removed
      BY <3>1 DEF OnlyPruned
    <3> QED
      BY <3>1, <3>2, <3>3
  <2>3. CASE ~(i <= Len(s))
    <3>1. i = j
      BY <1>1, <1>3, <2>3
    <3> QED
      BY <3>1
  <2> QED
    BY <2>1, <2>2, <2>3
<1> QED
  BY <1>1, <1>2, <1>3 DEF OnlyPruned, t

\* At the start.
LEMMA GitInit == Init => GitInv
<1> SUFFICES ASSUME Init PROVE GitInv
  OBVIOUS
<1>1. TypeOK
  BY TypeInit
<1>2. OnlyPruned(<< >>) /\ Tree(<< >>) = {}
  BY DEF OnlyPruned, Tree
<1> QED
  BY <1>1, <1>2 DEF Init, GitInv, Histories, Indexes, Unborn, Accounting, Staging, StagedIn,
     UndisturbedIsHeld, Holds, Synced, Undisturbed, SentMeansAllSent

\* Steps that leave the branches, the indexes and the logs alone.
Quiet(d) ==
    \/ Begin(d) \/ AskRefs(d) \/ NothingToFetch(d) \/ ListFails(d) \/ Pull(d) \/ PutFile(d)
    \/ TakeSnapshot(d) \/ NoSnapshot(d) \/ ChooseSuperseded(d) \/ Unlink(d) \/ FlushNothing(d)
    \/ PushRefused(d) \/ (RequestFails(d) /\ remote' = remote) \/ Crash(d)

\* What they do to the device, and what they leave.
LEMMA QuietEffect ==
    ASSUME GitInv, NEW d \in Devices, Quiet(d)
    PROVE  /\ UNCHANGED <<written, unsynced, commits, index, remote, removed>>
           /\ killed \in SUBSET killed' /\ snapshots \in SUBSET snapshots'
           /\ pc'[d] \notin {"push", "mark"}
           /\ cloned'[d] => cloned[d] \/ pc'[d] = "idle"
           /\ cloned[d] => cloned'[d] /\ pc'[d] \notin {"init", "fetch"}
           /\ ~cloned[d] => pc'[d] \in {"idle", "clone", "init", "fetch"}
           /\ pushed'[d] => pushed[d] /\ pc[d] # "idle"
           /\ pc'[d] # "idle" => staged'[d] = staged[d] /\ status'[d] # "done"
           /\ status'[d] = "done" => ~pushed'[d]
           /\ \A e \in Devices \ {d} : /\ pc'[e] = pc[e] /\ cloned'[e] = cloned[e] /\ pushed'[e] = pushed[e]
                                       /\ staged'[e] = staged[e] /\ status'[e] = status[e]
                                       /\ todo'[e] = todo[e]
<1> USE DEF GitInv, TypeOK, Unborn, Accounting, Goto, EndCycle, log, clone, history
<1>1. CASE Begin(d) \/ AskRefs(d)
  BY <1>1 DEF Begin, AskRefs
<1>2. CASE NothingToFetch(d) \/ ListFails(d)
  BY <1>2 DEF NothingToFetch, ListFails, After
<1>3. CASE Pull(d) \/ PutFile(d)
  BY <1>3 DEF Pull, PutFile
<1>8. CASE TakeSnapshot(d)
  BY <1>8 DEF TakeSnapshot
<1>4. CASE NoSnapshot(d) \/ Unlink(d)
  BY <1>4 DEF NoSnapshot, Unlink
<1>9. CASE ChooseSuperseded(d)
  <2>1. PICK step \in {"flush", "unlink"} : pc' = [pc EXCEPT ![d] = step]
    BY <1>9, ZenonT(60) DEF ChooseSuperseded
  <2>2. \A e \in Devices \ {d} : todo'[e] = todo[e]
    BY <1>9 DEF ChooseSuperseded
  <2>3. /\ pc[d] = "choose" /\ UNCHANGED <<staged, status, pushed, remote>>
        /\ UNCHANGED <<written, unsynced, cloned, commits, index, removed, killed, snapshots>>
    BY <1>9 DEF ChooseSuperseded
  <2> QED
    BY <2>1, <2>2, <2>3
<1>5. CASE FlushNothing(d) \/ PushRefused(d)
  BY <1>5 DEF FlushNothing, PushRefused
<1>6. CASE RequestFails(d) /\ remote' = remote
  <2>1. pc[d] \in {"clone", "fetch", "list", "prune", "push"} /\ UNCHANGED <<log, clone, pushed, history>>
    BY <1>6 DEF RequestFails
  <2>2. CASE pc[d] = "prune"
    <3>1. pc' = [pc EXCEPT ![d] = "flush"] /\ UNCHANGED <<staged, todo, status>>
      BY <1>6, <2>2 DEF RequestFails
    <3> QED
      BY <1>6, <2>1, <2>2, <3>1
  <2>3. CASE pc[d] # "prune"
    <3>1. EndCycle(d, "error")
      BY <1>6, <2>3 DEF RequestFails
    <3> QED
      BY <1>6, <2>1, <2>3, <3>1
  <2> QED
    BY <2>2, <2>3
<1>7. CASE Crash(d)
  BY <1>7 DEF Crash
<1> QED
  BY <1>1, <1>2, <1>3, <1>4, <1>5, <1>6, <1>7, <1>8, <1>9 DEF Quiet

\* Where they end a cycle, nothing is staged or the commit has it.
LEMMA QuietStaging ==
    ASSUME GitInv, NEW d \in Devices, Quiet(d)
    PROVE  Staging'
<1> USE QuietEffect
<1>1. \A e \in Devices : Tree(commits[e])' = Tree(commits[e])
  BY DEF Tree, Last
<1>2. ASSUME NEW e \in Devices \ {d} PROVE StagedIn(e)'
  <2>1. StagedIn(e) /\ (Undisturbed(e)' => Undisturbed(e))
    BY DEF GitInv, Staging, Undisturbed
  <2> QED
    BY <1>1, <2>1 DEF StagedIn
<1>3. StagedIn(d) /\ (Undisturbed(d)' => Undisturbed(d))
  BY DEF GitInv, Staging, Undisturbed
<1>4. pc[d] = "push" => Tree(commits[d]) = index[d]
  BY DEF GitInv, Indexes
<1>5. StagedIn(d)'
  <2> USE <1>1, <1>3, <1>4 DEF GitInv, TypeOK, StagedIn, Goto, EndCycle
  <2>1. CASE Begin(d) \/ AskRefs(d)
    BY <2>1 DEF Begin, AskRefs
  <2>2. CASE NothingToFetch(d) \/ ListFails(d)
    BY <2>2 DEF NothingToFetch, ListFails, After
  <2>3. CASE Pull(d) \/ PutFile(d)
    BY <2>3 DEF Pull, PutFile
  <2>4. CASE TakeSnapshot(d)
    <3>1. snapshotOf(d) \in snapshots' /\ ~Undisturbed(d)' /\ pc'[d] = "put"
      BY <2>4 DEF TakeSnapshot, Undisturbed
    <3> QED
      BY <3>1
  <2>5. CASE NoSnapshot(d) \/ ChooseSuperseded(d) \/ Unlink(d)
    BY <2>5 DEF NoSnapshot, ChooseSuperseded, Unlink
  <2>6. CASE FlushNothing(d) \/ PushRefused(d)
    BY <2>6 DEF FlushNothing, PushRefused
  <2>7. CASE RequestFails(d) /\ remote' = remote
    BY <2>7 DEF RequestFails
  <2>8. CASE Crash(d)
    <3>1. d \in killed' /\ ~Undisturbed(d)' /\ pc'[d] = "idle" /\ staged'[d] = {}
      BY <2>8 DEF Crash, Undisturbed
    <3> QED
      BY <3>1
  <2> QED
    BY <2>1, <2>2, <2>3, <2>4, <2>5, <2>6, <2>7, <2>8 DEF Quiet
<1> QED
  BY <1>2, <1>5 DEF Staging

\* They keep the invariant.
LEMMA QuietStep ==
    ASSUME GitInv, TypeOK', NEW d \in Devices, Quiet(d)
    PROVE  GitInv'
<1> USE QuietEffect
<1>1. Histories'
  BY DEF GitInv, Histories, OnlyPruned
<1>2. Indexes'
  BY DEF GitInv, Indexes, Tree, Last
<1>3. Unborn'
  <2> SUFFICES ASSUME NEW e \in Devices
               PROVE  /\ pc'[e] \in {"init", "fetch"} => ~cloned'[e]
                      /\ ~cloned'[e] => /\ pc'[e] \in {"idle", "clone", "init", "fetch"}
                                        /\ index'[e] = {} /\ commits'[e] = << >>
    BY DEF Unborn
  <2>1. CASE e = d
    BY <2>1 DEF GitInv, Unborn
  <2>2. CASE e # d
    BY <2>2 DEF GitInv, Unborn
  <2> QED
    BY <2>1, <2>2
<1>4. Accounting'
  <2> SUFFICES ASSUME NEW e \in Devices
               PROVE  /\ pc'[e] = "mark" => Oldest(todo'[e]) \in index'[e] /\ staged'[e] # {}
                      /\ pushed'[e] /\ pc'[e] # "idle" => staged'[e] # {}
                      /\ status'[e] = "done" => pc'[e] = "idle"
    BY DEF Accounting, Oldest
  <2>1. CASE e = d
    BY <2>1 DEF GitInv, Accounting
  <2>2. CASE e # d
    BY <2>2 DEF GitInv, Accounting
  <2> QED
    BY <2>1, <2>2
<1>5. UndisturbedIsHeld'
  BY DEF GitInv, UndisturbedIsHeld, Holds, Synced, Undisturbed, Tree, Last
<1>6. SentMeansAllSent'
  <2> SUFFICES ASSUME NEW e \in Devices, Undisturbed(e)', status'[e] = "done", pushed'[e]
               PROVE  written[e] \ (unsynced[e] \cup removed) \in SUBSET Tree(remote)
    BY DEF SentMeansAllSent, Synced, Tree, Last
  <2>1. e # d
    OBVIOUS
  <2>2. Undisturbed(e)
    BY DEF Undisturbed
  <2> QED
    BY <2>1, <2>2 DEF GitInv, SentMeansAllSent, Synced
<1>7. Staging'
  BY QuietStaging
<1> QED
  BY <1>1, <1>2, <1>3, <1>4, <1>5, <1>6, <1>7 DEF GitInv

\* A write is pending before it is anything else.
LEMMA WriteStep ==
    ASSUME GitInv, TypeOK', NEW d \in Devices, Write(d)
    PROVE  GitInv'
<1>1. PICK o : /\ written' = [written EXCEPT ![d] = @ \cup {o}]
               /\ unsynced' = [unsynced EXCEPT ![d] = @ \cup {o}]
               /\ ~IsSnapshot(o)
  <2>1. Cardinality(written[d]) \in Nat
    BY FS_CardinalityType DEF GitInv, TypeOK
  <2>2. ~IsSnapshot([by |-> d, n |-> Cardinality(written[d]) + 1])
    BY <2>1 DEF IsSnapshot
  <2> QED
    BY <2>2, Zenon DEF Write
<1>2. UNCHANGED <<clone, cycle, remote, history, faults>>
  BY DEF Write
<1>3. \A e \in Devices : written'[e] \ (unsynced'[e] \cup removed) \in SUBSET (written[e] \ (unsynced[e] \cup removed))
  BY <1>1 DEF GitInv, TypeOK
<1>4. UndisturbedIsHeld' /\ SentMeansAllSent'
  <2>1. Tree(remote)' = Tree(remote)
    BY <1>2 DEF Tree, Last
  <2> QED
    BY <1>2, <1>3, <2>1 DEF GitInv, UndisturbedIsHeld, Holds, Synced, Undisturbed, SentMeansAllSent, clone,
       cycle, history
<1>5. Histories' /\ Indexes' /\ Unborn' /\ Accounting'
  BY <1>2 DEF GitInv, Histories, OnlyPruned, Indexes, Tree, Last, Unborn, Accounting, Oldest, clone, cycle,
     history
<1>6. Staging'
  <2>1. \A e \in Devices : \A u \in unsynced'[e] : u \in unsynced[e] \/ ~IsSnapshot(u)
    BY <1>1 DEF GitInv, TypeOK
  <2> QED
    BY <1>2, <2>1 DEF GitInv, Staging, StagedIn, Undisturbed, Tree, Last, clone, cycle, history
<1> QED
  BY <1>4, <1>5, <1>6 DEF GitInv

\* A fresh clone holds the newest commit.
LEMMA CloneStep ==
    ASSUME GitInv, TypeOK', NEW d \in Devices, cloneOrInit(d)
    PROVE  GitInv'
<1>1. PICK fetched \in Seq(Revision) :
         /\ fetched = remote \/ fetched = << >>
         /\ commits' = [commits EXCEPT ![d] = fetched]
         /\ index' = [index EXCEPT ![d] = Tree(fetched)]
  BY DEF cloneOrInit, GitInv, TypeOK
<1>2. /\ pc' = [pc EXCEPT ![d] = "list"] /\ cloned' = [cloned EXCEPT ![d] = TRUE]
      /\ UNCHANGED <<written, unsynced, staged, todo, status, pushed, remote, removed, snapshots, killed>>
      /\ pc[d] \in {"init", "fetch"}
  BY DEF cloneOrInit, Goto, log, history
<1>3. index[d] = {}
  BY <1>2 DEF GitInv, Unborn
<1>4. OnlyPruned(fetched)
  BY <1>1 DEF GitInv, Histories, OnlyPruned
<1>5. Tree(remote)' = Tree(remote)
  BY <1>2 DEF Tree, Last
<1>6. /\ index'[d] = Tree(fetched) /\ commits'[d] = fetched /\ pc'[d] = "list" /\ cloned'[d]
      /\ \A e \in Devices \ {d} : /\ index'[e] = index[e] /\ commits'[e] = commits[e]
                                  /\ pc'[e] = pc[e] /\ cloned'[e] = cloned[e]
  BY <1>1, <1>2 DEF GitInv, TypeOK
<1>7. Histories'
  <2>1. \A e \in Devices : OnlyPruned(commits'[e])
    BY <1>4, <1>6 DEF GitInv, Histories
  <2> QED
    BY <1>2, <2>1 DEF GitInv, Histories, OnlyPruned
<1>8. Indexes'
  <2> SUFFICES ASSUME NEW e \in Devices
               PROVE  /\ Tree(commits'[e]) \ index'[e] \in SUBSET removed'
                      /\ pc'[e] = "push" => Tree(commits'[e]) = index'[e]
    BY DEF Indexes, Tree, Last
  <2>1. CASE e = d
    BY <1>6, <2>1
  <2>2. CASE e # d
    BY <1>2, <1>6, <2>2 DEF GitInv, Indexes
  <2> QED
    BY <2>1, <2>2
<1>9. Unborn'
  BY <1>6 DEF GitInv, Unborn
<1>10. Accounting'
  <2> SUFFICES ASSUME NEW e \in Devices
               PROVE  /\ pc'[e] = "mark" => Oldest(todo'[e]) \in index'[e] /\ staged'[e] # {}
                      /\ pushed'[e] /\ pc'[e] # "idle" => staged'[e] # {}
                      /\ status'[e] = "done" => pc'[e] = "idle"
    BY DEF Accounting, Oldest
  <2>1. CASE e = d
    BY <1>2, <1>6, <2>1 DEF GitInv, Accounting
  <2>2. CASE e # d
    BY <1>2, <1>6, <2>2 DEF GitInv, Accounting
  <2> QED
    BY <2>1, <2>2
<1>11. UndisturbedIsHeld'
  BY <1>2, <1>3, <1>5, <1>6 DEF GitInv, UndisturbedIsHeld, Holds, Synced, Undisturbed
<1>12. SentMeansAllSent'
  BY <1>2, <1>5 DEF GitInv, SentMeansAllSent, Synced, Undisturbed
<1>13. Staging'
  <2> SUFFICES ASSUME NEW e \in Devices PROVE StagedIn(e)'
    BY DEF Staging
  <2>1. StagedIn(e) /\ (Undisturbed(e)' <=> Undisturbed(e)) /\ Tree(commits[e])' = Tree(commits'[e])
    BY <1>2 DEF GitInv, Staging, Undisturbed, Tree, Last
  <2>2. CASE e = d
    BY <1>2, <1>6, <2>1, <2>2 DEF StagedIn
  <2>3. CASE e # d
    BY <1>2, <1>6, <2>1, <2>3 DEF StagedIn
  <2> QED
    BY <2>2, <2>3
<1> QED
  BY <1>7, <1>8, <1>9, <1>10, <1>11, <1>12, <1>13 DEF GitInv

\* A listing with nothing staged loses nothing the branch has not dropped.
LEMMA FastForwardStep ==
    ASSUME GitInv, TypeOK', NEW d \in Devices, FastForward(d)
    PROVE  GitInv'
<1> DEFINE to == Tree(remote)
<1>1. PICK head \in Seq(Revision) :
         /\ head = IF IsPrefix(commits[d], remote) THEN remote ELSE commits[d]
         /\ commits' = [commits EXCEPT ![d] = head]
         /\ index' = [index EXCEPT ![d] = Tree(head)]
  BY DEF FastForward, GitInv, TypeOK
<1>2. /\ pc[d] \in DOMAIN After
      /\ pc' = [pc EXCEPT ![d] = After[pc[d]]]
      /\ UNCHANGED <<written, unsynced, cloned, staged, todo, status, pushed, remote, removed, snapshots, killed>>
  BY DEF FastForward, Goto, log, history
<1>3. \/ pc[d] = "list" /\ After[pc[d]] = "pull"
      \/ pc[d] = "prune" /\ After[pc[d]] = "choose"
  BY <1>2 DEF After
<1>4. OnlyPruned(head) /\ (Tree(commits[d]) \ Tree(head) \in SUBSET removed)
  <2>1. CASE IsPrefix(commits[d], remote)
    BY <1>1, <2>1, PrefixPruned DEF GitInv, TypeOK, Histories
  <2>2. CASE ~IsPrefix(commits[d], remote)
    BY <1>1, <2>2 DEF GitInv, Histories
  <2> QED
    BY <2>1, <2>2
<1>5. Tree(remote)' = to
  BY <1>2 DEF Tree, Last
<1> HIDE DEF to
<1>6. /\ index'[d] = Tree(head) /\ commits'[d] = head /\ pc'[d] \in {"pull", "choose"}
      /\ pc'[d] = "choose" => pc[d] = "prune"
      /\ \A e \in Devices \ {d} : index'[e] = index[e] /\ commits'[e] = commits[e] /\ pc'[e] = pc[e]
  BY <1>1, <1>2, <1>3 DEF GitInv, TypeOK
<1>7. Histories'
  <2>1. \A e \in Devices : OnlyPruned(commits'[e])
    BY <1>4, <1>6 DEF GitInv, Histories
  <2> QED
    BY <1>2, <2>1 DEF GitInv, Histories, OnlyPruned
<1>8. Indexes'
  <2>1. \A e \in Devices : Tree(commits[e])' = Tree(commits'[e])
    BY DEF Tree, Last
  <2> QED
    BY <1>2, <1>6, <2>1 DEF GitInv, Indexes
<1>9. Unborn'
  BY <1>2, <1>3, <1>6 DEF GitInv, Unborn
<1>10. Accounting'
  <2> SUFFICES ASSUME NEW e \in Devices
               PROVE  /\ pc'[e] = "mark" => Oldest(todo'[e]) \in index'[e] /\ staged'[e] # {}
                      /\ pushed'[e] /\ pc'[e] # "idle" => staged'[e] # {}
                      /\ status'[e] = "done" => pc'[e] = "idle"
    BY DEF Accounting, Oldest
  <2>1. CASE e = d
    BY <1>2, <1>3, <1>6, <2>1 DEF GitInv, Accounting
  <2>2. CASE e # d
    BY <1>2, <1>6, <2>2 DEF GitInv, Accounting
  <2> QED
    BY <2>1, <2>2
<1>11. Staging'
  <2> SUFFICES ASSUME NEW e \in Devices PROVE StagedIn(e)'
    BY DEF Staging
  <2>1. StagedIn(e) /\ (Undisturbed(e)' <=> Undisturbed(e)) /\ Tree(commits[e])' = Tree(commits'[e])
    BY <1>2 DEF GitInv, Staging, Undisturbed, Tree, Last
  <2>2. CASE e = d
    BY <1>2, <1>3, <1>6, <2>1, <2>2 DEF StagedIn
  <2>3. CASE e # d
    BY <1>2, <1>6, <2>1, <2>3 DEF StagedIn
  <2> QED
    BY <2>2, <2>3
<1>12. UndisturbedIsHeld'
  <2> SUFFICES ASSUME NEW e \in Devices, Undisturbed(e)
               PROVE  Synced(e) \in SUBSET (to \cup index'[e])
    BY <1>2, <1>5 DEF UndisturbedIsHeld, Undisturbed, Holds, Synced
  <2>1. Synced(e) \in SUBSET (to \cup index[e]) /\ Synced(e) \cap removed = {}
    BY DEF GitInv, UndisturbedIsHeld, Holds, Synced, to
  <2>2. CASE e = d
    <3>1. index[d] = Tree(commits[d])
      BY <1>3, <2>2 DEF GitInv, Staging, StagedIn, Undisturbed
    <3> QED
      BY <1>4, <1>6, <2>1, <2>2, <3>1
  <2>3. CASE e # d
    BY <1>6, <2>1, <2>3
  <2> QED
    BY <2>2, <2>3
<1>13. SentMeansAllSent'
  BY <1>2, <1>5 DEF GitInv, SentMeansAllSent, Synced, Undisturbed, to
<1> QED
  BY <1>7, <1>8, <1>9, <1>10, <1>11, <1>12, <1>13 DEF GitInv

\* A file is added before its operations are marked, and then they are held.
LEMMA AddStep ==
    ASSUME GitInv, TypeOK', NEW d \in Devices, AddFile(d)
    PROVE  GitInv'
<1> DEFINE o == Oldest(todo[d])
<1>1. /\ index' = [index EXCEPT ![d] = @ \cup {o}] /\ staged' = [staged EXCEPT ![d] = @ \cup {o}]
      /\ pc' = [pc EXCEPT ![d] = "mark"] /\ pc[d] = "add"
      /\ UNCHANGED <<written, unsynced, cloned, commits, todo, status, pushed, remote, removed, snapshots, killed>>
  BY DEF AddFile, Goto, log, history
<1>2. Oldest(todo'[d]) = o
  BY <1>1
<1>3. Tree(remote)' = Tree(remote) /\ \A e \in Devices : Tree(commits[e])' = Tree(commits[e])
  BY <1>1 DEF Tree, Last
<1> HIDE DEF o
<1>4. Histories'
  BY <1>1 DEF GitInv, Histories, OnlyPruned
<1>5. Indexes' /\ Unborn' /\ UndisturbedIsHeld' /\ SentMeansAllSent'
  <2>1. \A e \in Devices : index[e] \in SUBSET index'[e] /\ (e # d => index'[e] = index[e] /\ pc'[e] = pc[e])
    BY <1>1 DEF GitInv, TypeOK
  <2>2. pc'[d] = "mark" /\ cloned[d]
    BY <1>1 DEF GitInv, TypeOK, Unborn
  <2>3. Indexes'
    BY <1>3, <2>1, <2>2, <1>1 DEF GitInv, Indexes
  <2>4. Unborn'
    BY <1>1, <2>1, <2>2 DEF GitInv, Unborn
  <2> QED
    BY <1>1, <1>3, <2>1, <2>3, <2>4 DEF GitInv, UndisturbedIsHeld, Holds, Synced, Undisturbed, SentMeansAllSent
<1>6. Accounting'
  <2> SUFFICES ASSUME NEW e \in Devices
               PROVE  /\ pc'[e] = "mark" => Oldest(todo'[e]) \in index'[e] /\ staged'[e] # {}
                      /\ pushed'[e] /\ pc'[e] # "idle" => staged'[e] # {}
                      /\ status'[e] = "done" => pc'[e] = "idle"
    BY DEF Accounting, Oldest
  <2>1. CASE e = d
    BY <1>1, <1>2, <2>1 DEF GitInv, TypeOK, Accounting
  <2>2. CASE e # d
    BY <1>1, <2>2 DEF GitInv, TypeOK, Accounting
  <2> QED
    BY <2>1, <2>2
<1>7. Staging'
  <2> SUFFICES ASSUME NEW e \in Devices PROVE StagedIn(e)'
    BY DEF Staging
  <2>1. StagedIn(e) /\ (Undisturbed(e)' <=> Undisturbed(e)) /\ Tree(commits[e])' = Tree(commits'[e])
    BY <1>1 DEF GitInv, Staging, Undisturbed, Tree, Last
  <2>2. CASE e = d
    <3>1. staged'[d] # {} /\ pc'[d] = "mark"
      BY <1>1 DEF GitInv, TypeOK
    <3> QED
      BY <1>1, <2>1, <2>2, <3>1 DEF StagedIn
  <2>3. CASE e # d
    BY <1>1, <2>1, <2>3 DEF StagedIn, GitInv, TypeOK
  <2> QED
    BY <2>2, <2>3
<1> QED
  BY <1>4, <1>5, <1>6, <1>7 DEF GitInv

\* What is marked as synced is in the index.
LEMMA MarkStep ==
    ASSUME GitInv, TypeOK', NEW d \in Devices, Mark(d)
    PROVE  GitInv'
<1> DEFINE o == Oldest(todo[d])
<1>1. /\ unsynced' = [unsynced EXCEPT ![d] = @ \ {o}] /\ todo' = [todo EXCEPT ![d] = @ \ {o}]
      /\ pc' = [pc EXCEPT ![d] = IF IsSnapshot(o) THEN "prune"
                                 ELSE IF todo[d] = {o} THEN "threshold" ELSE "put"]
      /\ pushed' = [pushed EXCEPT ![d] = @ \/ ~IsSnapshot(o)] /\ pc[d] = "mark"
      /\ UNCHANGED <<written, cloned, commits, index, staged, status, remote, removed, snapshots, killed>>
  BY DEF Mark, Goto, clone, history
<1>2. Tree(remote)' = Tree(remote) /\ \A e \in Devices : Tree(commits[e])' = Tree(commits[e])
  BY <1>1 DEF Tree, Last
<1>3. o \in index[d] /\ staged[d] # {} /\ status[d] # "done" /\ cloned[d]
  BY <1>1 DEF GitInv, Accounting, Unborn
<1> HIDE DEF o
<1>4. /\ unsynced'[d] = unsynced[d] \ {o} /\ pc'[d] \in {"prune", "threshold", "put"}
      /\ \A e \in Devices \ {d} : /\ unsynced'[e] = unsynced[e] /\ pc'[e] = pc[e]
                                  /\ todo'[e] = todo[e] /\ pushed'[e] = pushed[e]
  BY <1>1 DEF GitInv, TypeOK
<1>5. Histories'
  BY <1>1 DEF GitInv, Histories, OnlyPruned
<1>6. Indexes' /\ Unborn'
  BY <1>1, <1>2, <1>3, <1>4 DEF GitInv, Indexes, Unborn
<1>7. Accounting'
  <2> SUFFICES ASSUME NEW e \in Devices
               PROVE  /\ pc'[e] = "mark" => Oldest(todo'[e]) \in index'[e] /\ staged'[e] # {}
                      /\ pushed'[e] /\ pc'[e] # "idle" => staged'[e] # {}
                      /\ status'[e] = "done" => pc'[e] = "idle"
    BY DEF Accounting, Oldest
  <2>1. CASE e = d
    BY <1>1, <1>3, <1>4, <2>1
  <2>2. CASE e # d
    BY <1>1, <1>4, <2>2 DEF GitInv, Accounting
  <2> QED
    BY <2>1, <2>2
<1>8. UndisturbedIsHeld' /\ SentMeansAllSent'
  BY <1>1, <1>2, <1>3, <1>4 DEF GitInv, UndisturbedIsHeld, Holds, Synced, Undisturbed, SentMeansAllSent
<1>9. Staging'
  <2> SUFFICES ASSUME NEW e \in Devices PROVE StagedIn(e)'
    BY DEF Staging
  <2>1. StagedIn(e) /\ (Undisturbed(e)' <=> Undisturbed(e)) /\ Tree(commits[e])' = Tree(commits'[e])
    BY <1>1 DEF GitInv, Staging, Undisturbed, Tree, Last
  <2>2. CASE e = d
    <3>1. todo'[d] = todo[d] \ {o} /\ o \in todo[d] /\ (pc'[d] = "prune" => IsSnapshot(o))
      BY <1>1, OldestType DEF GitInv, TypeOK, o
    <3> QED
      BY <1>1, <1>3, <1>4, <2>1, <2>2, <3>1 DEF StagedIn
  <2>3. CASE e # d
    BY <1>1, <1>4, <2>1, <2>3 DEF StagedIn
  <2> QED
    BY <2>2, <2>3
<1> QED
  BY <1>5, <1>6, <1>7, <1>8, <1>9 DEF GitInv

\* What leaves the index in a prune is on record as removed.
LEMMA RemoveStep ==
    ASSUME GitInv, TypeOK', NEW d \in Devices, remove(d)
    PROVE  GitInv'
<1> DEFINE o == Oldest(todo[d])
<1>1. /\ index' = [index EXCEPT ![d] = @ \ {o}] /\ staged' = [staged EXCEPT ![d] = @ \cup {o}]
      /\ removed' = removed \cup {o} /\ todo' = [todo EXCEPT ![d] = @ \ {o}]
      /\ pc' = [pc EXCEPT ![d] = IF todo[d] = {o} THEN "flush" ELSE "unlink"] /\ pc[d] = "unstage"
      /\ UNCHANGED <<written, unsynced, cloned, commits, status, pushed, remote, snapshots, killed>>
  BY DEF remove, Goto, log
<1>2. Tree(remote)' = Tree(remote) /\ \A e \in Devices : Tree(commits[e])' = Tree(commits[e])
  BY <1>1 DEF Tree, Last
<1> HIDE DEF o
<1>3. /\ index'[d] = index[d] \ {o} /\ pc'[d] \in {"flush", "unlink"} /\ staged'[d] # {}
      /\ status[d] # "done" /\ cloned[d]
      /\ \A e \in Devices \ {d} : /\ index'[e] = index[e] /\ pc'[e] = pc[e]
                                  /\ todo'[e] = todo[e] /\ staged'[e] = staged[e]
  <2>1. status[d] # "done" /\ cloned[d]
    BY <1>1 DEF GitInv, Accounting, Unborn
  <2>2. index'[d] = index[d] \ {o} /\ pc'[d] \in {"flush", "unlink"} /\ staged'[d] = staged[d] \cup {o}
    BY <1>1 DEF GitInv, TypeOK
  <2>3. \A e \in Devices \ {d} : /\ index'[e] = index[e] /\ pc'[e] = pc[e]
                                 /\ todo'[e] = todo[e] /\ staged'[e] = staged[e]
    BY <1>1 DEF GitInv, TypeOK
  <2> QED
    BY <2>1, <2>2, <2>3
<1>4. Histories'
  <2>1. \A branch : OnlyPruned(branch) =>
            \A i, j \in 1 .. Len(branch) : i <= j => branch[i].tree \ branch[j].tree \in SUBSET removed'
    BY <1>1 DEF OnlyPruned
  <2> QED
    BY <1>1, <2>1 DEF GitInv, Histories, OnlyPruned
<1>5. Indexes'
  BY <1>1, <1>2, <1>3 DEF GitInv, Indexes
<1>6. Unborn'
  BY <1>1, <1>3 DEF GitInv, Unborn
<1>7. Accounting'
  <2> SUFFICES ASSUME NEW e \in Devices
               PROVE  /\ pc'[e] = "mark" => Oldest(todo'[e]) \in index'[e] /\ staged'[e] # {}
                      /\ pushed'[e] /\ pc'[e] # "idle" => staged'[e] # {}
                      /\ status'[e] = "done" => pc'[e] = "idle"
    BY DEF Accounting, Oldest
  <2>1. CASE e = d
    BY <1>1, <1>3, <2>1
  <2>2. CASE e # d
    BY <1>1, <1>3, <2>2 DEF GitInv, Accounting
  <2> QED
    BY <2>1, <2>2
<1>8. UndisturbedIsHeld' /\ SentMeansAllSent'
  BY <1>1, <1>2, <1>3 DEF GitInv, UndisturbedIsHeld, Holds, Synced, Undisturbed, SentMeansAllSent
<1>9. Staging'
  <2> SUFFICES ASSUME NEW e \in Devices PROVE StagedIn(e)'
    BY DEF Staging
  <2>1. StagedIn(e) /\ (Undisturbed(e)' <=> Undisturbed(e)) /\ Tree(commits[e])' = Tree(commits'[e])
    BY <1>1 DEF GitInv, Staging, Undisturbed, Tree, Last
  <2>2. CASE e = d
    BY <1>1, <1>3, <2>1, <2>2 DEF StagedIn
  <2>3. CASE e # d
    BY <1>1, <1>3, <2>1, <2>3 DEF StagedIn
  <2> QED
    BY <2>2, <2>3
<1> QED
  BY <1>4, <1>5, <1>6, <1>7, <1>8, <1>9 DEF GitInv

\* A commit takes the whole index.
LEMMA CommitStep ==
    ASSUME GitInv, TypeOK', NEW d \in Devices, Commit(d)
    PROVE  GitInv'
<1> DEFINE c == [by |-> d, tree |-> index[d]]
           extended == Append(commits[d], c)
<1>1. /\ commits' = [commits EXCEPT ![d] = extended]
      /\ pc' = [pc EXCEPT ![d] = "push"] /\ pc[d] = "flush" /\ staged[d] # {}
      /\ UNCHANGED <<written, unsynced, cloned, index, staged, todo, status, pushed, remote, removed, snapshots, killed>>
  BY DEF Commit, Goto, log, history
<1>2. c \in Revision /\ commits[d] \in Seq(Revision) /\ c.tree = index[d]
  BY DEF GitInv, TypeOK, Revision
<1>3. OnlyPruned(extended) /\ Tree(extended) = index[d]
  <2>1. OnlyPruned(commits[d]) /\ Tree(commits[d]) \ c.tree \in SUBSET removed
    BY <1>2 DEF GitInv, Histories, Indexes
  <2> HIDE DEF c
  <2> QED
    BY <1>2, <2>1, CommitPruned
<1> HIDE DEF extended
<1>4. /\ commits'[d] = extended /\ pc'[d] = "push" /\ cloned[d] /\ status[d] # "done"
      /\ \A e \in Devices \ {d} : commits'[e] = commits[e] /\ pc'[e] = pc[e]
  BY <1>1, ZenonT(60) DEF GitInv, TypeOK, Unborn, Accounting
<1>5. Histories'
  <2>1. \A e \in Devices : OnlyPruned(commits'[e])
    BY <1>3, <1>4 DEF GitInv, Histories
  <2> QED
    BY <1>1, <2>1 DEF GitInv, Histories, OnlyPruned
<1>6. Indexes'
  <2>1. \A e \in Devices : Tree(commits[e])' = Tree(commits'[e])
    BY DEF Tree, Last
  <2> QED
    BY <1>1, <1>3, <1>4, <2>1 DEF GitInv, Indexes
<1>7. Unborn'
  BY <1>1, <1>4 DEF GitInv, Unborn
<1>8. Accounting'
  <2> SUFFICES ASSUME NEW e \in Devices
               PROVE  /\ pc'[e] = "mark" => Oldest(todo'[e]) \in index'[e] /\ staged'[e] # {}
                      /\ pushed'[e] /\ pc'[e] # "idle" => staged'[e] # {}
                      /\ status'[e] = "done" => pc'[e] = "idle"
    BY DEF Accounting, Oldest
  <2>1. CASE e = d
    BY <1>1, <1>4, <2>1
  <2>2. CASE e # d
    BY <1>1, <1>4, <2>2 DEF GitInv, Accounting
  <2> QED
    BY <2>1, <2>2
<1>9. UndisturbedIsHeld' /\ SentMeansAllSent'
  <2>1. Tree(remote)' = Tree(remote)
    BY <1>1 DEF Tree, Last
  <2> QED
    BY <1>1, <2>1 DEF GitInv, UndisturbedIsHeld, Holds, Synced, Undisturbed, SentMeansAllSent
<1>10. Staging'
  <2> SUFFICES ASSUME NEW e \in Devices PROVE StagedIn(e)'
    BY DEF Staging
  <2>1. StagedIn(e) /\ (Undisturbed(e)' <=> Undisturbed(e)) /\ Tree(commits[e])' = Tree(commits'[e])
    BY <1>1 DEF GitInv, Staging, Undisturbed, Tree, Last
  <2>2. CASE e = d
    BY <1>1, <1>4, <2>1, <2>2 DEF StagedIn
  <2>3. CASE e # d
    BY <1>1, <1>4, <2>1, <2>3 DEF StagedIn
  <2> QED
    BY <2>2, <2>3
<1> QED
  BY <1>5, <1>6, <1>7, <1>8, <1>9, <1>10 DEF GitInv

\* A push that arrives, its answer too or not.
Arrives(d) == Push(d) \/ (RequestFails(d) /\ remote' # remote)

\* The branch grows from what it was, and loses what was pruned.
LEMMA ArrivesAdds ==
    ASSUME GitInv, NEW d \in Devices, Arrives(d)
    PROVE  /\ pc[d] = "push" /\ remote' = commits[d] /\ IsPrefix(remote, remote')
           /\ Tree(remote) \ Tree(remote') \in SUBSET removed
<1>1. pc[d] = "push" /\ remote' = commits[d] /\ IsPrefix(remote, commits[d])
  BY DEF Arrives, Push, RequestFails
<1> QED
  BY <1>1, PrefixPruned DEF GitInv, TypeOK, Histories

LEMMA ArrivesStep ==
    ASSUME GitInv, TypeOK', NEW d \in Devices, Arrives(d)
    PROVE  GitInv'
<1>1. /\ pc[d] = "push" /\ remote' = commits[d] /\ Tree(remote) \ Tree(remote') \in SUBSET removed
  BY ArrivesAdds
<1>2. /\ UNCHANGED <<written, unsynced, cloned, commits, index, pushed, removed, snapshots, killed>>
      /\ EndCycle(d, "done") \/ EndCycle(d, "error")
  BY <1>1 DEF Arrives, Push, RequestFails, log, clone, history
<1>3. /\ pc'[d] = "idle" /\ cloned[d] /\ staged'[d] = {}
      /\ \A e \in Devices \ {d} : /\ pc'[e] = pc[e] /\ todo'[e] = todo[e]
                                  /\ staged'[e] = staged[e] /\ status'[e] = status[e]
  <2>1. cloned[d]
    BY <1>1 DEF GitInv, Unborn
  <2>2. PICK outcome \in {"done", "error"} : EndCycle(d, outcome)
    BY <1>2
  <2> QED
    BY <2>1, <2>2 DEF EndCycle, Goto, GitInv, TypeOK
<1>4. Tree(remote)' = Tree(remote') /\ \A e \in Devices : Tree(commits[e])' = Tree(commits[e])
  BY <1>2 DEF Tree, Last
<1>5. Histories'
  BY <1>1, <1>2 DEF GitInv, Histories, OnlyPruned
<1>6. Indexes' /\ Unborn'
  BY <1>2, <1>3, <1>4 DEF GitInv, Indexes, Unborn
<1>7. Accounting'
  <2> SUFFICES ASSUME NEW e \in Devices
               PROVE  /\ pc'[e] = "mark" => Oldest(todo'[e]) \in index'[e] /\ staged'[e] # {}
                      /\ pushed'[e] /\ pc'[e] # "idle" => staged'[e] # {}
                      /\ status'[e] = "done" => pc'[e] = "idle"
    BY DEF Accounting, Oldest
  <2>1. CASE e = d
    BY <1>3, <2>1
  <2>2. CASE e # d
    BY <1>2, <1>3, <2>2 DEF GitInv, Accounting
  <2> QED
    BY <2>1, <2>2
<1>8. UndisturbedIsHeld'
  BY <1>1, <1>2, <1>4 DEF GitInv, UndisturbedIsHeld, Holds, Synced, Undisturbed
<1>9. SentMeansAllSent'
  <2> SUFFICES ASSUME NEW e \in Devices, Undisturbed(e), status'[e] = "done", pushed'[e]
               PROVE  written[e] \ (unsynced[e] \cup removed) \in SUBSET Tree(remote')
    BY <1>2, <1>4 DEF SentMeansAllSent, Synced, Undisturbed
  <2>1. CASE e = d
    <3>1. index[d] = Tree(remote')
      BY <1>1 DEF GitInv, Indexes
    <3> QED
      BY <1>1, <2>1, <3>1 DEF GitInv, UndisturbedIsHeld, Holds, Synced
  <2>2. CASE e # d
    BY <1>1, <1>2, <1>3, <2>2 DEF GitInv, SentMeansAllSent, Synced
  <2> QED
    BY <2>1, <2>2
<1>10. Staging'
  <2> SUFFICES ASSUME NEW e \in Devices PROVE StagedIn(e)'
    BY DEF Staging
  <2>1. StagedIn(e) /\ (Undisturbed(e)' <=> Undisturbed(e)) /\ Tree(commits[e])' = Tree(commits'[e])
    BY <1>2 DEF GitInv, Staging, Undisturbed, Tree, Last
  <2>2. CASE e = d
    BY <1>1, <1>2, <1>3, <2>1, <2>2 DEF StagedIn, GitInv, Indexes
  <2>3. CASE e # d
    BY <1>2, <1>3, <2>1, <2>3 DEF StagedIn
  <2> QED
    BY <2>2, <2>3
<1> QED
  BY <1>5, <1>6, <1>7, <1>8, <1>9, <1>10 DEF GitInv

----------------------------------------------------------------------------
\* The theorems.

\* A step of the system, by what it does to the branches.
LEMMA NextCases ==
    ASSUME Next
    PROVE  \E d \in Devices :
              \/ Quiet(d) \/ Write(d) \/ cloneOrInit(d) \/ FastForward(d) \/ AddFile(d) \/ Mark(d)
              \/ remove(d) \/ Commit(d) \/ Arrives(d)
BY DEF Next, Step, Quiet, Arrives

LEMMA GitInvariant == Spec => []GitInv
<1>1. GitInv /\ [Next]_vars => GitInv'
  <2> SUFFICES ASSUME GitInv, [Next]_vars PROVE GitInv'
    OBVIOUS
  <2>1. CASE UNCHANGED vars
    BY <2>1 DEF vars, log, clone, cycle, history, GitInv, TypeOK, Histories, OnlyPruned, Indexes, Unborn,
       Accounting, Oldest, Staging, StagedIn, UndisturbedIsHeld, Holds, Synced, Undisturbed, SentMeansAllSent,
       Tree, Last
  <2>2. CASE Next
    <3>1. TypeOK'
      BY <2>2, TypeStep DEF GitInv
    <3>2. PICK d \in Devices :
              \/ Quiet(d) \/ Write(d) \/ cloneOrInit(d) \/ FastForward(d) \/ AddFile(d) \/ Mark(d)
              \/ remove(d) \/ Commit(d) \/ Arrives(d)
      BY <2>2, NextCases
    <3> QED
      BY <3>1, <3>2, QuietStep, WriteStep, CloneStep, FastForwardStep, AddStep, MarkStep, RemoveStep,
         CommitStep, ArrivesStep
  <2> QED
    BY <2>1, <2>2
<1> QED
  BY <1>1, GitInit, PTL DEF Spec

\* On a device whose app is never killed in a cycle and that takes no snapshot, what is
\* marked as synced is in the branch, in the clone's index, or pruned, whatever the
\* checkouts of list() do, whichever requests fail and whatever the others push.
THEOREM UndisturbedStaysHeld == Spec => []UndisturbedIsHeld
BY GitInvariant, PTL DEF GitInv

\* A cycle of such a device that reports sent operations leaves none of its synced ones
\* behind: flush() commits the whole index.
THEOREM SentIsAllSent == Spec => []SentMeansAllSent
BY GitInvariant, PTL DEF GitInv

\* No push rewinds the branch, and none drops a file that was not pruned.
THEOREM PushesAddOnly == Spec => PushesOnlyAdd
<1> DEFINE Adds == /\ IsPrefix(remote, remote')
                   /\ Tree(remote) \ Tree(remote') \subseteq removed
<1>1. ASSUME GitInv, [Next]_vars PROVE [Adds]_vars
  <2>1. CASE remote' = remote
    BY <1>1, <2>1, PrefixMeans DEF GitInv, TypeOK
  <2>2. CASE remote' # remote /\ Next
    <3>1. PICK d \in Devices :
              \/ Quiet(d) \/ Write(d) \/ cloneOrInit(d) \/ FastForward(d) \/ AddFile(d) \/ Mark(d)
              \/ remove(d) \/ Commit(d) \/ Arrives(d)
      BY <2>2, NextCases
    <3>2. ~Quiet(d)
      BY <1>1, <2>2, QuietEffect
    <3>3. Arrives(d)
      BY <2>2, <3>1, <3>2 DEF Write, cloneOrInit, FastForward, AddFile, Mark, remove, Commit
    <3> QED
      BY <1>1, <3>3, ArrivesAdds
  <2> QED
    BY <1>1, <2>1, <2>2 DEF vars
<1> QED
  BY <1>1, GitInvariant, PTL DEF Spec, PushesOnlyAdd
=============================================================================
