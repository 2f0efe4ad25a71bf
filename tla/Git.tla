-------------------------------- MODULE Git --------------------------------
(***************************************************************************)
(* The git adapter (core/sync/adapters/git.adapter.ts) under the sync      *)
(* engine's cycle: every device has a clone in an IndexedDB filesystem,    *)
(* and all push to one branch.                                             *)
(*                                                                         *)
(* The adapter is made anew for every cycle (AdapterFactory), so the set   *)
(* of staged names lives as long as a cycle does; the clone - work tree,   *)
(* index and commits - outlives it.  A history is a sequence of commits:   *)
(* nothing here ever merges.  What isomorphic-git does (fastForward, push, *)
(* commit) is external: its fastForward fetches, moves the branch if it    *)
(* can, and then always checks the branch out.                             *)
(***************************************************************************)
EXTENDS Integers, FiniteSets, SequencesExt

CONSTANTS
    Devices,
    MaxWrites,      \* bound: batches all users' writes make
    MaxSnapshots,   \* bound: snapshots all devices take
    MaxFaults       \* bound: requests that fail and apps that are killed

ASSUME GitAssumption == MaxWrites \in Nat /\ MaxSnapshots \in Nat /\ MaxFaults \in Nat

VARIABLES
    written,    \* written[d]: the batches of d's operations, each one object
    unsynced,   \* unsynced[d]: those still marked as pending in the log
    cloned,     \* cloned[d]: /vault/.git exists
    commits,    \* commits[d]: the history of the local branch, << >> if unborn
    index,      \* index[d]: the names the next commit will hold
    work,       \* work[d]: the files in the work tree
    staged,     \* staged[d]: GitAdapter.staged
    pc,         \* pc[d]: where the cycle is
    todo,       \* todo[d]: objects still to put, or to remove
    status,     \* status[d]: SyncStatus.state, and "done" after a whole cycle
    pushed,     \* pushed[d]: SyncStatus.pushed > 0
    remote,     \* the history of the branch at the destination
    snapshots,  \* every snapshot taken (history)
    removed,    \* every object a prune has removed (history)
    faults,     \* how many requests failed and apps were killed
    killed      \* the devices whose app was killed in a cycle (history)

log == <<written, unsynced>>
history == <<snapshots, removed, killed>>
clone == <<cloned, commits, index, work>>
cycle == <<staged, pc, todo, status, pushed>>
vars == <<log, clone, cycle, remote, history, faults>>

\* A batch of operations, or - with n = 0 - a snapshot.
Object == [by : Devices, n : Nat]
snapshotOf(d) == [by |-> d, n |-> 0]
IsSnapshot(o) == o.n = 0

\* A commit, and the files of the newest one.
Revision == [by : Devices, tree : SUBSET Object]

Tree(branch) == IF branch = << >> THEN {} ELSE Last(branch).tree

Diverged(d) == ~IsPrefix(commits[d], remote) /\ ~IsPrefix(remote, commits[d])

Goto(d, step) == pc' = [pc EXCEPT ![d] = step]

EndCycle(d, outcome) ==
    /\ Goto(d, "idle")
    /\ status' = [status EXCEPT ![d] = outcome]
    /\ staged' = [staged EXCEPT ![d] = {}]
    /\ todo' = [todo EXCEPT ![d] = {}]

----------------------------------------------------------------------------
Init ==
    /\ written = [d \in Devices |-> {}]
    /\ unsynced = [d \in Devices |-> {}]
    /\ snapshots = {}
    /\ cloned = [d \in Devices |-> FALSE]
    /\ commits = [d \in Devices |-> << >>]
    /\ index = [d \in Devices |-> {}]
    /\ work = [d \in Devices |-> {}]
    /\ staged = [d \in Devices |-> {}]
    /\ pc = [d \in Devices |-> "idle"]
    /\ todo = [d \in Devices |-> {}]
    /\ status = [d \in Devices |-> "idle"]
    /\ pushed = [d \in Devices |-> FALSE]
    /\ remote = << >>
    /\ removed = {}
    /\ faults = 0
    /\ killed = {}

\* The user's writes, as many as make one batch.
Write(d) ==
    /\ Cardinality(UNION {written[e] : e \in Devices}) < MaxWrites
    /\ LET o == [by |-> d, n |-> Cardinality(written[d]) + 1]
       IN /\ written' = [written EXCEPT ![d] = @ \cup {o}]
          /\ unsynced' = [unsynced EXCEPT ![d] = @ \cup {o}]
    /\ UNCHANGED <<clone, cycle, remote, history, faults>>

\* sync(): AdapterFactory.create gives the cycle an adapter with nothing staged.
Begin(d) ==
    /\ pc[d] = "idle"
    /\ Goto(d, "clone")
    /\ status' = [status EXCEPT ![d] = "syncing"]
    /\ pushed' = [pushed EXCEPT ![d] = FALSE]
    /\ UNCHANGED <<log, clone, staged, todo, remote, history, faults>>

\* cloneOrInit(): clone a branch that has a commit, else start a history.  The
\* refs are asked for first; another device may push before the repository is made.
AskRefs(d) ==
    /\ pc[d] = "clone"
    /\ Goto(d, IF cloned[d] THEN "list" ELSE IF remote = << >> THEN "init" ELSE "fetch")
    /\ UNCHANGED <<log, clone, staged, todo, status, pushed, remote, history, faults>>

cloneOrInit(d) ==
    /\ pc[d] \in {"init", "fetch"}
    /\ cloned' = [cloned EXCEPT ![d] = TRUE]
    /\ LET fetched == IF pc[d] = "fetch" THEN remote ELSE << >>
       IN /\ commits' = [commits EXCEPT ![d] = fetched]
          /\ index' = [index EXCEPT ![d] = Tree(fetched)]
          /\ work' = [work EXCEPT ![d] = Tree(fetched)]
    /\ Goto(d, "list")
    /\ UNCHANGED <<log, staged, todo, status, pushed, remote, history, faults>>

\* Mutant: every failure of the fast-forward is taken for a missing ref.
isAnyError(d) == TRUE

\* Which of the two refs is missing is not looked at.
isMissingRef(d) == remote = << >> \/ commits[d] = << >>

\* list(): sync() first.  Where it is called - pull() calls it twice in a row, for
\* the snapshots and for the operations - and what comes after it.
After == [list |-> "pull", prune |-> "choose"]

\* checkout: the index is made the tree.  A file the index had and the tree has not is
\* deleted, committed or not; one that is only in the work tree stays, and one that is
\* only missing from the work tree is not brought back.
CheckedOut(files, entries, tree) == (files \ entries) \cup (tree \ (entries \ files))

\* fastForward: the branch moves to the remote's head, or is there or ahead of it.
FastForward(d) ==
    /\ pc[d] \in DOMAIN After
    /\ ~isMissingRef(d)
    /\ ~Diverged(d)
    /\ LET head == IF IsPrefix(commits[d], remote) THEN remote ELSE commits[d]
       IN /\ commits' = [commits EXCEPT ![d] = head]
          /\ index' = [index EXCEPT ![d] = Tree(head)]
          /\ work' = [work EXCEPT ![d] = CheckedOut(@, index[d], Tree(head))]
    /\ Goto(d, After[pc[d]])
    /\ UNCHANGED <<log, cloned, staged, todo, status, pushed, remote, history, faults>>

\* A ref is missing: there is nothing to move to, and nothing is checked out.
NothingToFetch(d) ==
    /\ pc[d] \in DOMAIN After
    /\ isMissingRef(d)
    /\ Goto(d, After[pc[d]])
    /\ UNCHANGED <<log, clone, staged, todo, status, pushed, remote, history, faults>>

\* Any other failure of list() ends the cycle; prune() swallows it.
ListFails(d) ==
    /\ pc[d] \in DOMAIN After
    /\ Diverged(d)
    /\ ~isMissingRef(d)
    /\ IF pc[d] = "prune"
       THEN Goto(d, "flush") /\ UNCHANGED <<staged, todo, status>>
       ELSE EndCycle(d, "error")
    /\ UNCHANGED <<log, clone, pushed, remote, history, faults>>

\* pull() reads what it has not applied from the work tree (see Sync); push()
\* captures what is pending.
Pull(d) ==
    /\ pc[d] = "pull"
    /\ todo' = [todo EXCEPT ![d] = unsynced[d]]
    /\ Goto(d, IF unsynced[d] = {} THEN "threshold" ELSE "put")
    /\ UNCHANGED <<log, clone, staged, status, pushed, remote, history, faults>>

Oldest(objects) == CHOOSE o \in objects : \A p \in objects : o.n <= p.n

\* put(): write the file, add it to the index, remember that something is staged.
PutFile(d) ==
    /\ pc[d] = "put"
    /\ work' = [work EXCEPT ![d] = @ \cup {Oldest(todo[d])}]
    /\ Goto(d, "add")
    /\ UNCHANGED <<log, cloned, commits, index, staged, todo, status, pushed, remote, history, faults>>

\* Mutant: the file is written and counted, and not added.
AddNothing(d) ==
    /\ pc[d] = "add"
    /\ staged' = [staged EXCEPT ![d] = @ \cup {Oldest(todo[d])}]
    /\ Goto(d, "mark")
    /\ UNCHANGED <<log, clone, todo, status, pushed, remote, history, faults>>

\* Mutant: the file is added and flush is not told.
AddSilently(d) ==
    /\ pc[d] = "add"
    /\ index' = [index EXCEPT ![d] = @ \cup {Oldest(todo[d])}]
    /\ Goto(d, "mark")
    /\ UNCHANGED <<log, cloned, commits, work, staged, todo, status, pushed, remote, history, faults>>

AddFile(d) ==
    /\ pc[d] = "add"
    /\ index' = [index EXCEPT ![d] = @ \cup {Oldest(todo[d])}]
    /\ staged' = [staged EXCEPT ![d] = @ \cup {Oldest(todo[d])}]
    /\ Goto(d, "mark")
    /\ UNCHANGED <<log, cloned, commits, work, todo, status, pushed, remote, history, faults>>

\* push(): the object counts as applied and its operations as synced.  For a
\* snapshot there is nothing to mark, and pruning comes next.
Mark(d) ==
    /\ pc[d] = "mark"
    /\ LET o == Oldest(todo[d])
       IN /\ unsynced' = [unsynced EXCEPT ![d] = @ \ {o}]
          /\ todo' = [todo EXCEPT ![d] = @ \ {o}]
          /\ pushed' = [pushed EXCEPT ![d] = @ \/ ~IsSnapshot(o)]
          /\ Goto(d, IF IsSnapshot(o) THEN "prune"
                     ELSE IF todo[d] = {o} THEN "threshold" ELSE "put")
    /\ UNCHANGED <<written, clone, staged, status, remote, history, faults>>

\* maybeSnapshot(): when enough has happened since the last one.
TakeSnapshot(d) ==
    /\ pc[d] = "threshold"
    /\ snapshotOf(d) \notin snapshots
    /\ Cardinality(snapshots) < MaxSnapshots
    /\ snapshots' = snapshots \cup {snapshotOf(d)}
    /\ todo' = [todo EXCEPT ![d] = {snapshotOf(d)}]
    /\ Goto(d, "put")
    /\ UNCHANGED <<log, clone, staged, status, pushed, remote, removed, killed, faults>>

NoSnapshot(d) ==
    /\ pc[d] = "threshold"
    /\ Goto(d, "flush")
    /\ UNCHANGED <<log, clone, staged, todo, status, pushed, remote, history, faults>>

\* prune(): which of the listed batches the snapshot covers is Sync's business.
ChooseSuperseded(d) ==
    /\ pc[d] = "choose"
    /\ \E superseded \in SUBSET {o \in work[d] : ~IsSnapshot(o)} :
          /\ todo' = [todo EXCEPT ![d] = superseded]
          /\ Goto(d, IF superseded = {} THEN "flush" ELSE "unlink")
    /\ UNCHANGED <<log, clone, staged, status, pushed, remote, history, faults>>

\* remove(): the file first, then the index.
Unlink(d) ==
    /\ pc[d] = "unlink"
    /\ work' = [work EXCEPT ![d] = @ \ {Oldest(todo[d])}]
    /\ Goto(d, "unstage")
    /\ UNCHANGED <<log, cloned, commits, index, staged, todo, status, pushed, remote, history, faults>>

remove(d) ==
    /\ pc[d] = "unstage"
    /\ LET o == Oldest(todo[d])
       IN /\ index' = [index EXCEPT ![d] = @ \ {o}]
          /\ staged' = [staged EXCEPT ![d] = @ \cup {o}]
          /\ removed' = removed \cup {o}
          /\ todo' = [todo EXCEPT ![d] = @ \ {o}]
          /\ Goto(d, IF todo[d] = {o} THEN "flush" ELSE "unlink")
    /\ UNCHANGED <<log, cloned, commits, work, status, pushed, remote, snapshots, killed, faults>>

\* flush(): nothing staged, nothing to do - whatever an earlier cycle left behind.
FlushNothing(d) ==
    /\ pc[d] = "flush"
    /\ staged[d] = {}
    /\ EndCycle(d, "done")
    /\ UNCHANGED <<log, clone, pushed, remote, history, faults>>

Commit(d) ==
    /\ pc[d] = "flush"
    /\ staged[d] # {}
    /\ commits' = [commits EXCEPT ![d] = Append(@, [by |-> d, tree |-> index[d]])]
    /\ Goto(d, "push")
    /\ UNCHANGED <<log, cloned, index, work, staged, todo, status, pushed, remote, history, faults>>

\* Mutant: the push is forced.
PushForced(d) ==
    /\ pc[d] = "push"
    /\ remote' = commits[d]
    /\ EndCycle(d, "done")
    /\ UNCHANGED <<log, clone, pushed, history, faults>>

Push(d) ==
    /\ pc[d] = "push"
    /\ IsPrefix(remote, commits[d])
    /\ remote' = commits[d]
    /\ EndCycle(d, "done")
    /\ UNCHANGED <<log, clone, pushed, history, faults>>

\* The destination has commits this clone has not: the commit stays behind.
PushRefused(d) ==
    /\ pc[d] = "push"
    /\ ~IsPrefix(remote, commits[d])
    /\ EndCycle(d, "error")
    /\ UNCHANGED <<log, clone, pushed, remote, history, faults>>

----------------------------------------------------------------------------
Fault == faults < MaxFaults /\ faults' = faults + 1

\* A request fails; for a push the answer may be all that is lost.
RequestFails(d) ==
    /\ Fault
    /\ pc[d] \in {"clone", "fetch", "list", "prune", "push"}
    /\ IF pc[d] = "prune"
       THEN Goto(d, "flush") /\ UNCHANGED <<staged, todo, status>>
       ELSE EndCycle(d, "error")
    /\ \/ remote' = remote
       \/ pc[d] = "push" /\ IsPrefix(remote, commits[d]) /\ remote' = commits[d]
    /\ UNCHANGED <<log, clone, pushed, history>>

\* The app is killed: the clone is as far as it got.  A clone cut short has its
\* .git directory and no branch.
Crash(d) ==
    /\ Fault
    /\ pc[d] # "idle"
    /\ cloned' = [cloned EXCEPT ![d] = @ \/ pc[d] \in {"init", "fetch"}]
    /\ EndCycle(d, "idle")
    /\ pushed' = [pushed EXCEPT ![d] = FALSE]
    /\ killed' = killed \cup {d}
    /\ UNCHANGED <<log, commits, index, work, remote, snapshots, removed>>

Step(d) ==
    \/ AskRefs(d) \/ cloneOrInit(d)
    \/ FastForward(d) \/ NothingToFetch(d) \/ ListFails(d) \/ Pull(d)
    \/ PutFile(d) \/ AddFile(d) \/ Mark(d)
    \/ TakeSnapshot(d) \/ NoSnapshot(d) \/ ChooseSuperseded(d) \/ Unlink(d) \/ remove(d)
    \/ FlushNothing(d) \/ Commit(d) \/ Push(d) \/ PushRefused(d)

Next ==
    \E d \in Devices :
        Write(d) \/ Begin(d) \/ Step(d) \/ RequestFails(d) \/ Crash(d)

Spec == Init /\ [][Next]_vars

\* A timer begins a cycle again and again, and its requests are answered.
FairSpec ==
    /\ Spec
    /\ \A d \in Devices : WF_vars(Begin(d)) /\ WF_vars(Step(d))

----------------------------------------------------------------------------
Steps == {"idle", "clone", "init", "fetch", "list", "pull", "put", "add", "mark", "threshold",
          "prune", "choose", "unlink", "unstage", "flush", "push"}

\* Every variable has its type, and a step that takes an object has one.
TypeOK ==
    /\ written \in [Devices -> SUBSET Object] /\ \A d \in Devices : IsFiniteSet(written[d])
    /\ unsynced \in [Devices -> SUBSET Object]
    /\ cloned \in [Devices -> BOOLEAN]
    /\ commits \in [Devices -> Seq(Revision)]
    /\ index \in [Devices -> SUBSET Object] /\ work \in [Devices -> SUBSET Object]
    /\ staged \in [Devices -> SUBSET Object] /\ todo \in [Devices -> SUBSET Object]
    /\ pc \in [Devices -> Steps]
    /\ \A d \in Devices : pc[d] \in {"put", "add", "mark", "unlink", "unstage"} => todo[d] # {}
    /\ status \in [Devices -> {"idle", "syncing", "error", "done"}]
    /\ pushed \in [Devices -> BOOLEAN]
    /\ remote \in Seq(Revision)
    /\ snapshots \in SUBSET Object /\ removed \in SUBSET Object
    /\ faults \in Nat /\ killed \in SUBSET Devices

\* What a device counts as sent, and no prune has removed.
Synced(d) == written[d] \ (unsynced[d] \cup removed)
Holds(d) == Synced(d) \subseteq Tree(remote) \cup index[d]

\* git.adapter.ts, flush: "Commit everything staged since the last flush and push it
\* upstream."  An operation marked as synced is in the branch at the destination, or in
\* the index that the next commit takes.
SyncedIsHeld == \A d \in Devices : Holds(d)

\* Nothing has come between a put and the commit after it: the app was not killed in a
\* cycle, and no snapshot of its own made it list once more before it flushed.
Undisturbed(d) == d \notin killed /\ snapshotOf(d) \notin snapshots

\* The checkout that comes with every listing drops nothing of such a device: what it
\* marked as synced is in the branch or in its index, through refused and failing pushes,
\* a clone that starts unborn or diverges, and whatever the other devices push and prune.
UndisturbedIsHeld == \A d \in Devices : Undisturbed(d) => Holds(d)

\* A cycle of such a device that says it has sent something has sent everything: the
\* commits that earlier cycles left behind go with it.
SentMeansAllSent ==
    \A d \in Devices :
        Undisturbed(d) /\ status[d] = "done" /\ pushed[d] => Synced(d) \subseteq Tree(remote)

\* A push only adds to the branch, and takes a file away only when some prune has
\* removed it: no stale clone rewinds or empties the destination.
PushesOnlyAdd ==
    [][/\ IsPrefix(remote, remote')
       /\ Tree(remote) \ Tree(remote') \subseteq removed]_vars

\* Two devices that committed on the same head: the one that was refused cannot
\* push nor fast-forward any more, and its user gets to know.
DivergedIsReported ==
    \A d \in Devices : Diverged(d) ~> status[d] = "error"
=============================================================================
