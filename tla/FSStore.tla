------------------------------ MODULE FSStore ------------------------------
(***************************************************************************)
(* The sync server: the handlers of server/internal/api/server.go running  *)
(* concurrently on the file store of server/internal/storage/fsstore.go,   *)
(* and the paging client of core/sync/adapters/server.adapter.ts, which    *)
(* lists page after page until the server says there are no more.          *)
(*                                                                         *)
(* A step is what a handler does between two moments another handler, or a *)
(* crash, can fall in.  Everything a Put does under the account's lock is  *)
(* seen by nobody but listings, reads and a crash.                         *)
(***************************************************************************)
EXTENDS Naturals, FiniteSetsExt

CONSTANTS
    Accounts, Names, Bodies, Quota,     \* as in ObjectStore
    Handlers,       \* requests being served at once
    Kinds,          \* the kinds of request the clients of this instance make
    PageSize,       \* the limit of a listing, 1000 in the code
    NoHandler,      \* nobody: the value of a lock that is free
    MaxRequests,    \* bound: how many requests are made
    MaxCrashes      \* bound: how often the server dies

ASSUME StoreAssumption ==
    /\ Names \subseteq Nat
    /\ \A b \in Bodies : b.size \in Nat \ {0}
    /\ Quota \in Nat
    /\ Kinds \subseteq {"put", "get", "delete", "list"}
    /\ PageSize \in Nat \ {0}
    /\ NoHandler \notin Handlers
    /\ MaxRequests \in Nat
    /\ MaxCrashes \in Nat

VARIABLES
    files,      \* files[a]: the object files under a's directory
    leaked,     \* leaked[a]: bytes in .tmp- files nobody will rename or remove
    lock,       \* lock[a]: who holds a's mutex
    cache,      \* cache[a]: the cached usage, {} if none
    pc,         \* pc[h]: where handler h is
    req,        \* req[h]: the request it serves
    synced,     \* synced[h]: whether its temporary file was fsynced
    entries,    \* entries[h]: directory entries the walk has still to visit
    page,       \* page[h]: the names the walk has collected
    listed,     \* listed[h]: the names of the pages the client already has
    reply,      \* reply[h]: the answer to the last request
    since,      \* since[h]: names the listing must have when it ends (history)
    requests,   \* how many requests have been made
    crashes     \* how many crashes have happened

disk == <<files, leaked>>
listing == <<entries, page, listed, since>>
bounds == <<requests, crashes>>
vars == <<disk, lock, cache, pc, req, synced, listing, reply, bounds>>

\* Every byte counts once: file f holds those at offsets 1 .. f.bytes.
Bytes(fs) == Cardinality(UNION {{f} \X (1 .. f.bytes) : f \in fs})

\* usage(): everything under the account's directory, temporary files too.
Used(a) == Bytes(files[a]) + leaked[a]

NamesOf(fs) == {f.name : f \in fs}

Request ==
    [kind : Kinds, account : Accounts, name : Names, body : Bodies]

\* What a handler holds before its first request.
NoRequest == CHOOSE r \in Request : TRUE

Init ==
    /\ files = [a \in Accounts |-> {}]
    /\ leaked = [a \in Accounts |-> 0]
    /\ lock = [a \in Accounts |-> NoHandler]
    /\ cache = [a \in Accounts |-> {}]
    /\ pc = [h \in Handlers |-> "free"]
    /\ req = [h \in Handlers |-> NoRequest]
    /\ synced = [h \in Handlers |-> FALSE]
    /\ entries = [h \in Handlers |-> {}]
    /\ page = [h \in Handlers |-> {}]
    /\ listed = [h \in Handlers |-> {}]
    /\ reply = [h \in Handlers |-> "none"]
    /\ since = [h \in Handlers |-> {}]
    /\ requests = 0
    /\ crashes = 0

\* What the listings in progress can count on: what comes before everything that
\* was deleted under them.
Gone(a) == NamesOf(files[a]) \ NamesOf(files'[a])

Witness ==
    since' = [h \in Handlers |-> {n \in since[h] : \A m \in Gone(req[h].account) : n < m}]

Goto(h, step) == pc' = [pc EXCEPT ![h] = step]

\* The handler answers and is done.
Answer(h, status) ==
    /\ reply' = [reply EXCEPT ![h] = status]
    /\ Goto(h, "free")

Unlock(a) == lock' = [lock EXCEPT ![a] = NoHandler]

\* A request arrives (the name and body of those that have none play no part).
Arrive(h) ==
    /\ pc[h] = "free"
    /\ requests < MaxRequests
    /\ requests' = requests + 1
    /\ \E r \in Request :
         /\ r.kind # "put" => r.body = req[h].body
         /\ r.kind = "list" => r.name = req[h].name
         /\ req' = [req EXCEPT ![h] = r]
         /\ Goto(h, r.kind)
         /\ listed' = [listed EXCEPT ![h] = {}]
         /\ since' = [since EXCEPT ![h] =
                        IF r.kind = "list" THEN NamesOf(files[r.account]) ELSE {}]
    /\ reply' = [reply EXCEPT ![h] = "none"]
    /\ UNCHANGED <<disk, lock, cache, synced, entries, page, crashes>>

----------------------------------------------------------------------------
\* Put.

\* Mutant: the lock is not waited for.
LockAnyway(h) ==
    /\ pc[h] = "put"
    /\ lock' = [lock EXCEPT ![req[h].account] = h]
    /\ Goto(h, "check")
    /\ UNCHANGED <<disk, cache, req, synced, listing, reply, bounds>>

Lock(h) ==
    /\ pc[h] = "put"
    /\ lock[req[h].account] = NoHandler
    /\ lock' = [lock EXCEPT ![req[h].account] = h]
    /\ Goto(h, "check")
    /\ UNCHANGED <<disk, cache, req, synced, listing, reply, bounds>>

\* The immutability check: a name in use keeps its bytes.
CheckExisting(h) ==
    LET a == req[h].account
    IN /\ pc[h] = "check"
       /\ \E f \in files[a] :
            /\ f.name = req[h].name
            /\ Answer(h, IF f.body = req[h].body THEN "created" ELSE "conflict")
       /\ Unlock(a)
       /\ UNCHANGED <<disk, cache, req, synced, listing, bounds>>

\* usage(): the cached figure, or a walk whose result is cached.
UsageOf(a) == IF cache[a] # {} THEN CHOOSE u \in cache[a] : TRUE ELSE Used(a)

\* The quota, against that figure.
CheckQuota(h) ==
    LET a == req[h].account
    IN /\ pc[h] = "check"
       /\ req[h].name \notin NamesOf(files[a])
       /\ cache' = [cache EXCEPT ![a] = IF Quota > 0 THEN {UsageOf(a)} ELSE @]
       /\ IF Quota > 0 /\ UsageOf(a) + req[h].body.size > Quota
            THEN Answer(h, "quota") /\ Unlock(a)
            ELSE Goto(h, "write") /\ UNCHANGED <<lock, reply>>
       /\ UNCHANGED <<disk, req, synced, listing, bounds>>

\* CreateTemp and Write; then fsync.
WriteTemp(h) ==
    /\ pc[h] = "write"
    /\ synced' = [synced EXCEPT ![h] = FALSE]
    /\ Goto(h, "sync")
    /\ UNCHANGED <<disk, lock, cache, req, listing, reply, bounds>>

SyncTemp(h) ==
    /\ pc[h] = "sync"
    /\ synced' = [synced EXCEPT ![h] = TRUE]
    /\ Goto(h, "rename")
    /\ UNCHANGED <<disk, lock, cache, req, listing, reply, bounds>>

\* The file a rename puts in place.
NewFile(h) ==
    [name |-> req[h].name, body |-> req[h].body, bytes |-> req[h].body.size,
     durable |-> synced[h]]

\* Mutant: the cached figure survives a write.
InvalidatedNever(a) == cache[a]

\* What Put and Delete leave of the cached usage.
Invalidated(a) == {}

\* Rename into place, drop the cached usage, unlock, answer.
Rename(h) ==
    LET a == req[h].account
    IN /\ pc[h] = "rename"
       /\ files' = [files EXCEPT ![a] =
                      {f \in @ : f.name # req[h].name} \cup {NewFile(h)}]
       /\ cache' = [cache EXCEPT ![a] = Invalidated(a)]
       /\ Unlock(a)
       /\ Answer(h, "created")
       /\ UNCHANGED <<leaked, req, synced, listing, bounds>>

\* The steps at which a temporary file may exist.
Writes == {"write", "sync", "rename"}

\* Mutant: an error path forgets to unlock.
WriteFailsLocked(h) ==
    /\ pc[h] \in Writes
    /\ Answer(h, "failed")
    /\ UNCHANGED <<disk, lock, cache, req, synced, listing, bounds>>

\* The disk fails the write, the sync or the rename: the temporary file goes.
WriteFails(h) ==
    /\ pc[h] \in Writes
    /\ Unlock(req[h].account)
    /\ Answer(h, "failed")
    /\ UNCHANGED <<disk, cache, req, synced, listing, bounds>>

----------------------------------------------------------------------------
\* Delete and Get.

Delete(h) ==
    LET a == req[h].account
    IN /\ pc[h] = "delete"
       /\ lock[a] = NoHandler
       /\ files' = [files EXCEPT ![a] = {f \in @ : f.name # req[h].name}]
       /\ cache' = [cache EXCEPT ![a] = Invalidated(a)]
       /\ Answer(h, "deleted")
       /\ Witness
       /\ UNCHANGED <<leaked, lock, req, synced, entries, page, listed, bounds>>

Get(h) ==
    /\ pc[h] = "get"
    /\ Answer(h, IF req[h].name \in NamesOf(files[req[h].account]) THEN "found" ELSE "missing")
    /\ UNCHANGED <<disk, lock, cache, req, synced, listing, bounds>>

----------------------------------------------------------------------------
\* List, and the client that asks for page after page.

\* Mutant: the cursor is the first name of the next page, and is skipped.
AfterCursorSkipping(h, names) == {n \in names : \A m \in listed[h] : n > m + 1}

\* The names after the cursor, which is the last name of the page before.
AfterCursor(h, names) == {n \in names : \A m \in listed[h] : n > m}

\* WalkDir reads the directory; the entries are visited one by one.
ReadDir(h) ==
    /\ pc[h] = "list"
    /\ entries' = [entries EXCEPT ![h] = AfterCursor(h, NamesOf(files[req[h].account]))]
    /\ page' = [page EXCEPT ![h] = {}]
    /\ Goto(h, "visit")
    /\ UNCHANGED <<disk, lock, cache, req, synced, listed, since, reply, bounds>>

\* entry.Info() of a file deleted meanwhile ends the walk, and the error is
\* taken for a directory that does not exist: the page is what was collected.
Visit(h) ==
    /\ pc[h] = "visit"
    /\ entries[h] # {}
    /\ LET n == Min(entries[h])
       IN IF n \in NamesOf(files[req[h].account])
            THEN /\ page' = [page EXCEPT ![h] = @ \cup {n}]
                 /\ entries' = [entries EXCEPT ![h] = @ \ {n}]
            ELSE /\ entries' = [entries EXCEPT ![h] = {}]
                 /\ UNCHANGED page
    /\ UNCHANGED <<disk, lock, cache, pc, req, synced, listed, since, reply, bounds>>

\* The first PageSize names; a cursor only when there are more.
FirstPage(names) == {n \in names : Cardinality({m \in names : m < n}) < PageSize}

Deliver(h) ==
    /\ pc[h] = "visit"
    /\ entries[h] = {}
    /\ listed' = [listed EXCEPT ![h] = @ \cup FirstPage(page[h])]
    /\ page' = [page EXCEPT ![h] = {}]
    /\ IF Cardinality(page[h]) > PageSize
         THEN Goto(h, "list") /\ UNCHANGED reply
         ELSE Answer(h, "listed")
    /\ UNCHANGED <<disk, lock, cache, req, synced, entries, since, bounds>>

----------------------------------------------------------------------------
\* The server dies, and is started again on the same directory.  A temporary
\* file it was writing stays, as far as it was written; a file whose bytes were
\* never fsynced loses them.

Writing(a) == {h \in Handlers : req[h].account = a /\ pc[h] \in Writes}

Crash ==
    /\ crashes < MaxCrashes
    /\ crashes' = crashes + 1
    /\ \E part \in [Handlers -> UNION {0..b.size : b \in Bodies}] :
         /\ \A h \in Handlers : part[h] <= IF pc[h] \in Writes THEN req[h].body.size ELSE 0
         /\ \A h \in Handlers : pc[h] \in {"sync", "rename"} => part[h] = req[h].body.size
         /\ leaked' = [a \in Accounts |->
                         leaked[a] + Cardinality(UNION {{h} \X (1 .. part[h]) : h \in Writing(a)})]
    /\ files' = [a \in Accounts |->
                   {IF f.durable THEN f ELSE [f EXCEPT !.bytes = 0] : f \in files[a]}]
    /\ lock' = [a \in Accounts |-> NoHandler]
    /\ cache' = [a \in Accounts |-> {}]
    /\ pc' = [h \in Handlers |-> "free"]
    /\ reply' = [h \in Handlers |-> IF pc[h] = "free" THEN reply[h] ELSE "none"]
    /\ UNCHANGED <<req, synced, listing, requests>>

----------------------------------------------------------------------------
HandlerStep(h) ==
    \/ Lock(h) \/ CheckExisting(h) \/ CheckQuota(h) \/ WriteTemp(h) \/ SyncTemp(h)
    \/ Rename(h) \/ WriteFails(h)
    \/ Delete(h) \/ Get(h)
    \/ ReadDir(h) \/ Visit(h) \/ Deliver(h)

Next == Crash \/ \E h \in Handlers : Arrive(h) \/ HandlerStep(h)

Spec == Init /\ [][Next]_vars

\* The Go scheduler runs every handler, and a mutex that is free is taken.
FairSpec == Spec /\ \A h \in Handlers : WF_vars(HandlerStep(h))

----------------------------------------------------------------------------
File == [name : Names, body : Bodies, bytes : Nat, durable : BOOLEAN]

\* Every variable has its type.
TypeOK ==
    /\ files \in [Accounts -> SUBSET File]
    /\ \A a \in Accounts : IsFiniteSet(files[a])
    /\ leaked \in [Accounts -> Nat]
    /\ lock \in [Accounts -> Handlers \cup {NoHandler}]
    /\ cache \in [Accounts -> SUBSET Nat]
    /\ pc \in [Handlers -> {"free", "put", "check", "write", "sync", "rename",
                            "delete", "get", "list", "visit"}]
    /\ req \in [Handlers -> Request \cup {NoRequest}]
    /\ \A h \in Handlers : pc[h] # "free" => req[h] \in Request
    /\ synced \in [Handlers -> BOOLEAN]
    /\ entries \in [Handlers -> SUBSET Names]
    /\ page \in [Handlers -> SUBSET Names]
    /\ listed \in [Handlers -> SUBSET Names]
    /\ reply \in [Handlers -> {"none", "created", "conflict", "quota", "failed",
                               "deleted", "found", "missing", "listed"}]
    /\ since \in [Handlers -> SUBSET Names]
    /\ requests \in Nat /\ crashes \in Nat

\* The quota holds on disk, for everything under the account's directory:
\* temporary files left by crashes count, and concurrent uploads do not add up
\* past it (Put checks under the lock).
QuotaKept == Quota > 0 => \A a \in Accounts : Used(a) <= Quota

\* A cached usage figure nobody is about to drop is what a walk would find, so
\* no upload is refused, or let in, on a stale one.
CacheExact ==
    \A a \in Accounts : lock[a] = NoHandler /\ cache[a] # {} => cache[a] = {Used(a)}

\* Every request is answered: no handler keeps a lock, or waits for one, for
\* ever, and no listing asks for pages without end.
EveryRequestAnswered == \A h \in Handlers : pc[h] # "free" ~> pc[h] = "free"

\* A listing that says it is complete (storage.go: "NextCursor is empty when the
\* listing is complete") has every object that was there for as long as it ran, page
\* after page, whatever was uploaded meanwhile - up to the first object that was
\* deleted meanwhile, where the walk may have ended without saying so.
ListingComplete ==
    \A h \in Handlers : reply[h] = "listed" => since[h] \subseteq listed[h]
=============================================================================
