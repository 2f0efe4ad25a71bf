------------------------------- MODULE Ledger -------------------------------
(***************************************************************************)
(* What LedgerService (core/repositories/ledger.service.ts) does to one    *)
(* device's database, as operators on values.                              *)
(*                                                                         *)
(* A database is a set of rows (the entity tables) and a log of operations *)
(* keyed by their stamp.  The content of an entity is named by the stamp   *)
(* of the write that produced it, which the code keeps in updatedAt: so a  *)
(* row is the put operation that wrote it, and two rows are equal exactly  *)
(* when they are the same write.                                           *)
(***************************************************************************)
EXTENDS HLC, FiniteSets

CONSTANT Entities       \* the identities (table and id) rows can have

\* models/oplog.ts: Operation.
Op == [hlc : Stamp, entity : Entities, op : {"put", "delete"}]

\* The rows of a table after put(value) and after delete(id).
TablePut(rows, o) == {r \in rows : r.entity # o.entity} \cup {o}
TableDelete(rows, e) == {r \in rows : r.entity # e}

\* oplog.put: the stamp is the primary key.
OplogPut(log, o) == {p \in log : p.hlc # o.hlc} \cup {o}

\* latestStampFor(): every logged stamp of o's entity is older than o.
NewerThanLog(o, log) == \A p \in log : p.entity = o.entity => Before(p.hlc, o.hlc)

\* o is the newest of its entity in log.
NewestOfEntity(o, log) == \A p \in log : p.entity = o.entity => AtMost(p.hlc, o.hlc)

(***************************************************************************)
(* merge(): the operations are visited in the order of their stamps, and   *)
(* one is applied when it is newer than everything logged for its entity.  *)
(* Visiting them oldest first, an earlier visit never stops a later one:   *)
(* the operations applied are those newer than the log merge started with. *)
(***************************************************************************)
\* Mutant: duplicates are skipped, stale operations are not.
AcceptedUnlessDuplicate(log, ops) == ops \ log

Accepted(log, ops) == {o \in ops : NewerThanLog(o, log)}

MergeLog(log, ops) ==
    {p \in log : \A o \in Accepted(log, ops) : p.hlc # o.hlc} \cup Accepted(log, ops)

\* Mutant: the operations of a batch are not put in order first.
MergeRowsUnsorted(rows, log, ops) ==
    LET accepted == Accepted(log, ops)
    IN  {r \in rows : \A o \in accepted : o.entity # r.entity}
          \cup {o \in accepted : o.op = "put"}

MergeRows(rows, log, ops) ==
    LET accepted == Accepted(log, ops)
    IN  {r \in rows : \A o \in accepted : o.entity # r.entity}
          \cup {o \in accepted : o.op = "put" /\ NewestOfEntity(o, accepted)}

----------------------------------------------------------------------------
\* The rows a log calls for: of each entity the newest operation, if a put.
LiveRows(log) == {o \in log : o.op = "put" /\ NewestOfEntity(o, log)}

\* log holds o, or something newer about the same entity.
Reflects(log, o) == \E p \in log : p.entity = o.entity /\ AtMost(o.hlc, p.hlc)
=============================================================================
