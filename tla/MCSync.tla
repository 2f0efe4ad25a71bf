------------------------------- MODULE MCSync -------------------------------
(***************************************************************************)
(* Sync for TLC, with the promise it is shown to keep.                     *)
(***************************************************************************)
EXTENDS Sync

Promise == INSTANCE ReplicatedLedger WITH history <- authored, log <- oplog, view <- rows

\* The devices, with their cycles, their crashes and the store between them,
\* implement the replicated ledger: each step is a write, a lesson or nothing.
KeepsPromise == Promise!Spec
=============================================================================
