-------------------------- MODULE ReplicatedLedger --------------------------
(***************************************************************************)
(* What the vault promises, without clocks, cycles, objects or failures:   *)
(* every device has a log that only grows, a write enters the log of the   *)
(* device it was made on above everything that log says of the entity,     *)
(* and any other entry of a log is a write somebody made, learned when it  *)
(* was newer than what the device knew of that entity.  The ledger a       *)
(* device shows is read off its log: per entity the newest write.          *)
(***************************************************************************)
EXTENDS Ledger

VARIABLES
    history,    \* every write made
    log,        \* log[d]: the writes device d knows of
    view        \* view[d]: the ledger device d shows

Init ==
    /\ history = {}
    /\ log = [d \in Devices |-> {}]
    /\ view = [d \in Devices |-> {}]

Show(d) == view' = [view EXCEPT ![d] = LiveRows(log'[d])]

Write(d) ==
    \E o \in history' :
        /\ o.hlc \notin {p.hlc : p \in history}
        /\ o.hlc.device = d
        /\ NewerThanLog(o, log[d])
        /\ history' = history \cup {o}
        /\ log' = [log EXCEPT ![d] = @ \cup {o}]
        /\ Show(d)

Learn(d) ==
    \E ops \in SUBSET history :
        /\ \A o \in ops : NewerThanLog(o, log[d])
        /\ log' = [log EXCEPT ![d] = @ \cup ops]
        /\ Show(d)
        /\ UNCHANGED history

Next == \E d \in Devices : Write(d) \/ Learn(d)

Spec == Init /\ [][Next]_<<history, log, view>>
=============================================================================
