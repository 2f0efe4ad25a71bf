----------------------------- MODULE MCFSStore -----------------------------
(***************************************************************************)
(* FSStore for TLC, with the interface it implements.                      *)
(***************************************************************************)
EXTENDS FSStore

\* Two uploads of different size.
MCBodies == {[id |-> "small", size |-> 1], [id |-> "large", size |-> 2]}

Seen(f) == [name |-> f.name, body |-> f.body, bytes |-> f.bytes]

Interface == INSTANCE ObjectStore
    WITH objects <- [a \in Accounts |-> {Seen(f) : f \in files[a]}]

\* The file store implements the interface: whatever the interleaving and
\* wherever a crash falls, an object appears whole, under a name not in use and
\* within the quota, and then only ever disappears.
ImplementsStore == Interface!Spec
=============================================================================
