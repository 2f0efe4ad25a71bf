---------------------------- MODULE ObjectStore ----------------------------
(***************************************************************************)
(* What the sync server's Store interface promises (server/internal/       *)
(* storage/storage.go), without locks, temporary files, caches or crashes: *)
(* per account, a set of named objects, each whole from the moment it can  *)
(* be seen, never changed afterwards, and never more bytes than the quota. *)
(***************************************************************************)
EXTENDS Naturals, FiniteSets

CONSTANTS
    Accounts,   \* the accounts of the token file
    Names,      \* object names, as numbers: the order of the listing
    Bodies,     \* what a client can upload, records with a size in bytes
    Quota       \* bytes an account may use; 0 means unlimited

VARIABLE objects    \* objects[a]: the objects of account a

Bytes(files) == Cardinality(UNION {{f} \X (1 .. f.bytes) : f \in files})

Init == objects = [a \in Accounts |-> {}]

Add(a) ==
    \E n \in Names, b \in Bodies :
        /\ n \notin {f.name : f \in objects[a]}
        /\ Quota > 0 => Bytes(objects[a]) + b.size <= Quota
        /\ objects' = [objects EXCEPT ![a] =
                         @ \cup {[name |-> n, body |-> b, bytes |-> b.size]}]

Drop(a) ==
    \E f \in objects[a] : objects' = [objects EXCEPT ![a] = @ \ {f}]

Next == \E a \in Accounts : Add(a) \/ Drop(a)

Spec == Init /\ [][Next]_objects
=============================================================================
