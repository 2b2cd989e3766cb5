-------------------------- MODULE MCPartitionKeys ---------------------------
(* Instances of PartitionKeys for TLC.                                     *)
EXTENDS PartitionKeys

CONSTANTS t1, t2

(* The first table has to be discovered, the second one is configured.     *)
MCConfigured == [t \in Table |-> IF t = t1 THEN NoName ELSE CHOOSE n \in Name : TRUE]

(* A write to the first table, a batch to both, and one that has no key.   *)
MCWrites ==
    {[tables |-> {t1}, batch |-> FALSE, item |-> Name],
     [tables |-> {t1, t2}, batch |-> TRUE, item |-> Name],
     [tables |-> {t2}, batch |-> TRUE, item |-> {}]}
=============================================================================
