---------------------------- MODULE MCDiscovery -----------------------------
(* Instances of Discovery for TLC.                                         *)
EXTENDS Discovery

CONSTANTS t1, t2

MCDraw == [h \in Hash |-> [k \in 1 .. Cardinality(Node) |-> h % k]]

MCScopes == <<"Rack", "Cluster">>

(* A thread that refreshes beside a thread that reports.                   *)
MCThread == {t1, t2}
MCOffer == [t \in MCThread |-> IF t = t1 THEN {"Update"} ELSE {"Report"}]
=============================================================================
