---------------------------- MODULE MCLiveNodes -----------------------------
(* Instances of LiveNodes for TLC.                                         *)
EXTENDS LiveNodes, TLC

CONSTANTS t1, t2

(* A hash is a number; the first draw of its generator is its value modulo *)
(* the list length, so that two hashes prefer different nodes.             *)
MCDraw == [h \in Hash |-> [k \in 1 .. Cardinality(Node) |-> h % k]]

TwoThreads == {t1, t2}

(* A thread that asks for plans for a hash beside one that reports.        *)
OfferPlanAndReport ==
    [t \in TwoThreads |-> IF t = t1 THEN {"HashPlan"} ELSE {"Report"}]

(* A request thread beside a thread that reports and probes.               *)
OfferRouteAndReport ==
    [t \in TwoThreads |-> IF t = t1 THEN RoutingCall ELSE {"Report", "Probe"}]

(* A thread that routes and refreshes the node list beside a thread that   *)
(* refreshes it.                                                           *)
OfferRouteAndUpdate ==
    [t \in TwoThreads |-> IF t = t1 THEN {"HashPlan", "Update"} ELSE {"Update"}]
=============================================================================
