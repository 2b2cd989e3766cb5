----------------------------- MODULE NodeHealth -----------------------------
(***************************************************************************)
(* NodeHealthStore (node_health.cpp) used from many threads.               *)
(*                                                                         *)
(* Any thread reports the outcome of a request (ReportNodeResult), and     *)
(* discovery adds and removes nodes.  ProbeDownNodes is not atomic: it     *)
(* takes a snapshot of the Down nodes, and for each of them looks the node *)
(* up, sends a probe with no lock held, and reports what came back.  By    *)
(* then other threads may have moved the node to any state, removed it, or *)
(* removed it and added it again.  Probes of several threads (background   *)
(* loop, NextNode, UpdateLiveNodes) overlap.                               *)
(***************************************************************************)
EXTENDS HealthRules, Sequences

CONSTANTS
    InitialNode,    \* the nodes the store is built with
    Prober,         \* the threads inside ProbeDownNodes
    NoNode,         \* no node is being probed
    MaxHistory      \* bound: reports applied to one node since it was added

ASSUME StoreAssumption ==
    /\ InitialNode \subseteq Node
    /\ NoNode \notin Node
    /\ MaxHistory \in Nat

VARIABLES
    statuses,   \* statuses_
    todo,       \* todo[p]: the snapshot nodes p has not come to yet
    target,     \* target[p]: the node p is probing, its lookup behind it
    history     \* ghost: the reports applied to a node since it was added

vars == <<statuses, todo, target, history>>

TypeOK ==
    /\ statuses \in StatusMap
    /\ todo \in [Prober -> SUBSET Node]
    /\ target \in [Prober -> Node \cup {NoNode}]
    /\ history \in [Node -> Seq(NodeHealthObservation)]

Init ==
    /\ statuses = NewStore(InitialNode)
    /\ todo = [p \in Prober |-> {}]
    /\ target = [p \in Prober |-> NoNode]
    /\ history = [n \in Node |-> << >>]

-----------------------------------------------------------------------------
(* NodeHealthStore::ReportNodeResult                                       *)
ReportNodeResult(n, observation) ==
    /\ statuses' = ReportResult(statuses, n, observation)
    /\ IF Listens(statuses, n)
         THEN /\ Len(history[n]) < MaxHistory
              /\ history' = [history EXCEPT ![n] = Append(@, observation)]
         ELSE UNCHANGED history

(* A thread reports the outcome of its own request.                        *)
Report(n, observation) ==
    /\ ReportNodeResult(n, observation)
    /\ UNCHANGED <<todo, target>>

(* NodeHealthStore::AddNode, called by UpdateLiveNodes.                    *)
Add(n) ==
    /\ statuses' = AddNode(statuses, n)
    /\ UNCHANGED <<todo, target, history>>

(* NodeHealthStore::RemoveNode, called by UpdateLiveNodes.                 *)
Remove(n) ==
    /\ statuses' = RemoveNode(statuses, n)
    /\ history' = [history EXCEPT ![n] = << >>]
    /\ UNCHANGED <<todo, target>>

-----------------------------------------------------------------------------
(* NodeHealthStore::ProbeDownNodes, in its three kinds of atomic steps.    *)

Idle(p) == todo[p] = {} /\ target[p] = NoNode

(* The snapshot.                                                           *)
ProbeBegin(p) ==
    /\ ~HealthDisabled
    /\ Idle(p)
    /\ todo' = [todo EXCEPT ![p] = GetDownNodes(statuses)]
    /\ UNCHANGED <<statuses, target, history>>

(* The lookup: a node that left the store meanwhile is skipped.  Its state *)
(* is not looked at.                                                       *)
ProbeLookup(p) ==
    /\ todo[p] # {} /\ target[p] = NoNode
    /\ LET n == Least(todo[p]) IN
         /\ todo' = [todo EXCEPT ![p] = @ \ {n}]
         /\ target' = [target EXCEPT ![p] = IF statuses[n] = NoStatus THEN NoNode ELSE n]
    /\ UNCHANGED <<statuses, history>>

(* The probe has answered, or failed, and its outcome is reported.         *)
ProbeReport(p) ==
    /\ target[p] # NoNode
    /\ \E observation \in NodeHealthObservation :
         ReportNodeResult(target[p], observation)
    /\ target' = [target EXCEPT ![p] = NoNode]
    /\ UNCHANGED todo

-----------------------------------------------------------------------------
Next ==
    \/ \E n \in Node, observation \in NodeHealthObservation : Report(n, observation)
    \/ \E n \in Node : Add(n) \/ Remove(n)
    \/ \E p \in Prober : ProbeBegin(p) \/ ProbeLookup(p) \/ ProbeReport(p)

Spec == Init /\ [][Next]_vars

-----------------------------------------------------------------------------
(***************************************************************************)
(* What the configuration comments and the README promise of a node's      *)
(* state, as a function of the reports applied to it and of nothing else.  *)
(***************************************************************************)

(* Report i of h is one that must leave the node down: a connection        *)
(* failure, or the last of ErrorThreshold consecutive 5xx responses.       *)
MarksDown(h, i) ==
    \/ h[i] = "ConnectionFailure"
    \/ /\ i >= ErrorThreshold
       /\ \A k \in (i - ErrorThreshold + 1) .. i : h[k] = "ServerError"

(* Report i is a success that follows report d, and it is not the first    *)
(* one since (that one only takes the node out of Down): it ends a run of  *)
(* SuccessThreshold successes, all after d.                                *)
Promotes(h, d, i) ==
    /\ i - SuccessThreshold >= d
    /\ \A k \in (i - SuccessThreshold + 1) .. i : h[k] = "Success"
    /\ \E k \in (d + 1) .. (i - 1) : h[k] = "Success"

(* The reports that left the node down and have not been made up for.      *)
Outstanding(h) ==
    {d \in 1 .. Len(h) :
        MarksDown(h, d) /\ \A i \in (d + 1) .. Len(h) : ~Promotes(h, d, i)}

(* The state of a node with report history h.                              *)
PromisedState(h) ==
    IF Outstanding(h) = {} THEN "Active"
    ELSE IF \E d \in Outstanding(h) : \A i \in (d + 1) .. Len(h) : h[i] # "Success"
         THEN "Down"
         ELSE "Quarantined"

(* Whatever the interleaving of requests, overlapping probes, removals and *)
(* re-additions, the state of every node is the one its applied reports    *)
(* call for: the counters of ReportNodeResult lose and invent nothing,     *)
(* also when the 5xx counter of a Down node wraps around.                  *)
StateFollowsReports ==
    \A n \in Known(statuses) : statuses[n].state = PromisedState(history[n])

(* A node that is not Down has fewer consecutive 5xx responses on its      *)
(* account than the threshold, a Down node has no successes, and a         *)
(* quarantined one has not passed its threshold unnoticed.  This is what   *)
(* makes the >= tests of ReportNodeResult fire exactly at the threshold.   *)
CountersMatchState ==
    \A n \in Known(statuses) :
        LET s == statuses[n] IN
        /\ s.state # "Down" => s.errors < ErrorThreshold
        /\ s.state = "Down" => s.successes = 0
        /\ s.state = "Quarantined" => s.successes < SuccessThreshold \/ s.successes = 1
        /\ s.state = "Active" => s.successes \in {0, SuccessThreshold}

(* A step never takes a known node from Down straight to Active, nor from  *)
(* Active to Quarantined: the way back leads through quarantine, and the   *)
(* way into quarantine through Down, whoever reports and however late.     *)
(* (Forgetting the node and learning it again is two steps.)               *)
RigidTransitions ==
    [][\A n \in Node :
         /\ statuses[n].state = "Down" => statuses'[n].state # "Active"
         /\ statuses[n].state = "Active" => statuses'[n].state # "Quarantined"]_vars
=============================================================================
