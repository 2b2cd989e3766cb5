----------------------------- MODULE Discovery ------------------------------
(***************************************************************************)
(* How UpdateLiveNodes comes by its node list: FetchLiveNodes walks the    *)
(* chain of routing scopes, and GetNodesForScope asks node after node for  *)
(* /localnodes (live_nodes.cpp, routing_scope.cpp).  LiveNodes has this as *)
(* a few choices (FetchPlan, FetchError, FetchResult); here every question *)
(* and every answer is a step, and the result is shown to be one that      *)
(* LiveNodes allows.  CheckIfRackAndDatacenterSetCorrectly walks the same  *)
(* chain and throws away what it finds.                                    *)
(*                                                                         *)
(* Threads that refresh run beside threads that report; routing calls      *)
(* change nothing discovery depends on but its sampling counters, and      *)
(* probes of other threads are reports.                                    *)
(***************************************************************************)
EXTENDS LiveNodes, Sequences

CONSTANT Scopes   \* the chain of scopes: routing_scope, its Fallback(), ...

ASSUME ScopesAssumption ==
    /\ Scopes \in Seq({"Rack", "Datacenter", "Cluster"}) /\ Scopes # <<>>
    /\ \A i \in 1 .. Len(Scopes) - 1 : Scopes[i] # "Cluster"

VARIABLES
    fetch,   \* fetch[t]: the locals of FetchLiveNodes and GetNodesForScope
    steady   \* ghost, steady[t]: nodes Active ever since t began with its scope

discoveryVars == <<vars, fetch, steady>>

-----------------------------------------------------------------------------
(* stage: Scope (a scope is about to begin), Plan (the nodes to ask are    *)
(* being sampled), Ask (the loop), Done; plan: the nodes left to ask;      *)
(* discovered, failed (is there a last_error); observation: what the       *)
(* report in progress says; outcome: of the walk.  Ghosts: heard, all the  *)
(* nodes some answer listed in this scope; denied, the nodes that answered *)
(* that the scope has none; unheard, the nodes an earlier scope should     *)
(* have heard that from and did not.                                       *)
Fetch ==
    [purpose : {"None", "Update", "Check"}, stage : {"Scope", "Plan", "Ask", "Done"},
     scope : 1 .. Len(Scopes) + 1, plan : SUBSET Node, discovered : SUBSET Node,
     failed : SUBSET Node, observation : NodeHealthObservation,
     outcome : {"None", "Nodes", "Empty", "Threw"}, heard : SUBSET Node,
     denied : SUBSET Node, unheard : SUBSET Node]

NewFetch(purpose) ==
    [purpose |-> purpose, stage |-> "Scope", scope |-> 1, plan |-> {}, discovered |-> {},
     failed |-> {}, observation |-> "Success", outcome |-> "None", heard |-> {},
     denied |-> {}, unheard |-> {}]

NoFetch == [NewFetch("None") EXCEPT !.stage = "Done"]

FetchTypeOK == TypeOK /\ fetch \in [Thread -> Fetch] /\ steady \in [Thread -> SUBSET Node]

DiscoveryInit ==
    /\ Init
    /\ fetch = [t \in Thread |-> NoFetch]
    /\ steady = [t \in Thread |-> {}]

Working(t, stage) == At(t, "Fetch") /\ fetch[t].stage = stage

IsCluster(i) == Scopes[i] = "Cluster"

(* The ghost follows every step, of any thread: it starts with a scope and *)
(* loses each node that does not stay Active.                              *)
Watching ==
    steady' = [t \in Thread |->
        CASE fetch'[t].stage = "Done" -> {}
          [] fetch'[t].stage = "Scope" -> GetActiveNodes(statuses')
          [] OTHER -> steady[t] \cap GetActiveNodes(statuses')]

-----------------------------------------------------------------------------
(* UpdateLiveNodes, or the check of the configured scopes.                 *)
BeginRefresh(t) ==
    /\ BeginUpdate(t)
    /\ \E purpose \in {"Update", "Check"} : fetch' = [fetch EXCEPT ![t] = NewFetch(purpose)]

(* The walk ends.  Nodes found are published; without any, UpdateLiveNodes *)
(* probes, and the check throws; an exception leaves either call.          *)
Finish(t, f, outcome, nodes) ==
    /\ fetch' = [fetch EXCEPT ![t] = [NoFetch EXCEPT !.outcome = outcome,
                                           !.heard = f.heard, !.unheard = f.unheard]]
    /\ frame' = [frame EXCEPT ![t] =
         CASE f.purpose = "Update" /\ outcome = "Nodes" -> [@ EXCEPT !.pc = "Lock", !.fresh = nodes]
           [] f.purpose = "Update" /\ outcome = "Empty" -> [@ EXCEPT !.pc = "ProbeSnapshot"]
           [] OTHER -> IdleFrame]

ClusterNodes == InitialNode

(* GetDiscoveryNodesForScope: the cluster scope asks the initial nodes,    *)
(* any other one the nodes of a query plan.                                *)
BeginScope(t) ==
    LET f == fetch[t] IN
    /\ Working(t, "Scope")
    /\ \/ /\ f.scope > Len(Scopes)
          /\ Finish(t, f, "Empty", {})
       \/ /\ f.scope <= Len(Scopes) /\ IsCluster(f.scope) /\ f.purpose = "Check"
          /\ Finish(t, f, "Empty", {})
       \/ /\ f.scope <= Len(Scopes) /\ IsCluster(f.scope) /\ f.purpose = "Update"
          /\ fetch' = [fetch EXCEPT ![t].stage = "Ask", ![t].plan = ClusterNodes]
          /\ UNCHANGED frame
       \/ /\ f.scope <= Len(Scopes) /\ ~IsCluster(f.scope)
          /\ fetch' = [fetch EXCEPT ![t].stage = "Plan"]
          /\ frame' = [frame EXCEPT ![t].pc = "Active"]
    /\ UNCHANGED <<statuses, routing, indexes>>
    /\ Witnessing

(* GetQueryPlanNodes, whose last step hands over its nodes.                *)
SampleDiscoveryNodes(t) ==
    /\ frame[t].call = "Update"
    /\ SnapshotActive(t) \/ Sample(t) \/ CountAttempt(t) \/ ReadQuarantined(t) \/ PickQuarantined(t)
    /\ LET f == frame[t]
           picked == IF At(t, "PickQuarantined")
                     THEN {Element(f.quarantined, quarantine_node_index % Cardinality(f.quarantined))}
                     ELSE {}
       IN fetch' = IF frame'[t].pc = "Fetch"
                   THEN [fetch EXCEPT ![t].stage = "Ask", ![t].plan = f.active \cup picked]
                   ELSE fetch

(* Mutant: a list replaces the lists the other nodes answered with.        *)
WithListReplaces(f, nodes) == [f EXCEPT !.discovered = nodes, !.heard = @ \cup nodes]

WithList(f, nodes) == [f EXCEPT !.discovered = @ \cup nodes, !.heard = @ \cup nodes]

(* A node answers with a list.  Outside the cluster scope the first one    *)
(* that is not empty is taken.                                             *)
AskAnswered(t) ==
    /\ Working(t, "Ask")
    /\ \E n \in fetch[t].plan, nodes \in SUBSET Node :
         LET f == [fetch[t] EXCEPT !.plan = @ \ {n},
                                   !.denied = IF nodes = {} THEN @ \cup {n} ELSE @] IN
         IF nodes = {} \/ IsCluster(f.scope)
         THEN /\ fetch' = [fetch EXCEPT ![t] = WithList(f, nodes)]
              /\ UNCHANGED frame
         ELSE Finish(t, WithList(f, nodes), "Nodes", nodes)
    /\ UNCHANGED <<statuses, routing, indexes>>
    /\ Witnessing

(* Mutant: a node that failed is asked again.                              *)
AskFailedAgain(t) ==
    /\ Working(t, "Ask") /\ Free
    /\ \E n \in fetch[t].plan, observation \in NodeHealthObservation :
         /\ fetch' = [fetch EXCEPT ![t].failed = @ \cup {n}, ![t].observation = observation]
         /\ frame' = [frame EXCEPT ![t].pc = "Report", ![t].node = n]
    /\ UNCHANGED <<statuses, routing, indexes>>
    /\ Witnessing

(* A node fails: it cannot be reached (ConnectionFailure), answers with a  *)
(* 5xx (ServerError), or with another status or something that is no node  *)
(* list (both of which count as Success).  The failure is reported.        *)
AskFailed(t) ==
    /\ Working(t, "Ask") /\ Free
    /\ \E n \in fetch[t].plan, observation \in NodeHealthObservation :
         /\ fetch' = [fetch EXCEPT ![t].plan = @ \ {n}, ![t].failed = @ \cup {n},
                                   ![t].observation = observation]
         /\ frame' = [frame EXCEPT ![t].pc = "Report", ![t].node = n]
    /\ UNCHANGED <<statuses, routing, indexes>>
    /\ Witnessing

(* Ghost: who has to say that the scope is empty before it is left.        *)
Concerned(t) == IF IsCluster(fetch[t].scope) THEN ClusterNodes ELSE steady[t]

(* Mutant: a scope whose nodes failed falls back like an empty one.        *)
EndScopeIgnoresErrors(t) ==
    LET f == fetch[t] IN
    /\ Working(t, "Ask") /\ f.plan = {}
    /\ \/ /\ f.discovered # {}
          /\ Finish(t, f, "Nodes", f.discovered)
       \/ /\ f.discovered = {}
          /\ fetch' = [fetch EXCEPT ![t].scope = @ + 1, ![t].stage = "Scope", ![t].failed = {},
                                    ![t].heard = {}, ![t].denied = {},
                                    ![t].unheard = @ \cup (Concerned(t) \ f.denied)]
          /\ UNCHANGED frame
    /\ UNCHANGED <<statuses, routing, indexes>>
    /\ Witnessing

(* Mutant: the list is published although it is empty.                     *)
EndScopePublishesNothing(t) ==
    LET f == fetch[t] IN
    /\ Working(t, "Ask") /\ f.plan = {}
    /\ Finish(t, f, "Nodes", f.discovered)
    /\ UNCHANGED <<statuses, routing, indexes>>
    /\ Witnessing

(* The end of GetNodesForScope: the lists found, or the last error, or the *)
(* next scope of the chain.                                                *)
EndScope(t) ==
    LET f == fetch[t] IN
    /\ Working(t, "Ask") /\ f.plan = {}
    /\ \/ /\ f.discovered # {}
          /\ Finish(t, f, "Nodes", f.discovered)
       \/ /\ f.discovered = {} /\ f.failed # {}
          /\ Finish(t, f, "Threw", {})
       \/ /\ f.discovered = {} /\ f.failed = {}
          /\ fetch' = [fetch EXCEPT ![t].scope = @ + 1, ![t].stage = "Scope", ![t].failed = {},
                                    ![t].heard = {}, ![t].denied = {},
                                    ![t].unheard = @ \cup (Concerned(t) \ f.denied)]
          /\ UNCHANGED frame
    /\ UNCHANGED <<statuses, routing, indexes>>
    /\ Witnessing

(* The report of a failure carries what the failure was, which is not      *)
(* needed any more then.                                                   *)
ReportAnswer(t) ==
    /\ ReportToStore(t)
    /\ frame[t].call = "Update" =>
         statuses' = ReportResult(statuses, frame[t].node, fetch[t].observation)
    /\ fetch' = [fetch EXCEPT ![t].observation = "Success"]

(* UpdateLiveNodes has its list and goes on with it.                       *)
AdoptNodes(t) == LockNodes(t) /\ fetch' = [fetch EXCEPT ![t] = NoFetch]

(* Everything else is as in LiveNodes.                                     *)
OtherStep(t) ==
    /\ \/ BeginReport(t)
       \/ ReportStatus(t) \/ ReportForget(t)
       \/ AddNextNode(t) \/ RemoveNextNode(t) \/ PublishNodes(t) \/ ForgetRemoved(t)
       \/ ProbeSnapshot(t) \/ ProbeLookup(t) \/ ProbeReport(t)
    /\ UNCHANGED fetch

DiscoveryStep(t) ==
    /\ \/ BeginRefresh(t) \/ BeginScope(t) \/ SampleDiscoveryNodes(t)
       \/ AskAnswered(t) \/ AskFailed(t) \/ EndScope(t)
       \/ ReportAnswer(t) \/ AdoptNodes(t) \/ OtherStep(t)
    /\ Watching

DiscoveryNext == \E t \in Thread : DiscoveryStep(t)

(* A call that has begun goes on: requests to nodes have timeouts.         *)
DiscoverySpec ==
    /\ DiscoveryInit
    /\ [][DiscoveryNext]_discoveryVars
    /\ \A t \in Thread : WF_discoveryVars(~At(t, "Idle") /\ DiscoveryStep(t))

-----------------------------------------------------------------------------
(* Properties.                                                             *)

(* Discovery in detail does to the registry only what LiveNodes says.      *)
Registry ==
    INSTANCE LiveNodes WITH
        statuses <- statuses, live_nodes <- live_nodes, quarantine_by_hash <- quarantine_by_hash,
        mutex <- mutex, next_node_index <- next_node_index,
        quarantine_plan_index <- quarantine_plan_index,
        quarantine_node_index <- quarantine_node_index, frame <- frame, witnessed <- witnessed

(* FetchLiveNodes, as detailed here, implements the fetch of LiveNodes: in *)
(* particular UpdateLiveNodes never gets as far as its lock with an empty  *)
(* list, whatever mixture of lists, empty lists and failures the scopes    *)
(* answer with.                                                            *)
ImplementsLiveNodes == Registry!Spec

(* A rack or a datacenter is left for the next scope only if every node    *)
(* that was Active for as long as it was walked was asked in that walk and *)
(* answered that there is no node; the cluster is given up only if every   *)
(* initial node answered so.  A failing answer of a node that stays Active *)
(* is an error and no reason to send requests to another datacenter,       *)
(* whatever the other nodes answer and other threads report meanwhile.     *)
(* (Nodes that leave the Active state are not waited for: where all are    *)
(* Down, a scope is left without asking anyone.)                           *)
FallbackIsJustified == \A t \in Thread : fetch[t].unheard = {}

(* No list a node answered with is lost: the cluster scope publishes the   *)
(* union of all of them, also if other nodes failed, and a walk comes to   *)
(* nothing, or to an exception, only if nobody in its last scope had a     *)
(* list.                                                                   *)
NoListIsLost ==
    \A t \in Thread :
        /\ fetch[t].outcome \in {"Empty", "Threw"} => fetch[t].heard = {}
        /\ At(t, "Lock") => frame[t].fresh = fetch[t].heard

(* A refresh or a check comes to an end, whatever the nodes answer and     *)
(* whatever other threads report meanwhile.                                *)
RefreshesEnd == \A t \in Thread : frame[t].call = "Update" ~> frame[t].call # "Update"
=============================================================================
