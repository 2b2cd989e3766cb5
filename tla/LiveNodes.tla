----------------------------- MODULE LiveNodes ------------------------------
(***************************************************************************)
(* AlternatorLiveNodes (live_nodes.cpp) as its threads execute it: request *)
(* threads that ask for a node (NextNode) or for the nodes of a query plan *)
(* (GetQueryPlanNodes, GetQueryPlanNodesForHash), threads that report what *)
(* became of a request (ReportNodeResult), and threads that refresh the    *)
(* node list (UpdateLiveNodes) or probe the Down nodes (ProbeDownNodes).   *)
(*                                                                         *)
(* A call is a sequence of atomic steps, one for each acquisition of a     *)
(* mutex and one for each atomic counter.  Two mutexes are involved: the   *)
(* health store's, held for one operator of HealthRules at a time, and     *)
(* AlternatorLiveNodes::mutex_, which only UpdateLiveNodes holds across    *)
(* several steps; every other use of mutex_ is a single step that waits    *)
(* for it to be free.  A frame holds the local variables of a call.        *)
(*                                                                         *)
(* When the next refresh is due (MarkActivity, BackgroundLoop) is not the  *)
(* matter here: any call may happen at any time.                           *)
(***************************************************************************)
EXTENDS HealthRules

CONSTANTS
    InitialNode,      \* initial_nodes_
    Hash,             \* the partition-key hashes requests come with
    Draw,             \* Draw[h][k]: first Int31n(k) of a generator seeded with h
    IntervalConfig,   \* quarantine_traffic_interval, as given
    IndexModulus,     \* next_node_index_, quarantine_node_index_ are kept modulo this
    Thread,           \* the threads
    Offer,            \* Offer[t]: the calls thread t makes
    NoNode,           \* an empty Url
    NoThread          \* mutex_ is free

RoutingCall == {"NextNode", "Plan", "HashPlan"}
Call == RoutingCall \cup {"Report", "Update", "Probe"}

Interval == AtLeastOne(IntervalConfig)

(* The counters are 64 bits wide and only ever used modulo something: the  *)
(* plan counter modulo the interval, the others modulo a list length.      *)
(* Short of 2^64 counts, keeping them modulo a multiple of that is exact.  *)
ASSUME LiveNodesAssumption ==
    /\ InitialNode \subseteq Node /\ InitialNode # {}
    /\ Hash # {}
    /\ NoNode \notin Node /\ NoThread \notin Thread
    /\ IntervalConfig \in Nat
    /\ IndexModulus \in Nat \ {0}
    /\ \A k \in 1 .. Cardinality(Node) : IndexModulus % k = 0
    /\ \A h \in Hash, k \in 1 .. Cardinality(Node) : Draw[h][k] \in 0 .. k - 1
    /\ Offer \in [Thread -> SUBSET Call]

VARIABLES
    statuses,               \* health_store_->statuses_
    live_nodes,             \* live_nodes_
    quarantine_by_hash,     \* quarantine_by_hash_, NoNode where it has no entry
    mutex,                  \* the thread holding mutex_ across steps
    next_node_index,        \* next_node_index_
    quarantine_plan_index,  \* quarantine_plan_index_
    quarantine_node_index,  \* quarantine_node_index_
    frame,                  \* frame[t]: the call of t, where it is, its locals
    witnessed               \* ghost: what happened during a routing call

indexes == <<next_node_index, quarantine_plan_index, quarantine_node_index>>
routing == <<live_nodes, quarantine_by_hash, mutex>>
vars == <<statuses, routing, indexes, frame, witnessed>>

-----------------------------------------------------------------------------
Label == {"Idle", "Active", "ActiveAgain", "Sample", "Count", "ReadQuarantined",
          "PickQuarantined", "RoundRobin", "StickySnapshot", "StickyLookup",
          "Assign", "Return", "Report", "ReportStatus", "Forget",
          "Fetch", "Lock", "AddNodes", "RemoveNodes", "ForgetRemoved",
          "ProbeSnapshot", "ProbeLookup", "ProbeReport"}

(* active, quarantined: snapshots; todo: nodes a loop has yet to visit;    *)
(* fresh: new_nodes; removed: removed_nodes; node, hash: the node and the  *)
(* hash at hand; result: the nodes a routing call returns.                 *)
Frame ==
    [call : Call \cup {"None"}, pc : Label,
     active : SUBSET Node, quarantined : SUBSET Node, todo : SUBSET Node,
     fresh : SUBSET Node, removed : SUBSET Node,
     node : Node \cup {NoNode}, hash : Hash, result : SUBSET Node]

NewFrame(call, pc) ==
    [call |-> call, pc |-> pc, active |-> {}, quarantined |-> {}, todo |-> {},
     fresh |-> {}, removed |-> {}, node |-> NoNode,
     hash |-> CHOOSE h \in Hash : TRUE, result |-> {}]

IdleFrame == NewFrame("None", "Idle")

Index == 0 .. IndexModulus - 1

(* Since the call began: the nodes that were ever usable or quarantined,   *)
(* those that were Active or Quarantined all the time, whether there was a *)
(* moment without an Active node (inactive), and whether there was one     *)
(* without a Quarantined node at that moment or after it (drained).        *)
Witness == [usable : SUBSET Node, quarantined : SUBSET Node,
            alwaysActive : SUBSET Node, alwaysQuarantined : SUBSET Node,
            inactive : BOOLEAN, drained : BOOLEAN]

NoWitness == [usable |-> {}, quarantined |-> {},
              alwaysActive |-> Node, alwaysQuarantined |-> Node,
              inactive |-> FALSE, drained |-> FALSE]

TypeOK ==
    /\ statuses \in StatusMap
    /\ live_nodes \subseteq Node
    /\ quarantine_by_hash \in [Hash -> Node \cup {NoNode}]
    /\ mutex \in Thread \cup {NoThread}
    /\ next_node_index \in Index
    /\ quarantine_plan_index \in 0 .. Interval - 1
    /\ quarantine_node_index \in Index
    /\ frame \in [Thread -> Frame]
    /\ witnessed \in [Thread -> Witness]

Init ==
    /\ statuses = NewStore(InitialNode)
    /\ live_nodes = InitialNode
    /\ quarantine_by_hash = [h \in Hash |-> NoNode]
    /\ mutex = NoThread
    /\ next_node_index = 0
    /\ quarantine_plan_index = 0
    /\ quarantine_node_index = 0
    /\ frame = [t \in Thread |-> IdleFrame]
    /\ witnessed = [t \in Thread |-> NoWitness]

-----------------------------------------------------------------------------
(* The element of a sorted, duplicate-free vector at a zero-based index.   *)
Element(S, i) == CHOOSE n \in S : Cardinality({m \in S : m < n}) = i

FirstNodeWithSeed(S, h) == Element(S, Draw[h][Cardinality(S)])

QuarantinedNodeIsFirstForHash(n, active, h) ==
    FirstNodeWithSeed(active \cup {n}, h) = n

Increment(index) == (index + 1) % IndexModulus

At(t, label) == frame[t].pc = label
Free == mutex = NoThread

(* The ghost follows every step: a routing call witnesses the states each  *)
(* node goes through between its first and its last step.                  *)
Usable(st) == GetActiveNodes(st) \cup GetQuarantinedNodes(st)

Witnessing ==
    witnessed' = [t \in Thread |->
        IF frame'[t].call \in RoutingCall
        THEN LET w == witnessed[t]
                 inactive == w.inactive \/ GetActiveNodes(statuses') = {} IN
             [usable |-> w.usable \cup Usable(statuses'),
              quarantined |-> w.quarantined \cup GetQuarantinedNodes(statuses'),
              alwaysActive |-> w.alwaysActive \cap GetActiveNodes(statuses'),
              alwaysQuarantined |-> w.alwaysQuarantined \cap GetQuarantinedNodes(statuses'),
              inactive |-> inactive,
              drained |-> w.drained \/ (inactive /\ GetQuarantinedNodes(statuses') = {})]
        ELSE NoWitness]

-----------------------------------------------------------------------------
(* A thread enters a call.  NextNode and ReportNodeResult begin with       *)
(* MarkActivity, which has to acquire mutex_.                              *)

BeginRouting(t) ==
    /\ At(t, "Idle")
    /\ \E call \in Offer[t] \cap RoutingCall, h \in Hash :
         /\ call # "HashPlan" => h = IdleFrame.hash
         /\ call = "NextNode" => Free
         /\ frame' = [frame EXCEPT ![t] = [NewFrame(call, "Active") EXCEPT !.hash = h]]
    /\ UNCHANGED <<statuses, routing, indexes>>
    /\ Witnessing

BeginReport(t) ==
    /\ At(t, "Idle") /\ "Report" \in Offer[t] /\ Free
    /\ \E n \in Node :
         frame' = [frame EXCEPT ![t] = [NewFrame("Report", "Report") EXCEPT !.node = n]]
    /\ UNCHANGED <<statuses, routing, indexes>>
    /\ Witnessing

BeginUpdate(t) ==
    /\ At(t, "Idle") /\ "Update" \in Offer[t]
    /\ frame' = [frame EXCEPT ![t] = NewFrame("Update", "Fetch")]
    /\ UNCHANGED <<statuses, routing, indexes>>
    /\ Witnessing

BeginProbe(t) ==
    /\ At(t, "Idle") /\ "Probe" \in Offer[t]
    /\ frame' = [frame EXCEPT ![t] = NewFrame("Probe", "ProbeSnapshot")]
    /\ UNCHANGED <<statuses, routing, indexes>>
    /\ Witnessing

-----------------------------------------------------------------------------
(* NextNode, GetQueryPlanNodes, GetQueryPlanNodesForHash.                  *)

(* Mutant: a plan consists of the sampled node only.                       *)
AfterSamplingReplaces(f, picked) ==
    LET sampled == {picked} \ {NoNode} IN
    CASE f.call = "Update" -> NewFrame("Update", "Fetch")
      [] f.call = "NextNode" /\ sampled = {} /\ f.active # {} -> [f EXCEPT !.pc = "RoundRobin"]
      [] OTHER -> [f EXCEPT !.pc = "Return", !.result = IF sampled = {} THEN f.active ELSE sampled]

(* What the call returns once quarantine sampling is over: picked is the   *)
(* sampled node, or NoNode.  Discovery's own plan is its list of nodes to  *)
(* ask; it goes on with them.                                              *)
AfterSampling(f, picked) ==
    LET sampled == {picked} \ {NoNode} IN
    CASE f.call = "NextNode" /\ sampled # {} ->
            [f EXCEPT !.pc = "Return", !.result = sampled]
      [] f.call = "NextNode" /\ sampled = {} /\ f.active = {} ->
            [f EXCEPT !.pc = "Return"]
      [] f.call = "NextNode" /\ sampled = {} /\ f.active # {} ->
            [f EXCEPT !.pc = "RoundRobin"]
      [] f.call \in {"Plan", "HashPlan"} ->
            [f EXCEPT !.pc = "Return", !.node = picked, !.result = f.active \cup sampled]
      [] f.call = "Update" -> NewFrame("Update", "Fetch")

(* GetActiveNodes.  NextNode probes the Down nodes when there is none.     *)
SnapshotActive(t) ==
    LET f == frame[t]
        active == GetActiveNodes(statuses) IN
    /\ At(t, "Active")
    /\ frame' = [frame EXCEPT ![t].active = active,
                              ![t].pc = CASE f.call = "HashPlan" -> "StickySnapshot"
                                          [] f.call = "NextNode" /\ active = {} -> "ProbeSnapshot"
                                          [] OTHER -> "Sample"]
    /\ UNCHANGED <<statuses, routing, indexes>>
    /\ Witnessing

(* GetActiveNodes once more, after the probes.                             *)
SnapshotActiveAgain(t) ==
    /\ At(t, "ActiveAgain")
    /\ frame' = [frame EXCEPT ![t].active = GetActiveNodes(statuses), ![t].pc = "Sample"]
    /\ UNCHANGED <<statuses, routing, indexes>>
    /\ Witnessing

(* Mutant: no exception for the case that no node is active.               *)
SampleAlwaysCounts(t) ==
    /\ At(t, "Sample")
    /\ frame' = [frame EXCEPT ![t] = IF GetQuarantinedNodes(statuses) = {}
                                     THEN AfterSampling(@, NoNode)
                                     ELSE [@ EXCEPT !.pc = "Count"]]
    /\ UNCHANGED <<statuses, routing, indexes>>
    /\ Witnessing

(* ShouldTryQuarantinedNode, up to its counter.                            *)
Sample(t) ==
    LET f == frame[t]
        quarantined == GetQuarantinedNodes(statuses) IN
    /\ At(t, "Sample")
    /\ frame' = [frame EXCEPT ![t] =
                   IF quarantined = {} THEN AfterSampling(f, NoNode)
                   ELSE [f EXCEPT !.pc = IF f.active = {} THEN "ReadQuarantined" ELSE "Count"]]
    /\ UNCHANGED <<statuses, routing, indexes>>
    /\ Witnessing

(* ShouldTryQuarantinedNode's counter: one attempt in Interval samples.    *)
CountAttempt(t) ==
    LET attempt == quarantine_plan_index + 1 IN
    /\ At(t, "Count")
    /\ quarantine_plan_index' = attempt % Interval
    /\ frame' = [frame EXCEPT ![t] = IF attempt % Interval = 0
                                     THEN [@ EXCEPT !.pc = "ReadQuarantined"]
                                     ELSE AfterSampling(@, NoNode)]
    /\ UNCHANGED <<statuses, routing, next_node_index, quarantine_node_index>>
    /\ Witnessing

(* The quarantined nodes are read a second time before one is picked.      *)
ReadQuarantined(t) ==
    LET quarantined == GetQuarantinedNodes(statuses) IN
    /\ At(t, "ReadQuarantined")
    /\ frame' = [frame EXCEPT ![t] =
                   IF quarantined = {} THEN AfterSampling(@, NoNode)
                   ELSE [@ EXCEPT !.quarantined = quarantined, !.pc = "PickQuarantined"]]
    /\ UNCHANGED <<statuses, routing, indexes>>
    /\ Witnessing

(* Round robin over the quarantined nodes just read.  A plan for a hash    *)
(* takes the node only if it comes first for the hash.                     *)
PickQuarantined(t) ==
    LET f == frame[t]
        n == Element(f.quarantined, quarantine_node_index % Cardinality(f.quarantined)) IN
    /\ At(t, "PickQuarantined")
    /\ quarantine_node_index' = Increment(quarantine_node_index)
    /\ frame' = [frame EXCEPT ![t] =
                   IF f.call # "HashPlan" THEN AfterSampling(f, n)
                   ELSE IF QuarantinedNodeIsFirstForHash(n, f.active, f.hash)
                        THEN [f EXCEPT !.pc = "Assign", !.node = n]
                        ELSE AfterSampling(f, NoNode)]
    /\ UNCHANGED <<statuses, routing, next_node_index, quarantine_plan_index>>
    /\ Witnessing

(* NextNode without a sampled node: round robin over the active snapshot.  *)
RoundRobin(t) ==
    LET active == frame[t].active
        n == Element(active, next_node_index % Cardinality(active)) IN
    /\ At(t, "RoundRobin")
    /\ next_node_index' = Increment(next_node_index)
    /\ frame' = [frame EXCEPT ![t].pc = "Return", ![t].result = {n}]
    /\ UNCHANGED <<statuses, routing, quarantine_plan_index, quarantine_node_index>>
    /\ Witnessing

(* StickyQuarantinedNodeForHash: the snapshot its lookup relies on.        *)
StickySnapshot(t) ==
    /\ At(t, "StickySnapshot")
    /\ frame' = [frame EXCEPT ![t].quarantined = GetQuarantinedNodes(statuses),
                              ![t].pc = "StickyLookup"]
    /\ UNCHANGED <<statuses, routing, indexes>>
    /\ Witnessing

(* Mutant: a mapping is used without asking whether the node is still      *)
(* quarantined.                                                            *)
StickyLookupTrustsMapping(t) ==
    LET f == frame[t]
        mapped == quarantine_by_hash[f.hash] IN
    /\ At(t, "StickyLookup") /\ Free
    /\ frame' = [frame EXCEPT ![t] = IF mapped = NoNode
                                     THEN [f EXCEPT !.pc = "Sample"]
                                     ELSE AfterSampling(f, mapped)]
    /\ UNCHANGED <<statuses, routing, indexes>>
    /\ Witnessing

(* The lookup, under mutex_: a mapping to a node that is quarantined and   *)
(* first is used, any other one is erased; an erased one that was          *)
(* quarantined ends the sampling, otherwise the hash may be sampled anew.  *)
StickyLookup(t) ==
    LET f == frame[t]
        mapped == quarantine_by_hash[f.hash]
        quarantined == mapped \in f.quarantined
        first == QuarantinedNodeIsFirstForHash(mapped, f.active, f.hash)
        erased == [quarantine_by_hash EXCEPT ![f.hash] = NoNode] IN
    /\ At(t, "StickyLookup") /\ Free
    /\ \/ /\ quarantined /\ first
          /\ frame' = [frame EXCEPT ![t] = AfterSampling(f, mapped)]
          /\ UNCHANGED quarantine_by_hash
       \/ /\ quarantined /\ ~first
          /\ frame' = [frame EXCEPT ![t] = AfterSampling(f, NoNode)]
          /\ quarantine_by_hash' = erased
       \/ /\ ~quarantined
          /\ frame' = [frame EXCEPT ![t].pc = "Sample"]
          /\ quarantine_by_hash' = erased
    /\ UNCHANGED <<statuses, live_nodes, mutex, indexes>>
    /\ Witnessing

(* The sampled node is remembered for the hash, under mutex_.              *)
Assign(t) ==
    LET f == frame[t] IN
    /\ At(t, "Assign") /\ Free
    /\ quarantine_by_hash' = [quarantine_by_hash EXCEPT ![f.hash] = f.node]
    /\ frame' = [frame EXCEPT ![t] = AfterSampling(f, f.node)]
    /\ UNCHANGED <<statuses, live_nodes, mutex, indexes>>
    /\ Witnessing

(* The caller has its result.                                              *)
Return(t) ==
    /\ At(t, "Return")
    /\ frame' = [frame EXCEPT ![t] = IdleFrame]
    /\ UNCHANGED <<statuses, routing, indexes>>
    /\ Witnessing

-----------------------------------------------------------------------------
(* ReportNodeResult, called by a request thread or by discovery.           *)

AfterReport(f) == IF f.call = "Update" THEN NewFrame("Update", "Fetch") ELSE IdleFrame

ReportToStore(t) ==
    /\ At(t, "Report")
    /\ \E observation \in NodeHealthObservation :
         statuses' = ReportResult(statuses, frame[t].node, observation)
    /\ frame' = [frame EXCEPT ![t].pc = "ReportStatus"]
    /\ UNCHANGED <<routing, indexes>>
    /\ Witnessing

(* The status is read back in a second acquisition of the store's mutex.   *)
ReportStatus(t) ==
    /\ At(t, "ReportStatus")
    /\ frame' = [frame EXCEPT ![t] =
                   IF statuses[@.node].state = "Quarantined" THEN AfterReport(@)
                   ELSE [@ EXCEPT !.pc = "Forget"]]
    /\ UNCHANGED <<statuses, routing, indexes>>
    /\ Witnessing

(* RemoveQuarantineHashAssignmentsForNode                                  *)
WithoutAssignmentsTo(n) ==
    [h \in Hash |-> IF quarantine_by_hash[h] = n THEN NoNode ELSE quarantine_by_hash[h]]

ReportForget(t) ==
    /\ At(t, "Forget") /\ Free
    /\ quarantine_by_hash' = WithoutAssignmentsTo(frame[t].node)
    /\ frame' = [frame EXCEPT ![t] = AfterReport(@)]
    /\ UNCHANGED <<statuses, live_nodes, mutex, indexes>>
    /\ Witnessing

-----------------------------------------------------------------------------
(* UpdateLiveNodes.                                                        *)

(* FetchLiveNodes asks, for each scope, the initial nodes or the nodes of  *)
(* a plan of its own (GetQueryPlanNodes), ...                              *)
FetchPlan(t) ==
    /\ At(t, "Fetch")
    /\ frame' = [frame EXCEPT ![t].pc = "Active"]
    /\ UNCHANGED <<statuses, routing, indexes>>
    /\ Witnessing

(* ... reports every node that did not answer with a node list, ...        *)
FetchError(t) ==
    /\ At(t, "Fetch") /\ Free
    /\ \E n \in Node : frame' = [frame EXCEPT ![t].pc = "Report", ![t].node = n]
    /\ UNCHANGED <<statuses, routing, indexes>>
    /\ Witnessing

(* ... and in the end throws, finds no node, or finds some.                *)
FetchResult(t) ==
    /\ At(t, "Fetch")
    /\ \/ frame' = [frame EXCEPT ![t] = IdleFrame]
       \/ frame' = [frame EXCEPT ![t].pc = "ProbeSnapshot"]
       \/ \E fresh \in (SUBSET Node) \ {{}} :
            frame' = [frame EXCEPT ![t].pc = "Lock", ![t].fresh = fresh]
    /\ UNCHANGED <<statuses, routing, indexes>>
    /\ Witnessing

(* Mutant: mutex_ is not waited for.                                       *)
LockNodesUnguarded(t) ==
    /\ At(t, "Lock")
    /\ mutex' = t
    /\ frame' = [frame EXCEPT ![t].pc = "AddNodes", ![t].todo = frame[t].fresh]
    /\ UNCHANGED <<statuses, live_nodes, quarantine_by_hash, indexes>>
    /\ Witnessing

LockNodes(t) ==
    /\ At(t, "Lock") /\ Free
    /\ mutex' = t
    /\ frame' = [frame EXCEPT ![t].pc = "AddNodes", ![t].todo = frame[t].fresh]
    /\ UNCHANGED <<statuses, live_nodes, quarantine_by_hash, indexes>>
    /\ Witnessing

(* The loops over new_nodes and live_nodes_ call the store once per node.  *)
AddNextNode(t) ==
    LET f == frame[t]
        n == Least(f.todo)
        rest == f.todo \ {n} IN
    /\ At(t, "AddNodes")
    /\ statuses' = AddNode(statuses, n)
    /\ frame' = [frame EXCEPT ![t].todo = IF rest = {} THEN live_nodes \ f.fresh ELSE rest,
                              ![t].pc = IF rest = {} THEN "RemoveNodes" ELSE "AddNodes"]
    /\ UNCHANGED <<routing, indexes>>
    /\ Witnessing

RemoveNextNode(t) ==
    LET n == Least(frame[t].todo) IN
    /\ At(t, "RemoveNodes") /\ frame[t].todo # {}
    /\ statuses' = RemoveNode(statuses, n)
    /\ frame' = [frame EXCEPT ![t].todo = @ \ {n}, ![t].removed = @ \cup {n}]
    /\ UNCHANGED <<routing, indexes>>
    /\ Witnessing

(* live_nodes_ is assigned and mutex_ released.                            *)
PublishNodes(t) ==
    /\ At(t, "RemoveNodes") /\ frame[t].todo = {}
    /\ live_nodes' = frame[t].fresh
    /\ mutex' = NoThread
    /\ frame' = [frame EXCEPT ![t].pc = "ForgetRemoved"]
    /\ UNCHANGED <<statuses, quarantine_by_hash, indexes>>
    /\ Witnessing

(* RemoveQuarantineHashAssignmentsForNode for each removed node, then the  *)
(* trailing ProbeDownNodes.                                                *)
ForgetRemoved(t) ==
    LET n == Least(frame[t].removed) IN
    /\ At(t, "ForgetRemoved")
    /\ \/ /\ frame[t].removed # {} /\ Free
          /\ quarantine_by_hash' = WithoutAssignmentsTo(n)
          /\ frame' = [frame EXCEPT ![t].removed = @ \ {n}]
       \/ /\ frame[t].removed = {}
          /\ frame' = [frame EXCEPT ![t].pc = "ProbeSnapshot"]
          /\ UNCHANGED quarantine_by_hash
    /\ UNCHANGED <<statuses, live_nodes, mutex, indexes>>
    /\ Witnessing

-----------------------------------------------------------------------------
(* ProbeDownNodes, called by NextNode, UpdateLiveNodes and BackgroundLoop. *)
(* Its reports go to the store directly.                                   *)

ProbeSnapshot(t) ==
    /\ At(t, "ProbeSnapshot")
    /\ frame' = [frame EXCEPT ![t].todo = GetDownNodes(statuses), ![t].pc = "ProbeLookup"]
    /\ UNCHANGED <<statuses, routing, indexes>>
    /\ Witnessing

ProbeLookup(t) ==
    LET f == frame[t]
        n == Least(f.todo) IN
    /\ At(t, "ProbeLookup")
    /\ \/ /\ f.todo # {}
          /\ frame' = [frame EXCEPT ![t].todo = @ \ {n},
                         ![t].node = IF statuses[n] = NoStatus THEN NoNode ELSE n,
                         ![t].pc = IF statuses[n] = NoStatus THEN "ProbeLookup" ELSE "ProbeReport"]
       \/ /\ f.todo = {}
          /\ frame' = [frame EXCEPT ![t] = IF f.call = "NextNode"
                                           THEN NewFrame("NextNode", "ActiveAgain")
                                           ELSE IdleFrame]
    /\ UNCHANGED <<statuses, routing, indexes>>
    /\ Witnessing

ProbeReport(t) ==
    /\ At(t, "ProbeReport")
    /\ \E observation \in NodeHealthObservation :
         statuses' = ReportResult(statuses, frame[t].node, observation)
    /\ frame' = [frame EXCEPT ![t].pc = "ProbeLookup", ![t].node = NoNode]
    /\ UNCHANGED <<routing, indexes>>
    /\ Witnessing

-----------------------------------------------------------------------------
Step(t) ==
    \/ BeginRouting(t) \/ BeginReport(t) \/ BeginUpdate(t) \/ BeginProbe(t)
    \/ SnapshotActive(t) \/ SnapshotActiveAgain(t)
    \/ Sample(t) \/ CountAttempt(t) \/ ReadQuarantined(t) \/ PickQuarantined(t)
    \/ RoundRobin(t) \/ StickySnapshot(t) \/ StickyLookup(t) \/ Assign(t) \/ Return(t)
    \/ ReportToStore(t) \/ ReportStatus(t) \/ ReportForget(t)
    \/ FetchPlan(t) \/ FetchError(t) \/ FetchResult(t)
    \/ LockNodes(t) \/ AddNextNode(t) \/ RemoveNextNode(t) \/ PublishNodes(t) \/ ForgetRemoved(t)
    \/ ProbeSnapshot(t) \/ ProbeLookup(t) \/ ProbeReport(t)

Next == \E t \in Thread : Step(t)

Spec == Init /\ [][Next]_vars

-----------------------------------------------------------------------------
(* Properties.                                                             *)

Returning(t, call) == frame[t].call = call /\ At(t, "Return")

(* Whenever no update is in progress the health store tracks exactly the   *)
(* live nodes and there is at least one of them, however the updates of    *)
(* several threads interleave; and even in the middle of an update the     *)
(* store is never empty, because UpdateLiveNodes adds before it removes.   *)
StoreTracksLiveNodes ==
    /\ Free => Known(statuses) = live_nodes
    /\ live_nodes # {}
    /\ Known(statuses) # {}

(* A routing call returns only nodes that were Active or Quarantined at    *)
(* some moment of the call: never one that was Down, or not in the store,  *)
(* all the way through.  The node a hash plan puts first for its hash was  *)
(* seen quarantined.                                                       *)
RoutedNodesWereUsable ==
    \A t \in Thread :
        /\ At(t, "Return") => frame[t].result \subseteq witnessed[t].usable
        /\ Returning(t, "HashPlan") /\ frame[t].node # NoNode =>
             frame[t].node \in witnessed[t].quarantined

(* A node that is Active for the whole of a call is in the plan the call   *)
(* returns, and a call never comes back empty-handed if some node was      *)
(* Active, or some node Quarantined, for the whole of it.                  *)
SteadyNodesAreRouted ==
    \A t \in Thread : At(t, "Return") =>
        /\ frame[t].call \in {"Plan", "HashPlan"} => witnessed[t].alwaysActive \subseteq frame[t].result
        /\ frame[t].result = {} =>
             witnessed[t].alwaysActive \cup witnessed[t].alwaysQuarantined = {}

(* A routing call comes back empty-handed only if there was a moment of it *)
(* without an Active node and, then or later in the call, one without a    *)
(* Quarantined node.  The two may be different moments, and a node that is *)
(* promoted between them is missed: this is all that the two reads of the  *)
(* store give beside reports, probes and refreshes of other threads.       *)
EmptyOnlyWhenDrained ==
    \A t \in Thread : At(t, "Return") /\ frame[t].result = {} => witnessed[t].drained

(* When every call has returned, a hash is mapped to quarantined nodes     *)
(* only: mappings are removed when the mapped node leaves quarantine, by   *)
(* promotion or by moving back down (README.md:332 of the repository).     *)
AssignmentsAreQuarantined ==
    (\A t \in Thread : At(t, "Idle")) =>
        \A h \in Hash : quarantine_by_hash[h] # NoNode =>
            statuses[quarantine_by_hash[h]].state = "Quarantined"
=============================================================================
