-------------------------- MODULE DiscoveryProofs ---------------------------
(***************************************************************************)
(* Theorems about Discovery, for any chain of scopes, any set of nodes and *)
(* any number of threads that refresh and report: FetchLiveNodes in detail *)
(* implements the fetch of LiveNodes, a scope is left only if every node   *)
(* that stays Active says that it is empty, and no list of nodes is lost.  *)
(*                                                                         *)
(* The inductive invariant WalksAreSound relates, for each thread, the     *)
(* locals of the walk (fetch) to the locals of the call around it (frame). *)
(***************************************************************************)
EXTENDS Discovery, LiveNodesProofs

-----------------------------------------------------------------------------
(* The inductive invariant.                                                *)

(* While a walk goes on, what it has discovered is all it has heard.       *)
(* Outside the cluster scope the first list that is not empty ends it, so  *)
(* that there is nothing discovered while nodes are still asked.           *)
Walks(c) ==
    /\ c.stage # "Done" => c.heard = c.discovered /\ c.outcome = "None"
    /\ c.stage \in {"Scope", "Plan"} => c.discovered = {}
    /\ c.stage \in {"Plan", "Ask"} => c.scope <= Len(Scopes)
    /\ c.stage = "Plan" => ~IsCluster(c.scope)
    /\ c.stage = "Ask" /\ ~IsCluster(c.scope) => c.discovered = {}
    /\ c.outcome \in {"Empty", "Threw"} => c.heard = {}
    /\ c.unheard = {}

(* The call around a walk samples only for the plan of a scope, and goes   *)
(* to its lock with what the walk heard.                                   *)
Walked(f, c) ==
    /\ f.call \notin RoutingCall
    /\ f.pc \in SamplingLabel => c.stage = "Plan"
    /\ f.pc = "Lock" => f.fresh = c.heard

(* The labels at which a call has a snapshot of the active nodes.          *)
Sampled == SamplingLabel \ {"Active", "ActiveAgain"}

(* s, the nodes that stayed active, are in the snapshot the plan of the    *)
(* scope is made from, and then in the plan or among those that failed or  *)
(* said that there is no node, as long as none has listed one.             *)
Covers(f, c, s) ==
    /\ c.stage = "Plan" /\ f.pc \in Sampled => s \subseteq f.active
    /\ c.stage = "Ask" /\ c.discovered = {} =>
         (IF IsCluster(c.scope) THEN ClusterNodes ELSE s) \subseteq c.plan \cup c.denied \cup c.failed

(* g and d cover what stays active through a step after which st is the    *)
(* store.                                                                  *)
CoversNext(g, d, s, st) ==
    \A r : r \subseteq s /\ r \subseteq GetActiveNodes(st) => Covers(g, d, r)

WalksAreSound ==
    /\ RoutesAreSound
    /\ fetch \in [Thread -> Fetch]
    /\ steady \in [Thread -> SUBSET Node]
    /\ \A t \in Thread : Walks(fetch[t]) /\ Walked(frame[t], fetch[t])
    /\ \A t \in Thread : Covers(frame[t], fetch[t], steady[t])
    /\ witnessed = [t \in Thread |-> NoWitness]

-----------------------------------------------------------------------------
(* The registry that Discovery refines is LiveNodes itself: the refinement *)
(* mapping is the identity, and each definition of the instance, expanded, *)
(* is the definition this module extends.                                  *)

(* The ghost.                                                              *)
LEMMA SameWitnessing ==
    Witnessing <=> Registry!Witnessing
BY DEF Witnessing, Registry!Witnessing, NoWitness, Registry!NoWitness, Usable,
    Registry!Usable, GetQuarantinedNodes, Registry!GetQuarantinedNodes, NodesByState,
    Registry!NodesByState, GetActiveNodes, Registry!GetActiveNodes, Known, Registry!Known,
    NoStatus, Registry!NoStatus, RoutingCall, Registry!RoutingCall

(* The initial states.                                                     *)
LEMMA SameInit ==
    Init <=> Registry!Init
BY DEF Init, Registry!Init, NoWitness, Registry!NoWitness, IdleFrame, Registry!IdleFrame,
    NewFrame, Registry!NewFrame, NewStore, Registry!NewStore, NoStatus, Registry!NoStatus,
    NewStatus, Registry!NewStatus, SuccessThreshold, Registry!SuccessThreshold, AtLeastOne,
    Registry!AtLeastOne

(* The actions.                                                            *)
LEMMA SameSteps ==
    ASSUME NEW t
    PROVE  Step(t) <=> Registry!Step(t)
<1>. USE DEF indexes, Registry!indexes, routing, Registry!routing, NewFrame,
         Registry!NewFrame, Free, Registry!Free, IdleFrame, Registry!IdleFrame,
         RoutingCall, Registry!RoutingCall, At, Registry!At, GetActiveNodes,
         Registry!GetActiveNodes, NodesByState, Registry!NodesByState, Known,
         Registry!Known, NoStatus, Registry!NoStatus, AfterSampling,
         Registry!AfterSampling, GetQuarantinedNodes, Registry!GetQuarantinedNodes,
         Interval, Registry!Interval, AtLeastOne, Registry!AtLeastOne,
         QuarantinedNodeIsFirstForHash, Registry!QuarantinedNodeIsFirstForHash,
         FirstNodeWithSeed, Registry!FirstNodeWithSeed, Cardinality, Registry!Cardinality,
         Element, Registry!Element, Increment, Registry!Increment, ReportResult,
         Registry!ReportResult, After, Registry!After, AfterConnectionFailure,
         Registry!AfterConnectionFailure, ErrorThreshold, Registry!ErrorThreshold,
         AfterServerError, Registry!AfterServerError, AfterSuccess, Registry!AfterSuccess,
         SuccessThreshold, Registry!SuccessThreshold, Listens, Registry!Listens,
         NodeHealthObservation, Registry!NodeHealthObservation, AfterReport,
         Registry!AfterReport, WithoutAssignmentsTo, Registry!WithoutAssignmentsTo,
         AddNode, Registry!AddNode, NewStatus, Registry!NewStatus, Least, Registry!Least,
         RemoveNode, Registry!RemoveNode, GetDownNodes, Registry!GetDownNodes
<1>1. BeginRouting(t) <=> Registry!BeginRouting(t)
  BY SameWitnessing DEF BeginRouting, Registry!BeginRouting
<1>2. BeginReport(t) <=> Registry!BeginReport(t)
  BY SameWitnessing DEF BeginReport, Registry!BeginReport
<1>3. BeginUpdate(t) <=> Registry!BeginUpdate(t)
  BY SameWitnessing DEF BeginUpdate, Registry!BeginUpdate
<1>4. BeginProbe(t) <=> Registry!BeginProbe(t)
  BY SameWitnessing DEF BeginProbe, Registry!BeginProbe
<1>5. SnapshotActive(t) <=> Registry!SnapshotActive(t)
  BY SameWitnessing DEF SnapshotActive, Registry!SnapshotActive
<1>6. SnapshotActiveAgain(t) <=> Registry!SnapshotActiveAgain(t)
  BY SameWitnessing DEF SnapshotActiveAgain, Registry!SnapshotActiveAgain
<1>7. Sample(t) <=> Registry!Sample(t)
  BY SameWitnessing DEF Sample, Registry!Sample
<1>8. CountAttempt(t) <=> Registry!CountAttempt(t)
  BY SameWitnessing DEF CountAttempt, Registry!CountAttempt
<1>9. ReadQuarantined(t) <=> Registry!ReadQuarantined(t)
  BY SameWitnessing DEF ReadQuarantined, Registry!ReadQuarantined
<1>10. PickQuarantined(t) <=> Registry!PickQuarantined(t)
  BY SameWitnessing DEF PickQuarantined, Registry!PickQuarantined
<1>11. RoundRobin(t) <=> Registry!RoundRobin(t)
  BY SameWitnessing DEF RoundRobin, Registry!RoundRobin
<1>12. StickySnapshot(t) <=> Registry!StickySnapshot(t)
  BY SameWitnessing DEF StickySnapshot, Registry!StickySnapshot
<1>13. StickyLookup(t) <=> Registry!StickyLookup(t)
  BY SameWitnessing DEF StickyLookup, Registry!StickyLookup
<1>14. Assign(t) <=> Registry!Assign(t)
  BY SameWitnessing DEF Assign, Registry!Assign
<1>15. Return(t) <=> Registry!Return(t)
  BY SameWitnessing DEF Return, Registry!Return
<1>16. ReportToStore(t) <=> Registry!ReportToStore(t)
  BY SameWitnessing DEF ReportToStore, Registry!ReportToStore
<1>17. ReportStatus(t) <=> Registry!ReportStatus(t)
  BY SameWitnessing DEF ReportStatus, Registry!ReportStatus
<1>18. ReportForget(t) <=> Registry!ReportForget(t)
  BY SameWitnessing DEF ReportForget, Registry!ReportForget
<1>19. FetchPlan(t) <=> Registry!FetchPlan(t)
  BY SameWitnessing DEF FetchPlan, Registry!FetchPlan
<1>20. FetchError(t) <=> Registry!FetchError(t)
  BY SameWitnessing DEF FetchError, Registry!FetchError
<1>21. FetchResult(t) <=> Registry!FetchResult(t)
  BY SameWitnessing DEF FetchResult, Registry!FetchResult
<1>22. LockNodes(t) <=> Registry!LockNodes(t)
  BY SameWitnessing DEF LockNodes, Registry!LockNodes
<1>23. AddNextNode(t) <=> Registry!AddNextNode(t)
  BY SameWitnessing DEF AddNextNode, Registry!AddNextNode
<1>24. RemoveNextNode(t) <=> Registry!RemoveNextNode(t)
  BY SameWitnessing DEF RemoveNextNode, Registry!RemoveNextNode
<1>25. PublishNodes(t) <=> Registry!PublishNodes(t)
  BY SameWitnessing DEF PublishNodes, Registry!PublishNodes
<1>26. ForgetRemoved(t) <=> Registry!ForgetRemoved(t)
  BY SameWitnessing DEF ForgetRemoved, Registry!ForgetRemoved
<1>27. ProbeSnapshot(t) <=> Registry!ProbeSnapshot(t)
  BY SameWitnessing DEF ProbeSnapshot, Registry!ProbeSnapshot
<1>28. ProbeLookup(t) <=> Registry!ProbeLookup(t)
  BY SameWitnessing DEF ProbeLookup, Registry!ProbeLookup
<1>29. ProbeReport(t) <=> Registry!ProbeReport(t)
  BY SameWitnessing DEF ProbeReport, Registry!ProbeReport
<1>30. QED
  BY <1>1, <1>2, <1>3, <1>4, <1>5, <1>6, <1>7, <1>8, <1>9, <1>10, <1>11, <1>12, <1>13,
      <1>14, <1>15, <1>16, <1>17, <1>18, <1>19, <1>20, <1>21, <1>22, <1>23, <1>24, <1>25,
      <1>26, <1>27, <1>28, <1>29
  DEF Step, Registry!Step

(* The next-state relation.                                                *)
LEMMA SameNext ==
    [Next]_vars => [Registry!Next]_(Registry!vars)
<1>1. vars = Registry!vars
  BY DEF vars, Registry!vars, routing, indexes, Registry!routing, Registry!indexes
<1>2. vars' = Registry!vars'
  BY DEF vars, Registry!vars, routing, indexes, Registry!routing, Registry!indexes
<1>3. Next => Registry!Next
  BY SameSteps DEF Next, Registry!Next
<1>4. QED
  BY <1>1, <1>2, <1>3

-----------------------------------------------------------------------------
(* The records of a walk.                                                  *)

(* A walk that begins, and one that is over.                               *)
LEMMA NewFetchFields ==
    ASSUME NEW purpose \in {"None", "Update", "Check"}
    PROVE  /\ NewFetch(purpose) \in Fetch /\ Walks(NewFetch(purpose))
           /\ NoFetch \in Fetch /\ Walks(NoFetch)
<1>1. Len(Scopes) \in Nat /\ 1 \in 1 .. Len(Scopes) + 1
  BY ScopesAssumption
<1>2. ASSUME NEW p \in {"None", "Update", "Check"}, NEW c, c = NewFetch(p)
      PROVE  /\ c \in Fetch /\ c.stage = "Scope" /\ c.discovered = {} /\ c.heard = {}
             /\ c.outcome = "None" /\ c.unheard = {}
  BY <1>1, <1>2 DEF NewFetch, Fetch, NodeHealthObservation
<1>3. ASSUME NEW e, e = NewFetch("None"), NEW c, c = [e EXCEPT !.stage = "Done"]
      PROVE  c \in Fetch /\ c.stage = "Done" /\ c.outcome = "None" /\ c.unheard = {}
  <2>1. e \in Fetch /\ e.outcome = "None" /\ e.unheard = {}
    BY <1>2, <1>3
  <2>2. QED
    BY <1>3, <2>1 DEF Fetch
<1>4. \A c : c = NewFetch(purpose) => c \in Fetch /\ Walks(c)
  BY <1>2 DEF Walks
<1>5. \A c : c = NoFetch => c \in Fetch /\ Walks(c)
  BY <1>3 DEF Walks, NoFetch
<1>6. QED
  BY <1>4, <1>5

(* What Finish leaves: the outcome and the ghosts.                         *)
Finished(outcome, heard) ==
    [NoFetch EXCEPT !.outcome = outcome, !.heard = heard, !.unheard = {}]

(* It is a walk that is done.                                              *)
LEMMA FinishedFields ==
    ASSUME NEW outcome \in {"Nodes", "Empty", "Threw"}, NEW heard \in SUBSET Node, NEW c,
           c = Finished(outcome, heard)
    PROVE  /\ c \in Fetch /\ c.stage = "Done" /\ c.outcome = outcome
           /\ c.heard = heard /\ c.unheard = {}
<1>1. PICK e : e = NoFetch
  OBVIOUS
<1>2. e \in Fetch
  BY <1>1, NewFetchFields
<1>3. e.stage = "Done"
  BY <1>1 DEF NoFetch, NewFetch
<1>4. QED
  BY <1>1, <1>2, <1>3 DEF Fetch, Finished

(* The next scope of the chain.                                            *)
LEMMA NextScopeFields ==
    ASSUME NEW c \in Fetch, c.scope <= Len(Scopes), NEW d,
           d = [c EXCEPT !.scope = c.scope + 1, !.stage = "Scope", !.failed = {},
                         !.heard = {}, !.denied = {}, !.unheard = {}]
    PROVE  /\ d \in Fetch /\ d.stage = "Scope" /\ d.discovered = c.discovered /\ d.heard = {}
           /\ d.outcome = c.outcome /\ d.unheard = {}
<1>1. Len(Scopes) \in Nat
  BY ScopesAssumption
<1>2. c.scope + 1 \in 1 .. Len(Scopes) + 1
  BY <1>1 DEF Fetch
<1>3. QED
  BY <1>2 DEF Fetch

-----------------------------------------------------------------------------
(* Steps.                                                                  *)

(* Fewer nodes are covered too.                                            *)
LEMMA CoversLess ==
    ASSUME NEW f, NEW c, NEW s, Covers(f, c, s), NEW st
    PROVE  CoversNext(f, c, s, st)
<1>1. ASSUME NEW r, r \subseteq s
      PROVE  Covers(f, c, r)
  BY <1>1 DEF Covers
<1>2. QED
  BY <1>1 DEF CoversNext

(* A step of thread t to a frame and a walk that are sound, and that is a  *)
(* step of LiveNodes or leaves its variables alone but for the ghost,      *)
(* which has nothing to witness here.                                      *)
LEMMA WalkStep ==
    ASSUME WalksAreSound, NEW t \in Thread, NEW g, NEW d,
           frame' = [frame EXCEPT ![t] = g], fetch' = [fetch EXCEPT ![t] = d],
           d \in Fetch, Walks(d), Walked(g, d), CoversNext(g, d, steady[t], statuses'),
           Watching,
           Step(t) \/ UNCHANGED <<statuses, routing, indexes, frame>>,
           Witnessing
    PROVE  WalksAreSound' /\ [Next]_vars
<1>1. frame \in [Thread -> Frame] /\ fetch \in [Thread -> Fetch] /\ steady \in [Thread -> SUBSET Node]
  BY DEF WalksAreSound, RoutesAreSound, TypeOK
<1>2. fetch' \in [Thread -> Fetch]
  BY <1>1
<1>8. ASSUME NEW u \in Thread
      PROVE  /\ steady'[u] \in SUBSET Node
             /\ fetch'[u].stage \in {"Plan", "Ask"} =>
                  steady'[u] \subseteq steady[u] /\ steady'[u] \subseteq GetActiveNodes(statuses')
  <2>1. steady'[u] = CASE fetch'[u].stage = "Done" -> {}
                       [] fetch'[u].stage = "Scope" -> GetActiveNodes(statuses')
                       [] OTHER -> steady[u] \cap GetActiveNodes(statuses')
    BY DEF Watching
  <2>2. GetActiveNodes(statuses') \in SUBSET Node
    BY QueriesAreNodes
  <2>3. QED
    BY <1>1, <2>1, <2>2
<1>9. steady' \in [Thread -> SUBSET Node]
  <2>1. steady' = [u \in Thread |-> steady'[u]]
    BY DEF Watching
  <2>2. QED
    BY <1>8, <2>1
<1>10. ASSUME NEW u \in Thread
       PROVE  Covers(frame'[u], fetch'[u], steady'[u])
  <2>1. CASE fetch'[u].stage \notin {"Plan", "Ask"}
    BY <2>1 DEF Covers
  <2>2. CASE fetch'[u].stage \in {"Plan", "Ask"}
    <3>1. PICK r : r = steady'[u]
      OBVIOUS
    <3>2. r \subseteq steady[u] /\ r \subseteq GetActiveNodes(statuses')
      BY <1>8, <2>2, <3>1
    <3>3. CASE u = t
      <4>1. frame'[u] = g /\ fetch'[u] = d
        BY <1>1, <3>3
      <4>2. QED
        BY <3>1, <3>2, <3>3, <4>1 DEF CoversNext
    <3>4. CASE u # t
      <4>1. frame'[u] = frame[u] /\ fetch'[u] = fetch[u] /\ Covers(frame[u], fetch[u], steady[u])
        BY <1>1, <3>4 DEF WalksAreSound
      <4>2. CoversNext(frame[u], fetch[u], steady[u], statuses')
        BY <4>1, CoversLess
      <4>3. QED
        BY <3>1, <3>2, <4>1, <4>2 DEF CoversNext
    <3>5. QED
      BY <3>3, <3>4
  <2>3. QED
    BY <2>1, <2>2
<1>3. ASSUME NEW u \in Thread
      PROVE  Walks(fetch'[u]) /\ Walked(frame'[u], fetch'[u])
  <2>1. CASE u = t
    BY <1>1, <2>1
  <2>2. CASE u # t
    <3>1. frame'[u] = frame[u] /\ fetch'[u] = fetch[u]
      BY <1>1, <2>2
    <3>2. QED
      BY <3>1 DEF WalksAreSound
  <2>3. QED
    BY <2>1, <2>2
<1>4. witnessed' = [u \in Thread |-> NoWitness]
  <2>1. \A u \in Thread : frame'[u].call \notin RoutingCall
    BY <1>3 DEF Walked
  <2>2. QED
    BY <2>1 DEF Witnessing
<1>5. [Next]_vars
  <2>1. CASE Step(t)
    BY <2>1 DEF Next
  <2>2. CASE UNCHANGED <<statuses, routing, indexes, frame>>
    BY <1>4, <2>2 DEF vars, WalksAreSound
  <2>3. QED
    BY <2>1, <2>2
<1>6. RoutesAreSound'
  BY <1>5, StepRoutes DEF WalksAreSound
<1>7. QED
  BY <1>2, <1>3, <1>4, <1>5, <1>6, <1>9, <1>10 DEF WalksAreSound

(* A frame and a walk of a thread in a sound state.                        *)
LEMMA SoundThread ==
    ASSUME WalksAreSound, NEW t \in Thread
    PROVE  /\ frame \in [Thread -> Frame] /\ frame[t] \in Frame /\ Placed(frame[t])
           /\ fetch \in [Thread -> Fetch] /\ fetch[t] \in Fetch
           /\ Walks(fetch[t]) /\ Walked(frame[t], fetch[t])
           /\ Covers(frame[t], fetch[t], steady[t])
           /\ fetch = [fetch EXCEPT ![t] = fetch[t]]
           /\ frame = [frame EXCEPT ![t] = frame[t]]
<1>1. frame \in [Thread -> Frame] /\ fetch \in [Thread -> Fetch] /\ Placed(frame[t])
  BY DEF WalksAreSound, RoutesAreSound, TypeOK
<1>2. QED
  BY <1>1 DEF WalksAreSound

(* The step by which a refresh or a check begins.                          *)
LEMMA BeginRefreshWalks ==
    ASSUME WalksAreSound, NEW t \in Thread, BeginRefresh(t), Watching
    PROVE  WalksAreSound' /\ [Next]_vars
<1>1. PICK purpose \in {"Update", "Check"} : fetch' = [fetch EXCEPT ![t] = NewFetch(purpose)]
  BY DEF BeginRefresh
<1>2. PICK d : d = NewFetch(purpose)
  OBVIOUS
<1>3. d \in Fetch /\ Walks(d)
  BY <1>2, NewFetchFields
<1>4. PICK g : g = NewFrame("Update", "Fetch")
  OBVIOUS
<1>5. Walked(g, d)
  <2>1. g.call = "Update" /\ g.pc = "Fetch"
    BY <1>4 DEF NewFrame
  <2>2. QED
    BY <2>1 DEF Walked, RoutingCall, SamplingLabel
<1>6. frame' = [frame EXCEPT ![t] = g] /\ Witnessing /\ Step(t)
  BY <1>4 DEF BeginRefresh, BeginUpdate, Step
<1>7. CoversNext(g, d, steady[t], statuses')
  <2>1. d.stage = "Scope"
    BY <1>2 DEF NewFetch
  <2>2. QED
    BY <2>1 DEF CoversNext, Covers
<1>8. QED
  BY <1>1, <1>2, <1>3, <1>5, <1>6, <1>7, WalkStep

(* The end of a walk is a result of FetchLiveNodes: a list to publish is   *)
(* not empty and is all the walk heard, and a walk without one has heard   *)
(* of no node.                                                             *)
LEMMA FinishWalks ==
    ASSUME WalksAreSound, NEW t \in Thread, At(t, "Fetch"), NEW c \in Fetch, NEW nodes,
           NEW outcome \in {"Nodes", "Empty", "Threw"}, Finish(t, c, outcome, nodes),
           c.unheard = {},
           outcome = "Nodes" => nodes = c.heard /\ nodes # {},
           outcome # "Nodes" => c.heard = {},
           UNCHANGED <<statuses, routing, indexes>>, Witnessing, Watching
    PROVE  WalksAreSound' /\ [Next]_vars
<1>. DEFINE f == frame[t]
<1>0. /\ frame \in [Thread -> Frame] /\ f \in Frame /\ Walked(f, fetch[t]) /\ f.pc = "Fetch"
      /\ c.heard \in SUBSET Node
  BY SoundThread DEF At, Fetch
<1>1. PICK d : d = Finished(outcome, c.heard)
  OBVIOUS
<1>2. /\ d \in Fetch /\ d.stage = "Done" /\ d.outcome = outcome /\ d.heard = c.heard
      /\ d.unheard = {}
  BY <1>0, <1>1, FinishedFields
<1>3. /\ fetch' = [fetch EXCEPT ![t] = d] /\ Walks(d)
      /\ \A g : CoversNext(g, d, steady[t], statuses')
  BY <1>1, <1>2 DEF Finish, Finished, Walks, CoversNext, Covers
<1>4. CASE c.purpose = "Update" /\ outcome = "Nodes"
  <2>1. PICK g : g = [f EXCEPT !.pc = "Lock", !.fresh = nodes]
    OBVIOUS
  <2>2. frame' = [frame EXCEPT ![t] = g]
    BY <1>4, <2>1 DEF Finish
  <2>3. g.call = f.call /\ g.pc = "Lock" /\ g.fresh = nodes
    BY <1>0, <2>1 DEF Frame
  <2>4. Walked(g, d)
    BY <1>0, <1>2, <1>4, <2>3 DEF Walked, SamplingLabel
  <2>5. FetchResult(t)
    <3>1. frame' = [frame EXCEPT ![t].pc = "Lock", ![t].fresh = nodes]
      BY <1>0, <2>1, <2>2
    <3>2. nodes \in (SUBSET Node) \ {{}}
      BY <1>0, <1>4
    <3>3. QED
      BY <3>1, <3>2 DEF FetchResult
  <2>6. QED
    BY <1>2, <1>3, <2>2, <2>4, <2>5, WalkStep DEF Step
<1>5. CASE c.purpose = "Update" /\ outcome = "Empty"
  <2>1. PICK g : g = [f EXCEPT !.pc = "ProbeSnapshot"]
    OBVIOUS
  <2>2. frame' = [frame EXCEPT ![t] = g]
    BY <1>5, <2>1 DEF Finish
  <2>3. g.call = f.call /\ g.pc = "ProbeSnapshot"
    BY <1>0, <2>1 DEF Frame
  <2>4. Walked(g, d)
    BY <1>0, <2>3 DEF Walked, SamplingLabel
  <2>5. FetchResult(t)
    <3>1. frame' = [frame EXCEPT ![t].pc = "ProbeSnapshot"]
      BY <1>0, <2>1, <2>2
    <3>2. QED
      BY <3>1 DEF FetchResult
  <2>6. QED
    BY <1>2, <1>3, <2>2, <2>4, <2>5, WalkStep DEF Step
<1>6. CASE ~(c.purpose = "Update" /\ outcome \in {"Nodes", "Empty"})
  <2>1. PICK g : g = IdleFrame
    OBVIOUS
  <2>2. frame' = [frame EXCEPT ![t] = g]
    BY <1>6, <2>1 DEF Finish
  <2>3. g.call = "None" /\ g.pc = "Idle"
    BY <2>1, NewFrameType DEF IdleFrame, Label
  <2>4. Walked(g, d)
    BY <2>3 DEF Walked, SamplingLabel, RoutingCall
  <2>5. FetchResult(t)
    BY <2>1, <2>2 DEF FetchResult
  <2>6. QED
    BY <1>2, <1>3, <2>2, <2>4, <2>5, WalkStep DEF Step
<1>7. QED
  BY <1>4, <1>5, <1>6

(* The beginning of a scope.                                               *)
LEMMA BeginScopeWalks ==
    ASSUME WalksAreSound, NEW t \in Thread, BeginScope(t), Watching
    PROVE  WalksAreSound' /\ [Next]_vars
<1>. DEFINE f == frame[t]
            c == fetch[t]
<1>1. /\ frame \in [Thread -> Frame] /\ f \in Frame /\ fetch \in [Thread -> Fetch] /\ c \in Fetch
      /\ Walks(c) /\ Walked(f, c) /\ frame = [frame EXCEPT ![t] = f] /\ Placed(f)
  BY SoundThread
<1>2. /\ At(t, "Fetch") /\ f.pc = "Fetch" /\ c.stage = "Scope" /\ Witnessing
      /\ UNCHANGED <<statuses, routing, indexes>>
  BY DEF BeginScope, Working, At
<1>3. c.heard = {} /\ c.discovered = {} /\ c.unheard = {} /\ c.outcome = "None"
  BY <1>1, <1>2 DEF Walks
<1>4. CASE Finish(t, c, "Empty", {})
  BY <1>1, <1>2, <1>3, <1>4, FinishWalks
<1>5. CASE /\ c.scope <= Len(Scopes) /\ IsCluster(c.scope)
           /\ fetch' = [fetch EXCEPT ![t].stage = "Ask", ![t].plan = ClusterNodes]
           /\ UNCHANGED frame
  <2>1. PICK d : d = [c EXCEPT !.stage = "Ask", !.plan = ClusterNodes]
    OBVIOUS
  <2>2. fetch' = [fetch EXCEPT ![t] = d]
    BY <1>1, <1>5, <2>1
  <2>3. ClusterNodes \in SUBSET Node /\ "Success" \in NodeHealthObservation
    BY LiveNodesAssumption DEF ClusterNodes, NodeHealthObservation
  <2>. HIDE DEF c, f
  <2>4. /\ d \in Fetch /\ d.stage = "Ask" /\ d.scope = c.scope /\ d.discovered = c.discovered
        /\ d.heard = c.heard /\ d.outcome = c.outcome /\ d.unheard = c.unheard
        /\ d.plan = ClusterNodes
    BY <1>1, <2>1, <2>3 DEF Fetch
  <2>9. CoversNext(f, d, steady[t], statuses')
    BY <1>5, <2>4 DEF CoversNext, Covers
  <2>5. Walks(d)
    BY <1>3, <1>5, <2>4 DEF Walks
  <2>6. Walked(f, d)
    BY <1>1, <1>2 DEF Walked, SamplingLabel
  <2>7. frame' = [frame EXCEPT ![t] = f]
    BY <1>1, <1>5
  <2>8. QED
    BY <1>2, <1>5, <2>2, <2>4, <2>5, <2>6, <2>7, <2>9, WalkStep
<1>6. CASE /\ c.scope <= Len(Scopes) /\ ~IsCluster(c.scope)
           /\ fetch' = [fetch EXCEPT ![t].stage = "Plan"]
           /\ frame' = [frame EXCEPT ![t].pc = "Active"]
  <2>1. PICK d : d = [c EXCEPT !.stage = "Plan"]
    OBVIOUS
  <2>2. PICK g : g = [f EXCEPT !.pc = "Active"]
    OBVIOUS
  <2>3. fetch' = [fetch EXCEPT ![t] = d] /\ frame' = [frame EXCEPT ![t] = g]
    BY <1>1, <1>6, <2>1, <2>2
  <2>4. FetchPlan(t)
    BY <1>2, <1>6 DEF FetchPlan
  <2>. HIDE DEF c, f
  <2>5. /\ d \in Fetch /\ d.stage = "Plan" /\ d.scope = c.scope /\ d.discovered = c.discovered
        /\ d.heard = c.heard /\ d.outcome = c.outcome /\ d.unheard = c.unheard
    BY <1>1, <2>1 DEF Fetch
  <2>6. Walks(d)
    BY <1>3, <1>6, <2>5 DEF Walks
  <2>7. g.call = f.call /\ g.pc = "Active"
    BY <1>1, <2>2 DEF Frame
  <2>8. Walked(g, d)
    BY <1>1, <2>5, <2>7 DEF Walked
  <2>9. CoversNext(g, d, steady[t], statuses')
    BY <2>5, <2>7 DEF CoversNext, Covers, Sampled
  <2>10. QED
    BY <1>2, <2>3, <2>4, <2>5, <2>6, <2>8, <2>9, WalkStep DEF Step
<1>7. QED
  BY <1>4, <1>5, <1>6 DEF BeginScope

(* The first step of discovery's own plan takes the snapshot of the active *)
(* nodes, and the others keep it, up to the last one.                      *)
Snapshots(f, g, st) ==
    \/ f.pc = "Active" /\ g.pc = "Sample" /\ g.active = GetActiveNodes(st)
    \/ f.pc \in Sampled /\ g.pc = "Fetch"
    \/ f.pc \in Sampled /\ g.pc \in Sampled /\ g.active = f.active

(* A step of discovery's own plan goes on sampling or is the last one.     *)
LEMMA SamplingStep ==
    ASSUME WalksAreSound, NEW t \in Thread, frame[t].call = "Update",
           SnapshotActive(t) \/ Sample(t) \/ CountAttempt(t) \/ ReadQuarantined(t) \/ PickQuarantined(t)
    PROVE  /\ frame[t].pc \in SamplingLabel /\ Witnessing /\ Step(t)
           /\ \E g : /\ frame' = [frame EXCEPT ![t] = g]
                     /\ g.call = "Update" /\ g.pc \in SamplingLabel \cup {"Fetch"}
                     /\ Snapshots(frame[t], g, statuses')
<1>. DEFINE f == frame[t]
<1>1. frame \in [Thread -> Frame] /\ f \in Frame
  BY SoundThread
<1>2. f.pc \in SamplingLabel /\ Witnessing /\ Step(t)
  BY DEF SnapshotActive, Sample, CountAttempt, ReadQuarantined, PickQuarantined, At,
         SamplingLabel, Step
<1>3. ASSUME NEW p
      PROVE  /\ AfterSampling(f, p).call = "Update"
             /\ AfterSampling(f, p).pc = "Fetch"
  <2>1. AfterSampling(f, p) = NewFrame("Update", "Fetch")
    BY DEF AfterSampling
  <2>2. QED
    BY <2>1, NewFrameType DEF Call, Label
<1>4. CASE SnapshotActive(t)
  <2>. DEFINE active == GetActiveNodes(statuses)
  <2>1. PICK g : g = [f EXCEPT !.active = active, !.pc = "Sample"]
    OBVIOUS
  <2>2. frame' = [frame EXCEPT ![t] = g] /\ f.pc = "Active" /\ active = GetActiveNodes(statuses')
    BY <1>1, <1>4, <2>1 DEF SnapshotActive, At
  <2>. HIDE DEF active
  <2>3. g.call = "Update" /\ g.pc = "Sample" /\ g.active = active
    BY <1>1, <2>1 DEF Frame
  <2>4. QED
    BY <1>2, <2>2, <2>3 DEF SamplingLabel, Snapshots
<1>5. CASE Sample(t) \/ CountAttempt(t)
  <2>0. f.pc \in Sampled
    BY <1>5 DEF Sample, CountAttempt, At, SamplingLabel, Sampled
  <2>1. PICK g : g = [f EXCEPT !.pc = "ReadQuarantined"]
    OBVIOUS
  <2>2. PICK h : h = [f EXCEPT !.pc = "Count"]
    OBVIOUS
  <2>3. PICK k : k = AfterSampling(f, NoNode)
    OBVIOUS
  <2>4. g.call = "Update" /\ g.pc = "ReadQuarantined" /\ g.active = f.active
    BY <1>1, <2>1 DEF Frame
  <2>5. h.call = "Update" /\ h.pc = "Count" /\ h.active = f.active
    BY <1>1, <2>2 DEF Frame
  <2>6. k.call = "Update" /\ k.pc = "Fetch"
    BY <1>3, <2>3
  <2>7. \E x \in {g, h, k} : frame' = [frame EXCEPT ![t] = x]
    <3>1. CASE Sample(t)
      <4>1. CASE GetQuarantinedNodes(statuses) = {}
        BY <2>3, <3>1, <4>1 DEF Sample
      <4>2. CASE GetQuarantinedNodes(statuses) # {} /\ f.active = {}
        BY <2>1, <3>1, <4>2 DEF Sample
      <4>3. CASE GetQuarantinedNodes(statuses) # {} /\ f.active # {}
        BY <2>2, <3>1, <4>3 DEF Sample
      <4>4. QED
        BY <4>1, <4>2, <4>3
    <3>2. CASE CountAttempt(t)
      <4>1. CASE (quarantine_plan_index + 1) % Interval = 0
        BY <1>1, <2>1, <3>2, <4>1 DEF CountAttempt
      <4>2. CASE (quarantine_plan_index + 1) % Interval # 0
        BY <1>1, <2>3, <3>2, <4>2 DEF CountAttempt
      <4>3. QED
        BY <4>1, <4>2
    <3>3. QED
      BY <1>5, <3>1, <3>2
  <2>. HIDE DEF f
  <2>8. ASSUME NEW x \in {g, h, k}
        PROVE  /\ x.call = "Update" /\ x.pc \in SamplingLabel \cup {"Fetch"}
               /\ Snapshots(f, x, statuses')
    BY <2>0, <2>4, <2>5, <2>6 DEF SamplingLabel, Sampled, Snapshots
  <2>9. QED
    BY <1>2, <2>7, <2>8 DEF f
<1>6. CASE ReadQuarantined(t)
  <2>. DEFINE quarantined == GetQuarantinedNodes(statuses)
  <2>1. PICK g : g = [f EXCEPT !.quarantined = quarantined, !.pc = "PickQuarantined"]
    OBVIOUS
  <2>2. \/ frame' = [frame EXCEPT ![t] = g]
        \/ frame' = [frame EXCEPT ![t] = AfterSampling(f, NoNode)]
    BY <1>6, <2>1 DEF ReadQuarantined
  <2>0. f.pc \in Sampled
    BY <1>6 DEF ReadQuarantined, At, SamplingLabel, Sampled
  <2>. HIDE DEF quarantined
  <2>3. g.call = "Update" /\ g.pc = "PickQuarantined" /\ g.active = f.active
    BY <1>1, <2>1 DEF Frame
  <2>5. PICK k : k = AfterSampling(f, NoNode)
    OBVIOUS
  <2>6. k.call = "Update" /\ k.pc = "Fetch"
    BY <1>3, <2>5
  <2>. HIDE DEF f
  <2>7. ASSUME NEW x \in {g, k}
        PROVE  /\ x.call = "Update" /\ x.pc \in SamplingLabel \cup {"Fetch"}
               /\ Snapshots(f, x, statuses')
    BY <2>0, <2>3, <2>6 DEF SamplingLabel, Sampled, Snapshots
  <2>8. QED
    BY <1>2, <2>2, <2>5, <2>7 DEF f
<1>7. CASE PickQuarantined(t)
  <2>. DEFINE n == Element(f.quarantined, quarantine_node_index % Cardinality(f.quarantined))
  <2>1. frame' = [frame EXCEPT ![t] = AfterSampling(f, n)]
    BY <1>7 DEF PickQuarantined
  <2>0. f.pc \in Sampled
    BY <1>7 DEF PickQuarantined, At, SamplingLabel, Sampled
  <2>2. PICK k : k = AfterSampling(f, n)
    OBVIOUS
  <2>3. k.call = "Update" /\ k.pc = "Fetch"
    BY <1>3, <2>2
  <2>4. Snapshots(f, k, statuses')
    BY <2>0, <2>3 DEF Snapshots
  <2>5. QED
    BY <1>2, <2>1, <2>2, <2>3, <2>4
<1>8. QED
  BY <1>4, <1>5, <1>6, <1>7

(* The plan of a scope is a set of nodes.                                  *)
LEMMA SampleWalks ==
    ASSUME WalksAreSound, NEW t \in Thread, SampleDiscoveryNodes(t), Watching
    PROVE  WalksAreSound' /\ [Next]_vars
<1>. DEFINE f == frame[t]
            c == fetch[t]
            n == Element(f.quarantined, quarantine_node_index % Cardinality(f.quarantined))
            picked == IF At(t, "PickQuarantined") THEN {n} ELSE {}
            S == f.active \cup picked
<1>1. /\ frame \in [Thread -> Frame] /\ f \in Frame /\ fetch \in [Thread -> Fetch] /\ c \in Fetch
      /\ Walks(c) /\ Walked(f, c) /\ fetch = [fetch EXCEPT ![t] = c] /\ Placed(f)
      /\ quarantine_node_index \in Index /\ Covers(f, c, steady[t])
  BY SoundThread DEF WalksAreSound, RoutesAreSound, TypeOK
<1>2. f.pc \in SamplingLabel /\ Witnessing /\ Step(t)
  BY SamplingStep DEF SampleDiscoveryNodes
<1>3. PICK g : /\ frame' = [frame EXCEPT ![t] = g]
               /\ g.call = "Update" /\ g.pc \in SamplingLabel \cup {"Fetch"}
               /\ Snapshots(f, g, statuses')
  BY SamplingStep DEF SampleDiscoveryNodes
<1>4. frame'[t] = g
  BY <1>1, <1>3
<1>5. c.stage = "Plan"
  BY <1>1, <1>2 DEF Walked
<1>6. CASE g.pc # "Fetch"
  <2>1. fetch' = [fetch EXCEPT ![t] = c]
    BY <1>1, <1>4, <1>6 DEF SampleDiscoveryNodes
  <2>2. Walked(g, c)
    BY <1>3, <1>5, <1>6 DEF Walked, RoutingCall, SamplingLabel
  <2>3. CoversNext(g, c, steady[t], statuses')
    BY <1>1, <1>3, <1>5, <1>6 DEF CoversNext, Covers, Snapshots
  <2>4. QED
    BY <1>1, <1>2, <1>3, <2>1, <2>2, <2>3, WalkStep
<1>7. CASE g.pc = "Fetch"
  <2>1. fetch' = [fetch EXCEPT ![t].stage = "Ask", ![t].plan = S]
    BY <1>4, <1>7 DEF SampleDiscoveryNodes
  <2>2. S \in SUBSET Node
    <3>1. f.active \in SUBSET Node /\ f.quarantined \in SUBSET Node
      BY <1>1 DEF Frame
    <3>2. CASE At(t, "PickQuarantined")
      <4>1. f.quarantined # {}
        BY <1>1, <3>2 DEF Placed, At
      <4>2. n \in f.quarantined
        BY <1>1, <3>1, <4>1, IncrementType, ElementIsMember
      <4>. HIDE DEF n
      <4>3. QED
        BY <3>1, <4>2
    <3>3. CASE ~At(t, "PickQuarantined")
      BY <3>1, <3>3
    <3>4. QED
      BY <3>2, <3>3
  <2>. HIDE DEF S
  <2>3. PICK d : d = [c EXCEPT !.stage = "Ask", !.plan = S]
    OBVIOUS
  <2>4. fetch' = [fetch EXCEPT ![t] = d]
    BY <1>1, <2>1, <2>3
  <2>. HIDE DEF c
  <2>5. /\ d \in Fetch /\ d.stage = "Ask" /\ d.scope = c.scope /\ d.discovered = c.discovered
        /\ d.heard = c.heard /\ d.outcome = c.outcome /\ d.unheard = c.unheard
        /\ d.plan = S
    BY <1>1, <2>2, <2>3 DEF Fetch
  <2>6. Walks(d)
    BY <1>1, <1>5, <2>5 DEF Walks
  <2>9. CoversNext(g, d, steady[t], statuses')
    <3>1. ~IsCluster(d.scope) /\ f.pc \in Sampled
      BY <1>1, <1>3, <1>5, <1>7, <2>5 DEF Walks, Snapshots
    <3>2. steady[t] \subseteq f.active /\ f.active \subseteq S
      BY <1>1, <1>5, <3>1 DEF Covers, S
    <3>3. QED
      BY <2>5, <3>1, <3>2 DEF CoversNext, Covers
  <2>7. Walked(g, d)
    BY <1>3, <1>7 DEF Walked, RoutingCall, SamplingLabel
  <2>8. QED
    BY <1>2, <1>3, <2>4, <2>5, <2>6, <2>7, <2>9, WalkStep
<1>8. QED
  BY <1>6, <1>7

(* A list is added to what was discovered and heard, or ends the walk.     *)
LEMMA AnsweredWalks ==
    ASSUME WalksAreSound, NEW t \in Thread, AskAnswered(t), Watching
    PROVE  WalksAreSound' /\ [Next]_vars
<1>. DEFINE f == frame[t]
            c == fetch[t]
<1>1. /\ frame \in [Thread -> Frame] /\ f \in Frame /\ fetch \in [Thread -> Fetch] /\ c \in Fetch
      /\ Walks(c) /\ Walked(f, c) /\ frame = [frame EXCEPT ![t] = f]
      /\ Covers(f, c, steady[t])
  BY SoundThread
<1>2. /\ At(t, "Fetch") /\ f.pc = "Fetch" /\ c.stage = "Ask" /\ Witnessing
      /\ UNCHANGED <<statuses, routing, indexes>>
  BY DEF AskAnswered, Working, At
<1>3. PICK n \in c.plan, nodes \in SUBSET Node :
        LET e == [c EXCEPT !.plan = @ \ {n}, !.denied = IF nodes = {} THEN @ \cup {n} ELSE @] IN
        IF nodes = {} \/ IsCluster(e.scope)
        THEN fetch' = [fetch EXCEPT ![t] = WithList(e, nodes)] /\ UNCHANGED frame
        ELSE Finish(t, WithList(e, nodes), "Nodes", nodes)
  BY DEF AskAnswered
<1>. DEFINE denied == IF nodes = {} THEN c.denied \cup {n} ELSE c.denied
<1>4. PICK e : e = [c EXCEPT !.plan = c.plan \ {n}, !.denied = denied]
  OBVIOUS
<1>5. PICK d : d = WithList(e, nodes)
  OBVIOUS
<1>6. IF nodes = {} \/ IsCluster(e.scope)
      THEN fetch' = [fetch EXCEPT ![t] = d] /\ UNCHANGED frame
      ELSE Finish(t, d, "Nodes", nodes)
  BY <1>3, <1>4, <1>5
<1>. HIDE DEF c
<1>7. /\ c.plan \ {n} \in SUBSET Node /\ denied \in SUBSET Node
      /\ "Success" \in NodeHealthObservation
  BY <1>1 DEF Fetch, NodeHealthObservation
<1>13. nodes = {} => denied = c.denied \cup {n}
  OBVIOUS
<1>. HIDE DEF denied
<1>8. /\ e \in Fetch /\ e.stage = c.stage /\ e.scope = c.scope /\ e.discovered = c.discovered
      /\ e.heard = c.heard /\ e.outcome = c.outcome /\ e.unheard = c.unheard
      /\ e.plan = c.plan \ {n} /\ e.denied = denied /\ e.failed = c.failed
  BY <1>1, <1>4, <1>7 DEF Fetch
<1>9. /\ d \in Fetch /\ d.stage = "Ask" /\ d.scope = c.scope
      /\ d.discovered = c.discovered \cup nodes /\ d.heard = c.heard \cup nodes
      /\ d.outcome = c.outcome /\ d.unheard = c.unheard
      /\ d.plan = c.plan \ {n} /\ d.denied = denied /\ d.failed = c.failed
  BY <1>2, <1>5, <1>8 DEF Fetch, WithList
<1>10. CASE nodes = {} \/ IsCluster(c.scope)
  <2>1. fetch' = [fetch EXCEPT ![t] = d] /\ UNCHANGED frame
    BY <1>6, <1>8, <1>10
  <2>2. Walks(d)
    BY <1>1, <1>2, <1>9, <1>10 DEF Walks
  <2>3. Walked(f, d)
    BY <1>1, <1>2 DEF Walked, SamplingLabel
  <2>4. frame' = [frame EXCEPT ![t] = f]
    BY <1>1, <2>1
  <2>5. CoversNext(f, d, steady[t], statuses')
    <3>1. CASE nodes # {}
      BY <1>2, <1>9, <3>1 DEF CoversNext, Covers
    <3>2. CASE nodes = {}
      <4>1. /\ d.discovered = c.discovered
            /\ d.plan \cup d.denied \cup d.failed = c.plan \cup c.denied \cup c.failed
        BY <1>9, <1>13, <3>2
      <4>2. Covers(f, d, steady[t])
        BY <1>1, <1>2, <1>9, <4>1 DEF Covers
      <4>3. QED
        BY <4>2, CoversLess
    <3>3. QED
      BY <3>1, <3>2
  <2>6. QED
    BY <1>2, <1>9, <2>1, <2>2, <2>3, <2>4, <2>5, WalkStep
<1>11. CASE ~(nodes = {} \/ IsCluster(c.scope))
  <2>1. Finish(t, d, "Nodes", nodes)
    BY <1>6, <1>8, <1>11
  <2>2. d.heard = nodes /\ nodes # {} /\ d.unheard = {}
    BY <1>1, <1>2, <1>9, <1>11 DEF Walks
  <2>3. QED
    BY <1>2, <1>9, <2>1, <2>2, FinishWalks
<1>12. QED
  BY <1>10, <1>11

(* A node fails: the failure is reported, the walk goes on.                *)
LEMMA FailedWalks ==
    ASSUME WalksAreSound, NEW t \in Thread, AskFailed(t), Watching
    PROVE  WalksAreSound' /\ [Next]_vars
<1>. DEFINE f == frame[t]
            c == fetch[t]
<1>1. /\ frame \in [Thread -> Frame] /\ f \in Frame /\ fetch \in [Thread -> Fetch] /\ c \in Fetch
      /\ Walks(c) /\ Walked(f, c) /\ Covers(f, c, steady[t])
  BY SoundThread
<1>2. /\ At(t, "Fetch") /\ Free /\ f.pc = "Fetch" /\ c.stage = "Ask" /\ Witnessing
      /\ UNCHANGED <<statuses, routing, indexes>>
  BY DEF AskFailed, Working, At
<1>3. PICK n \in c.plan, o \in NodeHealthObservation :
        /\ fetch' = [fetch EXCEPT ![t].plan = @ \ {n}, ![t].failed = @ \cup {n},
                                  ![t].observation = o]
        /\ frame' = [frame EXCEPT ![t].pc = "Report", ![t].node = n]
  BY DEF AskFailed
<1>4. n \in Node /\ c.plan \ {n} \in SUBSET Node /\ c.failed \cup {n} \in SUBSET Node
  BY <1>1 DEF Fetch
<1>5. PICK d : d = [c EXCEPT !.plan = c.plan \ {n}, !.failed = c.failed \cup {n},
                             !.observation = o]
  OBVIOUS
<1>6. PICK g : g = [f EXCEPT !.pc = "Report", !.node = n]
  OBVIOUS
<1>7. fetch' = [fetch EXCEPT ![t] = d] /\ frame' = [frame EXCEPT ![t] = g]
  BY <1>1, <1>3, <1>5, <1>6
<1>8. FetchError(t)
  BY <1>2, <1>3, <1>4 DEF FetchError
<1>. HIDE DEF c, f
<1>9. /\ d \in Fetch /\ d.stage = c.stage /\ d.scope = c.scope /\ d.discovered = c.discovered
      /\ d.heard = c.heard /\ d.outcome = c.outcome /\ d.unheard = c.unheard
      /\ d.plan = c.plan \ {n} /\ d.denied = c.denied /\ d.failed = c.failed \cup {n}
  BY <1>1, <1>4, <1>5 DEF Fetch
<1>10. Walks(d)
  BY <1>1, <1>9 DEF Walks
<1>11. g.call = f.call /\ g.pc = "Report"
  BY <1>1, <1>6 DEF Frame
<1>12. Walked(g, d)
  BY <1>1, <1>11 DEF Walked, SamplingLabel
<1>13. CoversNext(g, d, steady[t], statuses')
  <2>1. d.plan \cup d.denied \cup d.failed = c.plan \cup c.denied \cup c.failed
    BY <1>3, <1>9
  <2>2. Covers(g, d, steady[t])
    BY <1>1, <1>2, <1>9, <2>1 DEF Covers
  <2>3. QED
    BY <2>2, CoversLess
<1>14. QED
  BY <1>2, <1>7, <1>8, <1>9, <1>10, <1>12, <1>13, WalkStep DEF Step

(* The end of a scope: its lists, its error, or the next scope.            *)
LEMMA EndScopeWalks ==
    ASSUME WalksAreSound, NEW t \in Thread, EndScope(t), Watching
    PROVE  WalksAreSound' /\ [Next]_vars
<1>. DEFINE f == frame[t]
            c == fetch[t]
<1>1. /\ frame \in [Thread -> Frame] /\ f \in Frame /\ fetch \in [Thread -> Fetch] /\ c \in Fetch
      /\ Walks(c) /\ Walked(f, c) /\ frame = [frame EXCEPT ![t] = f]
      /\ Covers(f, c, steady[t])
  BY SoundThread
<1>2. /\ At(t, "Fetch") /\ f.pc = "Fetch" /\ c.stage = "Ask" /\ Witnessing
      /\ UNCHANGED <<statuses, routing, indexes>>
  BY DEF EndScope, Working, At
<1>3. c.heard = c.discovered /\ c.unheard = {} /\ c.outcome = "None" /\ c.scope <= Len(Scopes)
  BY <1>1, <1>2 DEF Walks
<1>4. CASE c.discovered # {} /\ Finish(t, c, "Nodes", c.discovered)
  BY <1>1, <1>2, <1>3, <1>4, FinishWalks
<1>5. CASE c.discovered = {} /\ Finish(t, c, "Threw", {})
  BY <1>1, <1>2, <1>3, <1>5, FinishWalks
<1>6. CASE /\ c.discovered = {} /\ c.failed = {} /\ UNCHANGED frame
           /\ fetch' = [fetch EXCEPT ![t].scope = @ + 1, ![t].stage = "Scope", ![t].failed = {},
                                     ![t].heard = {}, ![t].denied = {},
                                     ![t].unheard = @ \cup (Concerned(t) \ c.denied)]
  <2>8. c.plan = {}
    BY DEF EndScope
  <2>9. Concerned(t) \subseteq c.denied
    BY <1>1, <1>2, <1>6, <2>8 DEF Covers, Concerned
  <2>11. c.unheard \cup (Concerned(t) \ c.denied) = {}
    BY <1>3, <2>9
  <2>1. PICK d : d = [c EXCEPT !.scope = c.scope + 1, !.stage = "Scope", !.failed = {},
                               !.heard = {}, !.denied = {}, !.unheard = {}]
    OBVIOUS
  <2>2. fetch' = [fetch EXCEPT ![t] = d]
    BY <1>1, <1>6, <2>1, <2>11
  <2>. HIDE DEF c, f
  <2>3. /\ d \in Fetch /\ d.stage = "Scope" /\ d.discovered = c.discovered /\ d.heard = {}
        /\ d.outcome = c.outcome /\ d.unheard = {}
    BY <1>1, <1>3, <2>1, NextScopeFields
  <2>4. Walks(d)
    BY <1>3, <1>6, <2>3 DEF Walks
  <2>5. Walked(f, d)
    BY <1>1, <1>2 DEF Walked, SamplingLabel
  <2>6. frame' = [frame EXCEPT ![t] = f]
    BY <1>1, <1>6
  <2>10. CoversNext(f, d, steady[t], statuses')
    BY <2>3 DEF CoversNext, Covers
  <2>7. QED
    BY <1>2, <1>6, <2>2, <2>3, <2>4, <2>5, <2>6, <2>10, WalkStep
<1>7. QED
  BY <1>4, <1>5, <1>6 DEF EndScope

(* A frame of the same call at a label without conditions.                 *)
LEMMA ElsewhereWalks ==
    ASSUME NEW f, NEW c, Walked(f, c), NEW g, g.call = f.call \/ g.call \notin RoutingCall,
           g.pc \notin SamplingLabel \cup {"Lock"}
    PROVE  Walked(g, c)
BY DEF Walked

(* The lock is taken with the list of the walk.                            *)
LEMMA AdoptWalks ==
    ASSUME WalksAreSound, NEW t \in Thread, AdoptNodes(t), Watching
    PROVE  WalksAreSound' /\ [Next]_vars
<1>. DEFINE f == frame[t]
<1>1. frame \in [Thread -> Frame] /\ f \in Frame /\ Walked(f, fetch[t])
  BY SoundThread
<1>2. LockNodes(t) /\ Witnessing /\ Step(t) /\ fetch' = [fetch EXCEPT ![t] = NoFetch]
  BY DEF AdoptNodes, LockNodes, Step
<1>3. PICK g : g = [f EXCEPT !.pc = "AddNodes", !.todo = f.fresh]
  OBVIOUS
<1>4. frame' = [frame EXCEPT ![t] = g]
  BY <1>1, <1>2, <1>3 DEF LockNodes
<1>5. g.call = f.call /\ g.pc = "AddNodes"
  BY <1>1, <1>3 DEF Frame
<1>6. Walked(g, NoFetch)
  BY <1>1, <1>5 DEF Walked, SamplingLabel
<1>7. NoFetch \in Fetch /\ Walks(NoFetch)
  BY NewFetchFields
<1>8. CoversNext(g, NoFetch, steady[t], statuses')
  <2>1. PICK d : d = NoFetch
    OBVIOUS
  <2>2. d.stage = "Done"
    BY <2>1 DEF NoFetch, NewFetch
  <2>3. QED
    BY <2>1, <2>2 DEF CoversNext, Covers
<1>9. QED
  BY <1>2, <1>4, <1>6, <1>7, <1>8, WalkStep

(* The report of a failure leaves the walk alone but for what it reported. *)
LEMMA ReportWalks ==
    ASSUME WalksAreSound, NEW t \in Thread, ReportAnswer(t), Watching
    PROVE  WalksAreSound' /\ [Next]_vars
<1>. DEFINE f == frame[t]
            c == fetch[t]
<1>1. /\ frame \in [Thread -> Frame] /\ f \in Frame /\ fetch \in [Thread -> Fetch] /\ c \in Fetch
      /\ Walks(c) /\ Walked(f, c) /\ Covers(f, c, steady[t])
  BY SoundThread
<1>2. Witnessing /\ Step(t) /\ f.pc = "Report"
  BY DEF ReportAnswer, ReportToStore, Step, At
<1>3. PICK d : d = [c EXCEPT !.observation = "Success"]
  OBVIOUS
<1>4. PICK g : g = [f EXCEPT !.pc = "ReportStatus"]
  OBVIOUS
<1>5. fetch' = [fetch EXCEPT ![t] = d] /\ frame' = [frame EXCEPT ![t] = g]
  BY <1>1, <1>3, <1>4 DEF ReportAnswer, ReportToStore
<1>6. "Success" \in NodeHealthObservation
  BY DEF NodeHealthObservation
<1>. HIDE DEF c, f
<1>7. /\ d \in Fetch /\ d.stage = c.stage /\ d.scope = c.scope /\ d.discovered = c.discovered
      /\ d.heard = c.heard /\ d.outcome = c.outcome /\ d.unheard = c.unheard
      /\ d.plan = c.plan /\ d.denied = c.denied /\ d.failed = c.failed
  BY <1>1, <1>3, <1>6 DEF Fetch
<1>8. g.call = f.call /\ g.pc = "ReportStatus"
  BY <1>1, <1>4 DEF Frame
<1>9. Walks(d) /\ Walked(g, d)
  BY <1>1, <1>7, <1>8 DEF Walks, Walked, SamplingLabel
<1>10. CoversNext(g, d, steady[t], statuses')
  <2>1. Covers(g, d, steady[t])
    BY <1>1, <1>7, <1>8 DEF Covers, Sampled, SamplingLabel
  <2>2. QED
    BY <2>1, CoversLess
<1>11. QED
  BY <1>2, <1>5, <1>7, <1>9, <1>10, WalkStep

(* Every other step leaves the walk alone.                                 *)
LEMMA OtherWalks ==
    ASSUME WalksAreSound, NEW t \in Thread, OtherStep(t), Watching
    PROVE  WalksAreSound' /\ [Next]_vars
<1>. DEFINE f == frame[t]
            c == fetch[t]
<1>1. /\ frame \in [Thread -> Frame] /\ f \in Frame /\ c \in Fetch
      /\ Walks(c) /\ Walked(f, c) /\ fetch = [fetch EXCEPT ![t] = c]
      /\ f.call \notin RoutingCall /\ Covers(f, c, steady[t])
  BY SoundThread DEF Walked
<1>2. UNCHANGED fetch /\ Step(t)
  BY DEF OtherStep, Step
<1>3. Witnessing
  BY DEF OtherStep, BeginReport, ReportStatus, ReportForget,
         AddNextNode, RemoveNextNode, PublishNodes, ForgetRemoved, ProbeSnapshot, ProbeLookup,
         ProbeReport
<1>4. SUFFICES \E g : /\ frame' = [frame EXCEPT ![t] = g]
                      /\ g.call = f.call \/ g.call \notin RoutingCall
                      /\ g.pc \notin SamplingLabel \cup {"Lock"}
  <2>1. fetch' = [fetch EXCEPT ![t] = c]
    BY <1>1, <1>2
  <2>2. PICK g : /\ frame' = [frame EXCEPT ![t] = g]
                 /\ g.call = f.call \/ g.call \notin RoutingCall
                 /\ g.pc \notin SamplingLabel \cup {"Lock"}
    BY <1>4
  <2>3. Walked(g, c)
    BY <1>1, <2>2, ElsewhereWalks
  <2>4. CoversNext(g, c, steady[t], statuses')
    <3>1. Covers(g, c, steady[t])
      BY <1>1, <2>2 DEF Covers, Sampled
    <3>2. QED
      BY <3>1, CoversLess
  <2>5. QED
    BY <1>1, <1>2, <1>3, <2>1, <2>2, <2>3, <2>4, WalkStep
<1>5. ASSUME NEW pc \in {"ReportStatus", "Forget", "ForgetRemoved", "ProbeSnapshot"}
      PROVE  [f EXCEPT !.pc = pc].call = f.call /\ [f EXCEPT !.pc = pc].pc \notin SamplingLabel \cup {"Lock"}
  BY <1>1 DEF Frame, SamplingLabel
<1>6. /\ AfterReport(f).call \notin RoutingCall /\ AfterReport(f).pc \notin SamplingLabel \cup {"Lock"}
      /\ IdleFrame.call \notin RoutingCall /\ IdleFrame.pc \notin SamplingLabel \cup {"Lock"}
  <2>1. PICK g : g = NewFrame("Update", "Fetch")
    OBVIOUS
  <2>2. PICK e : e = IdleFrame
    OBVIOUS
  <2>3. g.call = "Update" /\ g.pc = "Fetch" /\ e.call = "None" /\ e.pc = "Idle"
    BY <2>1, <2>2, NewFrameType DEF IdleFrame, Call, Label
  <2>4. AfterReport(f) \in {g, e}
    BY <2>1, <2>2 DEF AfterReport
  <2>5. QED
    BY <2>2, <2>3, <2>4 DEF RoutingCall, SamplingLabel
<1>8. CASE BeginReport(t)
  <2>1. PICK n \in Node :
          frame' = [frame EXCEPT ![t] = [NewFrame("Report", "Report") EXCEPT !.node = n]]
    BY <1>8 DEF BeginReport
  <2>2. PICK e : e = NewFrame("Report", "Report")
    OBVIOUS
  <2>3. e \in Frame /\ e.call = "Report" /\ e.pc = "Report"
    BY <2>2, NewFrameType DEF Call, Label
  <2>4. PICK g : g = [e EXCEPT !.node = n]
    OBVIOUS
  <2>5. g.call = "Report" /\ g.pc = "Report"
    BY <2>3, <2>4 DEF Frame
  <2>6. QED
    BY <2>1, <2>2, <2>4, <2>5 DEF RoutingCall, SamplingLabel
<1>9. CASE ReportStatus(t)
  BY <1>5, <1>6, <1>9 DEF ReportStatus
<1>10. CASE ReportForget(t)
  BY <1>6, <1>10 DEF ReportForget
<1>11. CASE AddNextNode(t)
  <2>. DEFINE n == Least(f.todo)
              rest == f.todo \ {n}
              todo == IF rest = {} THEN live_nodes \ f.fresh ELSE rest
              pc == IF rest = {} THEN "RemoveNodes" ELSE "AddNodes"
  <2>1. PICK g : g = [f EXCEPT !.todo = todo, !.pc = pc]
    OBVIOUS
  <2>2. frame' = [frame EXCEPT ![t] = g]
    BY <1>1, <1>11, <2>1 DEF AddNextNode
  <2>3. pc \in {"AddNodes", "RemoveNodes"}
    OBVIOUS
  <2>. HIDE DEF todo, pc, f
  <2>4. g.call = f.call /\ g.pc = pc
    BY <1>1, <2>1 DEF Frame
  <2>5. QED
    BY <2>2, <2>3, <2>4 DEF SamplingLabel
<1>12. CASE RemoveNextNode(t)
  <2>. DEFINE todo == f.todo \ {Least(f.todo)}
              removed == f.removed \cup {Least(f.todo)}
  <2>1. PICK g : g = [f EXCEPT !.todo = todo, !.removed = removed]
    OBVIOUS
  <2>2. frame' = [frame EXCEPT ![t] = g] /\ f.pc = "RemoveNodes"
    BY <1>1, <1>12, <2>1 DEF RemoveNextNode, At
  <2>. HIDE DEF todo, removed, f
  <2>3. g.call = f.call /\ g.pc = f.pc
    BY <1>1, <2>1 DEF Frame
  <2>4. QED
    BY <2>2, <2>3 DEF SamplingLabel
<1>13. CASE PublishNodes(t)
  <2>1. frame' = [frame EXCEPT ![t] = [f EXCEPT !.pc = "ForgetRemoved"]]
    BY <1>1, <1>13 DEF PublishNodes
  <2>2. QED
    BY <1>5, <2>1
<1>14. CASE ForgetRemoved(t)
  <2>. DEFINE removed == f.removed \ {Least(f.removed)}
  <2>1. PICK g : g = [f EXCEPT !.removed = removed]
    OBVIOUS
  <2>2. /\ f.pc = "ForgetRemoved"
        /\ \/ frame' = [frame EXCEPT ![t] = g]
           \/ frame' = [frame EXCEPT ![t] = [f EXCEPT !.pc = "ProbeSnapshot"]]
    BY <1>1, <1>14, <2>1 DEF ForgetRemoved, At
  <2>. HIDE DEF removed, f
  <2>3. g.call = f.call /\ g.pc = f.pc
    BY <1>1, <2>1 DEF Frame
  <2>4. QED
    BY <1>5, <2>2, <2>3 DEF SamplingLabel
<1>15. CASE ProbeSnapshot(t)
  <2>. DEFINE down == GetDownNodes(statuses)
  <2>1. PICK g : g = [f EXCEPT !.todo = down, !.pc = "ProbeLookup"]
    OBVIOUS
  <2>2. frame' = [frame EXCEPT ![t] = g]
    BY <1>1, <1>15, <2>1 DEF ProbeSnapshot
  <2>. HIDE DEF down, f
  <2>3. g.call = f.call /\ g.pc = "ProbeLookup"
    BY <1>1, <2>1 DEF Frame
  <2>4. QED
    BY <2>2, <2>3 DEF SamplingLabel
<1>16. CASE ProbeLookup(t)
  <2>. DEFINE n == Least(f.todo)
              todo == f.todo \ {n}
              node == IF statuses[n] = NoStatus THEN NoNode ELSE n
              pc == IF statuses[n] = NoStatus THEN "ProbeLookup" ELSE "ProbeReport"
  <2>1. PICK g : g = [f EXCEPT !.todo = todo, !.node = node, !.pc = pc]
    OBVIOUS
  <2>2. f.call # "NextNode"
    BY <1>1 DEF RoutingCall
  <2>3. \/ frame' = [frame EXCEPT ![t] = g]
        \/ frame' = [frame EXCEPT ![t] = IdleFrame]
    BY <1>1, <1>16, <2>1, <2>2 DEF ProbeLookup
  <2>4. pc \in {"ProbeLookup", "ProbeReport"}
    OBVIOUS
  <2>. HIDE DEF todo, node, pc, f
  <2>5. g.call = f.call /\ g.pc = pc
    BY <1>1, <2>1 DEF Frame
  <2>6. QED
    BY <1>6, <2>3, <2>4, <2>5 DEF SamplingLabel
<1>17. CASE ProbeReport(t)
  <2>1. PICK g : g = [f EXCEPT !.pc = "ProbeLookup", !.node = NoNode]
    OBVIOUS
  <2>2. frame' = [frame EXCEPT ![t] = g]
    BY <1>1, <1>17, <2>1 DEF ProbeReport
  <2>. HIDE DEF f
  <2>3. g.call = f.call /\ g.pc = "ProbeLookup"
    BY <1>1, <2>1 DEF Frame
  <2>4. QED
    BY <2>2, <2>3 DEF SamplingLabel
<1>18. QED
  BY <1>8, <1>9, <1>10, <1>11, <1>12, <1>13, <1>14, <1>15, <1>16, <1>17 DEF OtherStep

-----------------------------------------------------------------------------
(* The theorems.                                                           *)

(* The invariant holds initially.                                          *)
LEMMA InitWalks ==
    DiscoveryInit => WalksAreSound
<1>. SUFFICES ASSUME DiscoveryInit PROVE WalksAreSound
  OBVIOUS
<1>1. RoutesAreSound /\ witnessed = [t \in Thread |-> NoWitness]
  BY InitRoutes DEF DiscoveryInit, Init
<1>2. NoFetch \in Fetch /\ Walks(NoFetch)
  BY NewFetchFields
<1>3. PICK g : g = IdleFrame
  OBVIOUS
<1>4. g.call = "None" /\ g.pc = "Idle"
  BY <1>3, NewFrameType DEF IdleFrame, Label
<1>5. Walked(g, NoFetch) /\ Covers(g, NoFetch, {})
  <2>1. PICK d : d = NoFetch
    OBVIOUS
  <2>2. d.stage = "Done"
    BY <2>1 DEF NoFetch, NewFetch
  <2>3. QED
    BY <1>4, <2>1, <2>2 DEF Walked, RoutingCall, SamplingLabel, Covers
<1>6. QED
  BY <1>1, <1>2, <1>3, <1>5 DEF DiscoveryInit, Init, WalksAreSound

(* Every step of discovery preserves it and is, to the registry, a step of *)
(* LiveNodes or none.                                                      *)
LEMMA StepWalks ==
    WalksAreSound /\ [DiscoveryNext]_discoveryVars => WalksAreSound' /\ [Next]_vars
<1>. SUFFICES ASSUME WalksAreSound, [DiscoveryNext]_discoveryVars
              PROVE  WalksAreSound' /\ [Next]_vars
  OBVIOUS
<1>1. ASSUME NEW t \in Thread, DiscoveryStep(t)
      PROVE  WalksAreSound' /\ [Next]_vars
  BY <1>1, BeginRefreshWalks, BeginScopeWalks, SampleWalks, AnsweredWalks, FailedWalks,
     EndScopeWalks, AdoptWalks, ReportWalks, OtherWalks DEF DiscoveryStep
<1>2. CASE UNCHANGED discoveryVars
  <2>1. UNCHANGED vars /\ UNCHANGED fetch /\ UNCHANGED steady
    BY <1>2 DEF discoveryVars
  <2>2. RoutesAreSound'
    BY <2>1, StepRoutes DEF WalksAreSound
  <2>3. QED
    BY <2>1, <2>2 DEF WalksAreSound, vars
<1>3. QED
  BY <1>1, <1>2 DEF DiscoveryNext

(* The walks of all threads stay sound.                                    *)
THEOREM WalksStaySound ==
    DiscoverySpec => []WalksAreSound
BY InitWalks, StepWalks, PTL DEF DiscoverySpec

(* The locals of FetchLiveNodes and GetNodesForScope keep their types, and *)
(* everything of the registry does: no walk leaves the chain of scopes.    *)
THEOREM FetchTypeCorrect ==
    DiscoverySpec => []FetchTypeOK
<1>1. WalksAreSound => FetchTypeOK
  BY DEF WalksAreSound, RoutesAreSound, FetchTypeOK
<1>2. QED
  BY <1>1, WalksStaySound, PTL

(* FetchLiveNodes, question by question, implements what LiveNodes says of *)
(* it, for any chain of scopes: in particular UpdateLiveNodes never comes  *)
(* to its lock with an empty list.                                         *)
THEOREM DiscoveryImplementsLiveNodes ==
    DiscoverySpec => ImplementsLiveNodes
<1>1. DiscoveryInit => Registry!Init
  BY SameInit DEF DiscoveryInit
<1>2. WalksAreSound /\ [DiscoveryNext]_discoveryVars => [Registry!Next]_(Registry!vars)
  BY StepWalks, SameNext
<1>3. QED
  BY <1>1, <1>2, WalksStaySound, PTL DEF DiscoverySpec, ImplementsLiveNodes, Registry!Spec

(* A scope is left only if all the nodes that stayed Active while it was   *)
(* walked were asked and said that it has no node.                         *)
THEOREM FallbackStaysJustified ==
    DiscoverySpec => []FallbackIsJustified
<1>1. WalksAreSound => FallbackIsJustified
  BY DEF WalksAreSound, Walks, FallbackIsJustified
<1>2. QED
  BY <1>1, WalksStaySound, PTL

(* The list that is published is the union of the lists of the scope's     *)
(* nodes, and a walk without a result heard of none.                       *)
THEOREM NoListIsEverLost ==
    DiscoverySpec => []NoListIsLost
<1>1. WalksAreSound => NoListIsLost
  BY DEF WalksAreSound, Walks, Walked, NoListIsLost, At
<1>2. QED
  BY <1>1, WalksStaySound, PTL
=============================================================================
