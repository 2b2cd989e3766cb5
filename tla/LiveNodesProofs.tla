-------------------------- MODULE LiveNodesProofs --------------------------
(***************************************************************************)
(* Theorems about LiveNodes, for any set of nodes, hashes and threads and  *)
(* any choice of the calls the threads make.                               *)
(*                                                                         *)
(* Part 1, the list and the store.  StoreTracksLiveNodes speaks of the     *)
(* moments mutex_ is free.  The inductive invariant UpdateInv says what    *)
(* holds in between: which nodes the store knows half-way through the      *)
(* loops of UpdateLiveNodes, and that the thread in these loops, and no    *)
(* other, holds mutex_.                                                    *)
(*                                                                         *)
(* Part 2, routing.  NextNode and the query plans work on snapshots        *)
(* (active, quarantined) that may be out of date by the time they return.  *)
(* What they return is bounded by what they witnessed, and the inductive   *)
(* invariant RoutesAreSound relates the two at every label: a snapshot is  *)
(* contained in what was ever usable, contains what was active all along,  *)
(* and is empty only if a moment without active nodes was seen.            *)
(***************************************************************************)
EXTENDS LiveNodes, HealthRulesProofs, FiniteSetTheorems

-----------------------------------------------------------------------------
(* Part 1.  The inductive invariant of updates.                            *)

(* A frame is a record of its ten fields, whatever their values.           *)
IsFrame(f) ==
    f = [call |-> f.call, pc |-> f.pc, active |-> f.active,
         quarantined |-> f.quarantined, todo |-> f.todo, fresh |-> f.fresh,
         removed |-> f.removed, node |-> f.node, hash |-> f.hash, result |-> f.result]

SamplingLabel == {"Active", "ActiveAgain", "Sample", "Count", "ReadQuarantined",
                  "PickQuarantined", "StickySnapshot", "StickyLookup", "Assign"}

UpdateLabel == {"AddNodes", "RemoveNodes"}

(* The frames of threads outside the section under mutex_.                 *)
Outside(f) ==
    /\ IsFrame(f)
    /\ f.pc \in SamplingLabel => f.call \in RoutingCall \cup {"Update"}
    /\ f.pc = "Fetch" => f.call = "Update"
    /\ f.pc = "Lock" => f.fresh \subseteq Node /\ f.fresh # {}
    /\ f.pc \notin UpdateLabel

(* The frame of the thread inside it, given live_nodes_ and the nodes the  *)
(* store knows.                                                            *)
Inside(f, live, known) ==
    /\ IsFrame(f)
    /\ f.fresh \subseteq Node /\ f.fresh # {}
    /\ \/ /\ f.pc = "AddNodes"
          /\ f.todo \subseteq f.fresh /\ f.todo # {}
          /\ known = live \cup (f.fresh \ f.todo)
       \/ /\ f.pc = "RemoveNodes"
          /\ f.todo \subseteq live \ f.fresh
          /\ known = f.fresh \cup f.todo

UpdateInv ==
    /\ statuses \in StatusMap
    /\ live_nodes \subseteq Node /\ live_nodes # {}
    /\ mutex \in Thread \cup {NoThread}
    /\ frame = [t \in Thread |-> frame[t]]
    /\ \A t \in Thread : IF mutex = t THEN Inside(frame[t], live_nodes, Known(statuses))
                                      ELSE Outside(frame[t])
    /\ Free => Known(statuses) = live_nodes

-----------------------------------------------------------------------------
(* A new frame has the shape of a frame.                                   *)
LEMMA NewFrameIsFrame ==
    ASSUME NEW call, NEW pc
    PROVE  /\ IsFrame(NewFrame(call, pc))
           /\ NewFrame(call, pc).call = call /\ NewFrame(call, pc).pc = pc
BY DEF IsFrame, NewFrame

(* g is a frame of the same call as f, at label pc.                        *)
Moved(f, g, pc) == IsFrame(g) /\ g.call = f.call /\ g.pc = pc

(* Assigning the label of a frame, and perhaps a field, gives such a frame. *)
LEMMA AssignedFrame ==
    ASSUME NEW f, IsFrame(f), NEW v, NEW pc
    PROVE  /\ Moved(f, [f EXCEPT !.pc = pc], pc)
           /\ Moved(f, [f EXCEPT !.active = v, !.pc = pc], pc)
           /\ Moved(f, [f EXCEPT !.quarantined = v, !.pc = pc], pc)
           /\ Moved(f, [f EXCEPT !.todo = v, !.pc = pc], pc)
           /\ Moved(f, [f EXCEPT !.pc = pc, !.node = v], pc)
           /\ Moved(f, [f EXCEPT !.pc = pc, !.result = v], pc)
<1>1. ASSUME NEW g,
             \/ g = [f EXCEPT !.pc = pc]
             \/ g = [f EXCEPT !.active = v, !.pc = pc]
             \/ g = [f EXCEPT !.quarantined = v, !.pc = pc]
             \/ g = [f EXCEPT !.todo = v, !.pc = pc]
             \/ g = [f EXCEPT !.pc = pc, !.node = v]
             \/ g = [f EXCEPT !.pc = pc, !.result = v]
      PROVE  Moved(f, g, pc)
  BY <1>1 DEF Moved, IsFrame
<1>2. QED
  BY <1>1

(* What a call goes on with after sampling is outside the section.         *)
LEMMA AfterSamplingIsOutside ==
    ASSUME NEW f, Outside(f), f.pc \in SamplingLabel, NEW picked
    PROVE  Outside(AfterSampling(f, picked))
<1>1. CASE f.call = "Update"
  <2>1. AfterSampling(f, picked) = NewFrame("Update", "Fetch")
    BY <1>1 DEF AfterSampling
  <2>2. QED
    BY <2>1, NewFrameIsFrame DEF Outside, SamplingLabel, UpdateLabel
<1>2. CASE f.call \in RoutingCall
  <2>. DEFINE g == AfterSampling(f, picked)
  <2>1. \/ g = [f EXCEPT !.pc = "Return", !.result = {picked} \ {NoNode}]
        \/ g = [f EXCEPT !.pc = "Return"]
        \/ g = [f EXCEPT !.pc = "RoundRobin"]
        \/ g = [f EXCEPT !.pc = "Return", !.node = picked,
                         !.result = f.active \cup ({picked} \ {NoNode})]
    BY <1>2 DEF AfterSampling, RoutingCall
  <2>2. IsFrame(f)
    BY DEF Outside
  <2>. HIDE DEF g
  <2>3. IsFrame(g) /\ g.pc \in {"Return", "RoundRobin"}
    BY <2>1, <2>2 DEF IsFrame
  <2>4. Outside(g)
    BY <2>3 DEF Outside, SamplingLabel, UpdateLabel
  <2>5. QED
    BY <2>4 DEF g
<1>3. QED
  BY <1>1, <1>2 DEF Outside

(* A step of a thread outside the section that keeps it outside and leaves *)
(* the node list and the set of known nodes alone preserves the invariant. *)
LEMMA AsideKeepsInv ==
    ASSUME UpdateInv, NEW t \in Thread, mutex # t, NEW g,
           frame' = [frame EXCEPT ![t] = g], Outside(g),
           UNCHANGED <<live_nodes, mutex>>,
           statuses' \in StatusMap, Known(statuses') = Known(statuses)
    PROVE  UpdateInv'
<1>1. frame' = [u \in Thread |-> IF u = t THEN g ELSE frame[u]]
  BY DEF UpdateInv
<1>2. frame' = [u \in Thread |-> frame'[u]]
  BY <1>1
<1>3. ASSUME NEW u \in Thread
      PROVE  IF mutex' = u THEN Inside(frame[u], live_nodes, Known(statuses))'
                           ELSE Outside(frame[u])'
  <2>1. CASE u = t
    BY <1>1, <2>1 DEF Outside
  <2>2. CASE u # t
    <3>1. frame'[u] = frame[u]
      BY <1>1, <2>2
    <3>2. IF mutex = u THEN Inside(frame[u], live_nodes, Known(statuses)) ELSE Outside(frame[u])
      BY DEF UpdateInv
    <3>3. QED
      BY <3>1, <3>2 DEF Inside, Outside
  <2>3. QED
    BY <2>1, <2>2
<1>4. QED
  BY <1>2, <1>3 DEF UpdateInv, Free

(* A thread at a label outside the section does not hold mutex_, and its   *)
(* frame is an outside frame.                                              *)
LEMMA OutsideThread ==
    ASSUME UpdateInv, NEW t \in Thread, frame[t].pc \notin UpdateLabel
    PROVE  mutex # t /\ Outside(frame[t])
BY DEF UpdateInv, Inside, UpdateLabel

(* The same step, for a thread whose new frame only needs to be outside;   *)
(* the store is not touched.                                               *)
LEMMA QuietStepKeepsInv ==
    ASSUME UpdateInv, NEW t \in Thread, frame[t].pc \notin UpdateLabel, NEW g,
           frame' = [frame EXCEPT ![t] = g], Outside(g),
           UNCHANGED <<statuses, live_nodes, mutex>>
    PROVE  UpdateInv'
<1>1. mutex # t
  BY OutsideThread
<1>2. statuses' \in StatusMap /\ Known(statuses') = Known(statuses)
  BY DEF UpdateInv
<1>3. QED
  BY <1>1, <1>2, AsideKeepsInv

(* The steps that begin a call.                                            *)
LEMMA BeginKeepsInv ==
    ASSUME UpdateInv, NEW t \in Thread,
           BeginRouting(t) \/ BeginReport(t) \/ BeginUpdate(t) \/ BeginProbe(t)
    PROVE  UpdateInv'
<1>. /\ UNCHANGED <<statuses, live_nodes, mutex>>
     /\ frame[t].pc \notin UpdateLabel
  BY DEF BeginRouting, BeginReport, BeginUpdate, BeginProbe, routing, At, UpdateLabel
<1>1. CASE BeginRouting(t)
  <2>1. PICK call \in RoutingCall, h \in Hash :
          frame' = [frame EXCEPT ![t] = [NewFrame(call, "Active") EXCEPT !.hash = h]]
    BY <1>1 DEF BeginRouting
  <2>2. Outside([NewFrame(call, "Active") EXCEPT !.hash = h])
    BY DEF Outside, IsFrame, NewFrame, SamplingLabel, UpdateLabel
  <2>3. QED
    BY <2>1, <2>2, QuietStepKeepsInv
<1>2. CASE BeginReport(t)
  <2>1. PICK n \in Node :
          frame' = [frame EXCEPT ![t] = [NewFrame("Report", "Report") EXCEPT !.node = n]]
    BY <1>2 DEF BeginReport
  <2>2. ASSUME NEW g, g = [NewFrame("Report", "Report") EXCEPT !.node = n]
        PROVE  IsFrame(g) /\ g.pc = "Report"
    BY <2>2 DEF NewFrame, IsFrame
  <2>3. Outside([NewFrame("Report", "Report") EXCEPT !.node = n])
    BY <2>2 DEF Outside, SamplingLabel, UpdateLabel
  <2>4. QED
    BY <2>1, <2>3, QuietStepKeepsInv
<1>3. CASE BeginUpdate(t)
  <2>1. Outside(NewFrame("Update", "Fetch"))
    BY NewFrameIsFrame DEF Outside, SamplingLabel, UpdateLabel
  <2>2. QED
    BY <1>3, <2>1, QuietStepKeepsInv DEF BeginUpdate
<1>4. CASE BeginProbe(t)
  <2>1. Outside(NewFrame("Probe", "ProbeSnapshot"))
    BY NewFrameIsFrame DEF Outside, SamplingLabel, UpdateLabel
  <2>2. QED
    BY <1>4, <2>1, QuietStepKeepsInv DEF BeginProbe
<1>5. QED
  BY <1>1, <1>2, <1>3, <1>4

(* A frame that only moves to a label with no conditions, or to one more   *)
(* sampling step, stays outside, whatever else changes in it.              *)
LEMMA MovedFrameIsOutside ==
    ASSUME NEW f, Outside(f), NEW pc, NEW g, Moved(f, g, pc),
           \/ pc \notin SamplingLabel \cup UpdateLabel \cup {"Fetch", "Lock"}
           \/ pc \in SamplingLabel /\ f.pc \in SamplingLabel \cup {"Fetch"}
    PROVE  Outside(g)
BY DEF Outside, Moved, SamplingLabel, UpdateLabel

(* The steps of a routing call, and of discovery's own plan.               *)
LEMMA RoutingKeepsInv ==
    ASSUME UpdateInv, NEW t \in Thread,
           \/ SnapshotActive(t) \/ SnapshotActiveAgain(t) \/ Sample(t) \/ CountAttempt(t)
           \/ ReadQuarantined(t) \/ PickQuarantined(t) \/ RoundRobin(t) \/ StickySnapshot(t)
           \/ StickyLookup(t) \/ Assign(t) \/ Return(t)
    PROVE  UpdateInv'
<1>. DEFINE f == frame[t]
<1>1. /\ UNCHANGED <<statuses, live_nodes, mutex>>
      /\ f.pc \notin UpdateLabel
      /\ f.pc \in SamplingLabel \cup {"RoundRobin", "Return"}
  BY DEF SnapshotActive, SnapshotActiveAgain, Sample, CountAttempt, ReadQuarantined,
         PickQuarantined, RoundRobin, StickySnapshot, StickyLookup, Assign, Return,
         routing, At, UpdateLabel, SamplingLabel
<1>2. Outside(f) /\ IsFrame(f)
  BY <1>1, OutsideThread DEF Outside
<1>3. frame = [u \in Thread |-> frame[u]]
  BY DEF UpdateInv
<1>4. ASSUME f.pc \in SamplingLabel, NEW picked
      PROVE  Outside(AfterSampling(f, picked))
  BY <1>2, <1>4, AfterSamplingIsOutside
<1>5. SUFFICES \E g : frame' = [frame EXCEPT ![t] = g] /\ Outside(g)
  BY <1>1, QuietStepKeepsInv
<1>6. CASE SnapshotActive(t)
  <2>. DEFINE pc == CASE f.call = "HashPlan" -> "StickySnapshot"
                      [] f.call = "NextNode" /\ GetActiveNodes(statuses) = {} -> "ProbeSnapshot"
                      [] OTHER -> "Sample"
              g == [f EXCEPT !.active = GetActiveNodes(statuses), !.pc = pc]
  <2>1. frame' = [frame EXCEPT ![t] = g]
    BY <1>3, <1>6 DEF SnapshotActive
  <2>2. f.pc = "Active" /\ pc \in {"StickySnapshot", "ProbeSnapshot", "Sample"}
    BY <1>6 DEF SnapshotActive, At
  <2>. HIDE DEF pc
  <2>3. Moved(f, g, pc)
    BY <1>2, AssignedFrame
  <2>4. Outside(g)
    BY <1>2, <2>2, <2>3, MovedFrameIsOutside DEF SamplingLabel, UpdateLabel
  <2>5. QED
    BY <2>1, <2>4
<1>7. CASE SnapshotActiveAgain(t)
  <2>. DEFINE g == [f EXCEPT !.active = GetActiveNodes(statuses), !.pc = "Sample"]
  <2>1. frame' = [frame EXCEPT ![t] = g] /\ f.pc = "ActiveAgain"
    BY <1>3, <1>7 DEF SnapshotActiveAgain, At
  <2>2. Moved(f, g, "Sample")
    BY <1>2, AssignedFrame
  <2>3. Outside(g)
    BY <1>2, <2>1, <2>2, MovedFrameIsOutside DEF SamplingLabel
  <2>4. QED
    BY <2>1, <2>3
<1>8. CASE Sample(t)
  <2>1. f.pc = "Sample"
    BY <1>8 DEF Sample, At
  <2>2. ASSUME NEW pc \in {"ReadQuarantined", "Count"}
        PROVE  Outside([f EXCEPT !.pc = pc])
    <3>1. Moved(f, [f EXCEPT !.pc = pc], pc)
      BY <1>2, AssignedFrame
    <3>2. QED
      BY <1>2, <2>1, <3>1, MovedFrameIsOutside DEF SamplingLabel
  <2>3. Outside(AfterSampling(f, NoNode))
    BY <1>4, <2>1 DEF SamplingLabel
  <2>4. QED
    BY <1>8, <2>2, <2>3 DEF Sample
<1>9. CASE CountAttempt(t)
  <2>1. f.pc = "Count"
    BY <1>9 DEF CountAttempt, At
  <2>2. Outside(AfterSampling(f, NoNode))
    BY <1>4, <2>1 DEF SamplingLabel
  <2>3. Moved(f, [f EXCEPT !.pc = "ReadQuarantined"], "ReadQuarantined")
    BY <1>2, AssignedFrame
  <2>4. Outside([f EXCEPT !.pc = "ReadQuarantined"])
    BY <1>2, <2>1, <2>3, MovedFrameIsOutside DEF SamplingLabel
  <2>5. QED
    BY <1>9, <2>2, <2>4 DEF CountAttempt
<1>10. CASE ReadQuarantined(t)
  <2>. DEFINE g == [f EXCEPT !.quarantined = GetQuarantinedNodes(statuses),
                             !.pc = "PickQuarantined"]
  <2>1. f.pc = "ReadQuarantined"
    BY <1>10 DEF ReadQuarantined, At
  <2>2. Outside(AfterSampling(f, NoNode))
    BY <1>4, <2>1 DEF SamplingLabel
  <2>3. Moved(f, g, "PickQuarantined")
    BY <1>2, AssignedFrame
  <2>4. Outside(g)
    BY <1>2, <2>1, <2>3, MovedFrameIsOutside DEF SamplingLabel
  <2>5. QED
    BY <1>10, <2>2, <2>4 DEF ReadQuarantined
<1>11. CASE PickQuarantined(t)
  <2>. DEFINE n == Element(f.quarantined, quarantine_node_index % Cardinality(f.quarantined))
              g == [f EXCEPT !.pc = "Assign", !.node = n]
  <2>1. f.pc = "PickQuarantined"
    BY <1>11 DEF PickQuarantined, At
  <2>2. Outside(AfterSampling(f, NoNode)) /\ Outside(AfterSampling(f, n))
    BY <1>4, <2>1 DEF SamplingLabel
  <2>3. \/ frame' = [frame EXCEPT ![t] = AfterSampling(f, n)]
        \/ frame' = [frame EXCEPT ![t] = g]
        \/ frame' = [frame EXCEPT ![t] = AfterSampling(f, NoNode)]
    BY <1>11 DEF PickQuarantined
  <2>. HIDE DEF n
  <2>4. Moved(f, g, "Assign")
    BY <1>2, AssignedFrame
  <2>5. Outside(g)
    BY <1>2, <2>1, <2>4, MovedFrameIsOutside DEF SamplingLabel
  <2>6. QED
    BY <2>2, <2>3, <2>5
<1>12. CASE RoundRobin(t)
  <2>. DEFINE n == Element(f.active, next_node_index % Cardinality(f.active))
              g == [f EXCEPT !.pc = "Return", !.result = {n}]
  <2>1. frame' = [frame EXCEPT ![t] = g]
    BY <1>3, <1>12 DEF RoundRobin
  <2>. HIDE DEF n
  <2>2. Moved(f, g, "Return")
    BY <1>2, AssignedFrame
  <2>3. Outside(g)
    BY <1>2, <2>2, MovedFrameIsOutside DEF SamplingLabel, UpdateLabel
  <2>4. QED
    BY <2>1, <2>3
<1>13. CASE StickySnapshot(t)
  <2>. DEFINE g == [f EXCEPT !.quarantined = GetQuarantinedNodes(statuses),
                             !.pc = "StickyLookup"]
  <2>1. frame' = [frame EXCEPT ![t] = g] /\ f.pc = "StickySnapshot"
    BY <1>3, <1>13 DEF StickySnapshot, At
  <2>2. Moved(f, g, "StickyLookup")
    BY <1>2, AssignedFrame
  <2>3. Outside(g)
    BY <1>2, <2>1, <2>2, MovedFrameIsOutside DEF SamplingLabel
  <2>4. QED
    BY <2>1, <2>3
<1>14. CASE StickyLookup(t)
  <2>. DEFINE g == [f EXCEPT !.pc = "Sample"]
  <2>1. f.pc = "StickyLookup"
    BY <1>14 DEF StickyLookup, At
  <2>2. \/ \E picked : frame' = [frame EXCEPT ![t] = AfterSampling(f, picked)]
        \/ frame' = [frame EXCEPT ![t] = g]
    BY <1>3, <1>14 DEF StickyLookup
  <2>3. \A picked : Outside(AfterSampling(f, picked))
    BY <1>4, <2>1 DEF SamplingLabel
  <2>4. Moved(f, g, "Sample")
    BY <1>2, AssignedFrame
  <2>5. Outside(g)
    BY <1>2, <2>1, <2>4, MovedFrameIsOutside DEF SamplingLabel
  <2>6. QED
    BY <2>2, <2>3, <2>5
<1>15. CASE Assign(t)
  <2>1. Outside(AfterSampling(f, f.node))
    BY <1>4, <1>15 DEF Assign, At, SamplingLabel
  <2>2. QED
    BY <1>15, <2>1 DEF Assign
<1>16. CASE Return(t)
  <2>1. Outside(IdleFrame)
    BY NewFrameIsFrame DEF IdleFrame, Outside, SamplingLabel, UpdateLabel
  <2>2. QED
    BY <1>16, <2>1 DEF Return
<1>17. QED
  BY <1>6, <1>7, <1>8, <1>9, <1>10, <1>11, <1>12, <1>13, <1>14, <1>15, <1>16

(* The steps of ReportNodeResult.                                          *)
LEMMA ReportKeepsInv ==
    ASSUME UpdateInv, NEW t \in Thread,
           ReportToStore(t) \/ ReportStatus(t) \/ ReportForget(t)
    PROVE  UpdateInv'
<1>. DEFINE f == frame[t]
<1>1. /\ UNCHANGED <<live_nodes, mutex>>
      /\ f.pc \in {"Report", "ReportStatus", "Forget"}
      /\ f.pc \notin UpdateLabel
  BY DEF ReportToStore, ReportStatus, ReportForget, routing, At, UpdateLabel
<1>2. mutex # t /\ Outside(f) /\ IsFrame(f)
  BY <1>1, OutsideThread DEF Outside
<1>3. frame = [u \in Thread |-> frame[u]] /\ statuses \in StatusMap
  BY DEF UpdateInv
<1>4. \A pc : Moved(f, [f EXCEPT !.pc = pc], pc)
  BY <1>2, AssignedFrame
<1>5. Outside(AfterReport(f))
  BY NewFrameIsFrame DEF AfterReport, IdleFrame, Outside, SamplingLabel, UpdateLabel
<1>6. CASE ReportToStore(t)
  <2>1. PICK o \in NodeHealthObservation : statuses' = ReportResult(statuses, f.node, o)
    BY <1>6 DEF ReportToStore
  <2>2. statuses' \in StatusMap /\ Known(statuses') = Known(statuses)
    BY <1>3, <2>1, ReportKeepsKnown
  <2>3. frame' = [frame EXCEPT ![t] = [f EXCEPT !.pc = "ReportStatus"]]
    BY <1>3, <1>6 DEF ReportToStore
  <2>4. Outside([f EXCEPT !.pc = "ReportStatus"])
    BY <1>2, <1>4, MovedFrameIsOutside DEF SamplingLabel, UpdateLabel
  <2>5. QED
    BY <1>1, <1>2, <2>2, <2>3, <2>4, AsideKeepsInv
<1>7. CASE ReportStatus(t)
  <2>1. Outside([f EXCEPT !.pc = "Forget"])
    BY <1>2, <1>4, MovedFrameIsOutside DEF SamplingLabel, UpdateLabel
  <2>2. \E g : frame' = [frame EXCEPT ![t] = g] /\ Outside(g)
    BY <1>5, <1>7, <2>1 DEF ReportStatus
  <2>3. UNCHANGED statuses
    BY <1>7 DEF ReportStatus
  <2>4. QED
    BY <1>1, <2>2, <2>3, QuietStepKeepsInv
<1>8. CASE ReportForget(t)
  <2>1. frame' = [frame EXCEPT ![t] = AfterReport(f)] /\ UNCHANGED statuses
    BY <1>8 DEF ReportForget
  <2>2. QED
    BY <1>1, <1>5, <2>1, QuietStepKeepsInv
<1>9. QED
  BY <1>6, <1>7, <1>8

(* The steps of FetchLiveNodes: its outcome is a non-empty set of nodes    *)
(* wherever the update goes on to lock.                                    *)
LEMMA FetchKeepsInv ==
    ASSUME UpdateInv, NEW t \in Thread,
           FetchPlan(t) \/ FetchError(t) \/ FetchResult(t)
    PROVE  UpdateInv'
<1>. DEFINE f == frame[t]
<1>1. /\ UNCHANGED <<statuses, live_nodes, mutex>>
      /\ f.pc = "Fetch" /\ f.pc \notin UpdateLabel
  BY DEF FetchPlan, FetchError, FetchResult, routing, At, UpdateLabel
<1>2. Outside(f) /\ IsFrame(f)
  BY <1>1, OutsideThread DEF Outside
<1>3. frame = [u \in Thread |-> frame[u]]
  BY DEF UpdateInv
<1>4. SUFFICES \E g : frame' = [frame EXCEPT ![t] = g] /\ Outside(g)
  BY <1>1, QuietStepKeepsInv
<1>5. CASE FetchPlan(t)
  <2>1. frame' = [frame EXCEPT ![t] = [f EXCEPT !.pc = "Active"]]
    BY <1>3, <1>5 DEF FetchPlan
  <2>2. Moved(f, [f EXCEPT !.pc = "Active"], "Active")
    BY <1>2, AssignedFrame
  <2>3. Outside([f EXCEPT !.pc = "Active"])
    BY <1>1, <1>2, <2>2, MovedFrameIsOutside DEF SamplingLabel
  <2>4. QED
    BY <2>1, <2>3
<1>6. CASE FetchError(t)
  <2>1. PICK n \in Node : frame' = [frame EXCEPT ![t] = [f EXCEPT !.pc = "Report", !.node = n]]
    BY <1>3, <1>6 DEF FetchError
  <2>2. Moved(f, [f EXCEPT !.pc = "Report", !.node = n], "Report")
    BY <1>2, AssignedFrame
  <2>3. Outside([f EXCEPT !.pc = "Report", !.node = n])
    BY <1>2, <2>2, MovedFrameIsOutside DEF SamplingLabel, UpdateLabel
  <2>4. QED
    BY <2>1, <2>3
<1>7. CASE FetchResult(t)
  <2>1. Outside(IdleFrame)
    BY NewFrameIsFrame DEF IdleFrame, Outside, SamplingLabel, UpdateLabel
  <2>2. Moved(f, [f EXCEPT !.pc = "ProbeSnapshot"], "ProbeSnapshot")
    BY <1>2, AssignedFrame
  <2>3. Outside([f EXCEPT !.pc = "ProbeSnapshot"])
    BY <1>2, <2>2, MovedFrameIsOutside DEF SamplingLabel, UpdateLabel
  <2>4. ASSUME NEW fresh \in (SUBSET Node) \ {{}}, NEW g,
               g = [f EXCEPT !.pc = "Lock", !.fresh = fresh]
        PROVE  Outside(g)
    <3>1. IsFrame(g) /\ g.pc = "Lock" /\ g.fresh = fresh
      BY <1>2, <2>4 DEF IsFrame
    <3>2. QED
      BY <3>1 DEF Outside, SamplingLabel, UpdateLabel
  <2>5. \/ frame' = [frame EXCEPT ![t] = IdleFrame]
        \/ frame' = [frame EXCEPT ![t] = [f EXCEPT !.pc = "ProbeSnapshot"]]
        \/ \E fresh \in (SUBSET Node) \ {{}} :
             frame' = [frame EXCEPT ![t] = [f EXCEPT !.pc = "Lock", !.fresh = fresh]]
    BY <1>3, <1>7 DEF FetchResult
  <2>6. QED
    BY <2>1, <2>3, <2>4, <2>5
<1>8. QED
  BY <1>5, <1>6, <1>7

(* A step of the thread that takes, holds or releases mutex_.              *)
LEMMA HolderKeepsInv ==
    ASSUME UpdateInv, NEW t \in Thread, mutex \in {t, NoThread}, NEW g,
           frame' = [frame EXCEPT ![t] = g],
           statuses' \in StatusMap, live_nodes' \subseteq Node, live_nodes' # {},
           \/ mutex' = t /\ Inside(g, live_nodes', Known(statuses'))
           \/ mutex' = NoThread /\ Outside(g) /\ Known(statuses') = live_nodes'
    PROVE  UpdateInv'
<1>1. frame' = [u \in Thread |-> IF u = t THEN g ELSE frame[u]]
  BY DEF UpdateInv
<1>2. frame' = [u \in Thread |-> frame'[u]]
  BY <1>1
<1>3. NoThread \notin Thread
  BY LiveNodesAssumption
<1>4. ASSUME NEW u \in Thread
      PROVE  IF mutex' = u THEN Inside(frame'[u], live_nodes', Known(statuses'))
                           ELSE Outside(frame'[u])
  <2>1. CASE u = t
    BY <1>1, <1>3, <2>1
  <2>2. CASE u # t
    <3>1. frame'[u] = frame[u] /\ mutex # u /\ mutex' # u
      BY <1>1, <1>3, <2>2
    <3>2. Outside(frame[u])
      BY <3>1 DEF UpdateInv
    <3>3. QED
      BY <3>1, <3>2
  <2>3. QED
    BY <2>1, <2>2
<1>5. mutex' \in Thread \cup {NoThread} /\ (Free' => Known(statuses') = live_nodes')
  BY <1>3 DEF Free
<1>6. QED
  BY <1>2, <1>4, <1>5 DEF UpdateInv

(* A thread inside the section holds mutex_.                               *)
LEMMA InsideThread ==
    ASSUME UpdateInv, NEW t \in Thread, frame[t].pc \in UpdateLabel
    PROVE  mutex = t /\ Inside(frame[t], live_nodes, Known(statuses))
BY DEF UpdateInv, Outside

(* Acquiring mutex_: nothing has been added yet.                           *)
LEMMA LockKeepsInv ==
    ASSUME UpdateInv, NEW t \in Thread, LockNodes(t)
    PROVE  UpdateInv'
<1>. DEFINE f == frame[t]
            h == [f EXCEPT !.pc = "AddNodes", !.todo = f.fresh]
<1>1. /\ f.pc = "Lock" /\ mutex = NoThread /\ mutex' = t
      /\ UNCHANGED <<statuses, live_nodes>>
      /\ Known(statuses) = live_nodes
  BY DEF LockNodes, At, Free, UpdateInv
<1>2. IsFrame(f) /\ f.fresh \subseteq Node /\ f.fresh # {}
  <2>1. Outside(f)
    BY <1>1, OutsideThread DEF UpdateLabel
  <2>2. QED
    BY <1>1, <2>1 DEF Outside
<1>3. frame' = [frame EXCEPT ![t] = h]
  BY DEF LockNodes, UpdateInv
<1>4. ASSUME NEW g, g = h
      PROVE  IsFrame(g) /\ g.pc = "AddNodes" /\ g.todo = f.fresh /\ g.fresh = f.fresh
  BY <1>2, <1>4 DEF IsFrame
<1>. HIDE DEF h
<1>5. Inside(h, live_nodes', Known(statuses'))
  BY <1>1, <1>2, <1>4 DEF Inside
<1>6. live_nodes' \subseteq Node /\ live_nodes' # {} /\ statuses' \in StatusMap
  BY <1>1 DEF UpdateInv
<1>7. QED
  BY <1>1, <1>3, <1>5, <1>6, HolderKeepsInv

(* One round of the loop over new_nodes; the last one turns to the nodes   *)
(* to remove.                                                              *)
LEMMA AddKeepsInv ==
    ASSUME UpdateInv, NEW t \in Thread, AddNextNode(t)
    PROVE  UpdateInv'
<1>. DEFINE f == frame[t]
            n == Least(f.todo)
            rest == f.todo \ {n}
            todo == IF rest = {} THEN live_nodes \ f.fresh ELSE rest
            pc == IF rest = {} THEN "RemoveNodes" ELSE "AddNodes"
            h == [f EXCEPT !.todo = todo, !.pc = pc]
<1>1. f.pc = "AddNodes" /\ UNCHANGED <<live_nodes, mutex>> /\ statuses' = AddNode(statuses, n)
  BY DEF AddNextNode, At, routing
<1>2. mutex = t /\ Inside(f, live_nodes, Known(statuses))
  BY <1>1, InsideThread DEF UpdateLabel
<1>3. /\ IsFrame(f)
      /\ f.fresh \subseteq Node /\ f.fresh # {}
      /\ f.todo \subseteq f.fresh /\ f.todo # {}
      /\ Known(statuses) = live_nodes \cup (f.fresh \ f.todo)
  BY <1>1, <1>2 DEF Inside
<1>4. n \in f.todo /\ n \in Node
  BY <1>3, LeastIsMember, NodeAssumption
<1>5. statuses' \in StatusMap /\ Known(statuses') = Known(statuses) \cup {n}
  BY <1>1, <1>4, AddAndRemoveKnown DEF UpdateInv
<1>6. frame' = [frame EXCEPT ![t] = h]
  BY DEF AddNextNode, UpdateInv
<1>. HIDE DEF n
<1>7. ASSUME NEW g, g = h
      PROVE  IsFrame(g) /\ g.pc = pc /\ g.todo = todo /\ g.fresh = f.fresh
  <2>. HIDE DEF todo, pc, f
  <2>1. QED
    BY <1>3, <1>7 DEF IsFrame
<1>. HIDE DEF h
<1>8. Inside(h, live_nodes', Known(statuses'))
  <2>1. CASE rest = {}
    <3>1. Known(statuses') = f.fresh \cup (live_nodes \ f.fresh)
      BY <1>3, <1>4, <1>5, <2>1
    <3>2. QED
      BY <1>1, <1>3, <1>7, <2>1, <3>1 DEF Inside
  <2>2. CASE rest # {}
    <3>1. Known(statuses') = live_nodes \cup (f.fresh \ rest)
      BY <1>3, <1>4, <1>5
    <3>2. QED
      BY <1>1, <1>3, <1>7, <2>2, <3>1 DEF Inside
  <2>3. QED
    BY <2>1, <2>2
<1>9. live_nodes' \subseteq Node /\ live_nodes' # {}
  BY <1>1 DEF UpdateInv
<1>10. QED
  BY <1>1, <1>2, <1>5, <1>6, <1>8, <1>9, HolderKeepsInv

(* One round of the loop over the nodes to remove.                         *)
LEMMA RemoveKeepsInv ==
    ASSUME UpdateInv, NEW t \in Thread, RemoveNextNode(t)
    PROVE  UpdateInv'
<1>. DEFINE f == frame[t]
            n == Least(f.todo)
            todo == f.todo \ {n}
            removed == f.removed \cup {n}
            h == [f EXCEPT !.todo = todo, !.removed = removed]
<1>1. /\ f.pc = "RemoveNodes" /\ f.todo # {}
      /\ UNCHANGED <<live_nodes, mutex>> /\ statuses' = RemoveNode(statuses, n)
  BY DEF RemoveNextNode, At, routing
<1>2. mutex = t /\ Inside(f, live_nodes, Known(statuses))
  BY <1>1, InsideThread DEF UpdateLabel
<1>3. /\ IsFrame(f)
      /\ f.fresh \subseteq Node /\ f.fresh # {}
      /\ f.todo \subseteq live_nodes \ f.fresh
      /\ Known(statuses) = f.fresh \cup f.todo
  BY <1>1, <1>2 DEF Inside
<1>4. live_nodes' \subseteq Node /\ live_nodes' # {}
  BY <1>1 DEF UpdateInv
<1>5. n \in f.todo /\ n \in Node
  BY <1>1, <1>3, <1>4, LeastIsMember, NodeAssumption
<1>6. statuses' \in StatusMap /\ Known(statuses') = Known(statuses) \ {n}
  BY <1>1, <1>5, AddAndRemoveKnown DEF UpdateInv
<1>7. frame' = [frame EXCEPT ![t] = h]
  BY DEF RemoveNextNode, UpdateInv
<1>. HIDE DEF n
<1>8. ASSUME NEW g, g = h
      PROVE  IsFrame(g) /\ g.pc = f.pc /\ g.todo = todo /\ g.fresh = f.fresh
  <2>. HIDE DEF todo, removed, f
  <2>1. QED
    BY <1>3, <1>8 DEF IsFrame
<1>. HIDE DEF h
<1>9. Known(statuses') = f.fresh \cup todo
  BY <1>3, <1>5, <1>6
<1>10. Inside(h, live_nodes', Known(statuses'))
  BY <1>1, <1>3, <1>8, <1>9 DEF Inside
<1>11. QED
  BY <1>1, <1>2, <1>4, <1>6, <1>7, <1>10, HolderKeepsInv

(* Publication: the store knows exactly the new nodes by now.              *)
LEMMA PublishKeepsInv ==
    ASSUME UpdateInv, NEW t \in Thread, PublishNodes(t)
    PROVE  UpdateInv'
<1>. DEFINE f == frame[t]
            h == [f EXCEPT !.pc = "ForgetRemoved"]
<1>1. /\ f.pc = "RemoveNodes" /\ f.todo = {} /\ UNCHANGED statuses
      /\ mutex' = NoThread /\ live_nodes' = f.fresh
  BY DEF PublishNodes, At
<1>2. mutex = t /\ Inside(f, live_nodes, Known(statuses))
  BY <1>1, InsideThread DEF UpdateLabel
<1>3. /\ IsFrame(f) /\ f.fresh \subseteq Node /\ f.fresh # {}
      /\ Known(statuses) = f.fresh
  BY <1>1, <1>2 DEF Inside
<1>4. statuses' \in StatusMap /\ Known(statuses') = live_nodes'
  BY <1>1, <1>3 DEF UpdateInv
<1>5. frame' = [frame EXCEPT ![t] = h]
  BY DEF PublishNodes, UpdateInv
<1>6. Moved(f, h, "ForgetRemoved")
  BY <1>3, AssignedFrame
<1>. HIDE DEF h
<1>7. Outside(h)
  BY <1>6 DEF Moved, Outside, SamplingLabel, UpdateLabel
<1>8. QED
  BY <1>1, <1>2, <1>3, <1>4, <1>5, <1>7, HolderKeepsInv

(* The steps after publication.                                            *)
LEMMA ForgetKeepsInv ==
    ASSUME UpdateInv, NEW t \in Thread, ForgetRemoved(t)
    PROVE  UpdateInv'
<1>. DEFINE f == frame[t]
<1>1. /\ f.pc = "ForgetRemoved" /\ f.pc \notin UpdateLabel
      /\ UNCHANGED <<statuses, live_nodes, mutex>>
  BY DEF ForgetRemoved, At, UpdateLabel
<1>2. Outside(f) /\ IsFrame(f)
  BY <1>1, OutsideThread DEF Outside
<1>3. \/ frame' = [frame EXCEPT ![t] = [f EXCEPT !.removed = f.removed \ {Least(f.removed)}]]
      \/ frame' = [frame EXCEPT ![t] = [f EXCEPT !.pc = "ProbeSnapshot"]]
  BY DEF ForgetRemoved, UpdateInv
<1>4. ASSUME NEW v, NEW g, g = [f EXCEPT !.removed = v]
      PROVE  Outside(g)
  <2>1. Moved(f, g, f.pc)
    BY <1>2, <1>4 DEF Moved, IsFrame
  <2>2. QED
    BY <1>1, <1>2, <2>1, MovedFrameIsOutside DEF SamplingLabel
<1>5. Moved(f, [f EXCEPT !.pc = "ProbeSnapshot"], "ProbeSnapshot")
  BY <1>2, AssignedFrame
<1>6. Outside([f EXCEPT !.pc = "ProbeSnapshot"])
  BY <1>2, <1>5, MovedFrameIsOutside DEF SamplingLabel, UpdateLabel
<1>7. \E g : frame' = [frame EXCEPT ![t] = g] /\ Outside(g)
  BY <1>3, <1>4, <1>6
<1>8. QED
  BY <1>1, <1>7, QuietStepKeepsInv

(* The steps of ProbeDownNodes.                                            *)
LEMMA ProbeKeepsInv ==
    ASSUME UpdateInv, NEW t \in Thread,
           ProbeSnapshot(t) \/ ProbeLookup(t) \/ ProbeReport(t)
    PROVE  UpdateInv'
<1>. DEFINE f == frame[t]
<1>1. /\ UNCHANGED <<live_nodes, mutex>>
      /\ f.pc \in {"ProbeSnapshot", "ProbeLookup", "ProbeReport"}
      /\ f.pc \notin UpdateLabel
  BY DEF ProbeSnapshot, ProbeLookup, ProbeReport, routing, At, UpdateLabel
<1>2. mutex # t /\ Outside(f) /\ IsFrame(f)
  BY <1>1, OutsideThread DEF Outside
<1>3. frame = [u \in Thread |-> frame[u]] /\ statuses \in StatusMap
  BY DEF UpdateInv
<1>4. CASE ProbeSnapshot(t)
  <2>. DEFINE g == [f EXCEPT !.todo = GetDownNodes(statuses), !.pc = "ProbeLookup"]
  <2>1. frame' = [frame EXCEPT ![t] = g] /\ UNCHANGED statuses
    BY <1>3, <1>4 DEF ProbeSnapshot
  <2>2. Moved(f, g, "ProbeLookup")
    BY <1>2, AssignedFrame
  <2>3. Outside(g)
    BY <1>2, <2>2, MovedFrameIsOutside DEF SamplingLabel, UpdateLabel
  <2>4. QED
    BY <1>1, <2>1, <2>3, QuietStepKeepsInv
<1>5. CASE ProbeLookup(t)
  <2>1. ASSUME NEW v, NEW n, NEW pc \in {"ProbeLookup", "ProbeReport"}, NEW g,
               g = [f EXCEPT !.todo = v, !.node = n, !.pc = pc]
        PROVE  Outside(g)
    <3>1. Moved(f, g, pc)
      BY <1>2, <2>1 DEF Moved, IsFrame
    <3>2. QED
      BY <1>2, <3>1, MovedFrameIsOutside DEF SamplingLabel, UpdateLabel
  <2>2. Outside(IdleFrame) /\ Outside(NewFrame("NextNode", "ActiveAgain"))
    BY NewFrameIsFrame DEF IdleFrame, Outside, SamplingLabel, UpdateLabel, RoutingCall
  <2>3. \/ \E v, n : \E pc \in {"ProbeLookup", "ProbeReport"} :
             frame' = [frame EXCEPT ![t] = [f EXCEPT !.todo = v, !.node = n, !.pc = pc]]
        \/ frame' = [frame EXCEPT ![t] = NewFrame("NextNode", "ActiveAgain")]
        \/ frame' = [frame EXCEPT ![t] = IdleFrame]
    <3>. DEFINE n == Least(f.todo)
                v == f.todo \ {n}
                node == IF statuses[n] = NoStatus THEN NoNode ELSE n
                pc == IF statuses[n] = NoStatus THEN "ProbeLookup" ELSE "ProbeReport"
    <3>1. \/ frame' = [frame EXCEPT ![t] = [f EXCEPT !.todo = v, !.node = node, !.pc = pc]]
          \/ frame' = [frame EXCEPT ![t] = NewFrame("NextNode", "ActiveAgain")]
          \/ frame' = [frame EXCEPT ![t] = IdleFrame]
      BY <1>3, <1>5 DEF ProbeLookup
    <3>2. pc \in {"ProbeLookup", "ProbeReport"}
      OBVIOUS
    <3>. HIDE DEF v, node, pc
    <3>3. QED
      BY <3>1, <3>2
  <2>4. \E g : frame' = [frame EXCEPT ![t] = g] /\ Outside(g)
    BY <2>1, <2>2, <2>3
  <2>5. UNCHANGED statuses
    BY <1>5 DEF ProbeLookup
  <2>6. QED
    BY <1>1, <2>4, <2>5, QuietStepKeepsInv
<1>6. CASE ProbeReport(t)
  <2>. DEFINE g == [f EXCEPT !.pc = "ProbeLookup", !.node = NoNode]
  <2>1. PICK o \in NodeHealthObservation : statuses' = ReportResult(statuses, f.node, o)
    BY <1>6 DEF ProbeReport
  <2>2. statuses' \in StatusMap /\ Known(statuses') = Known(statuses)
    BY <1>3, <2>1, ReportKeepsKnown
  <2>3. frame' = [frame EXCEPT ![t] = g]
    BY <1>3, <1>6 DEF ProbeReport
  <2>4. Moved(f, g, "ProbeLookup")
    BY <1>2, AssignedFrame
  <2>5. Outside(g)
    BY <1>2, <2>4, MovedFrameIsOutside DEF SamplingLabel, UpdateLabel
  <2>6. QED
    BY <1>1, <1>2, <2>2, <2>3, <2>5, AsideKeepsInv
<1>7. QED
  BY <1>4, <1>5, <1>6

-----------------------------------------------------------------------------
(* The invariant.                                                          *)

(* It holds when the constructor is done.                                  *)
LEMMA InitUpdateInv ==
    Init => UpdateInv
<1>. SUFFICES ASSUME Init PROVE UpdateInv
  OBVIOUS
<1>1. InitialNode \subseteq Node /\ InitialNode # {} /\ NoThread \notin Thread
  BY LiveNodesAssumption
<1>2. NewStatus \in NodeHealthStatus /\ NewStatus # NoStatus
  BY Thresholds, KnownIsNotAbsent DEF NewStatus, NodeHealthStatus, NodeHealthState
<1>3. statuses \in StatusMap /\ Known(statuses) = InitialNode
  BY <1>1, <1>2 DEF Init, NewStore, StatusMap, Known
<1>4. Outside(IdleFrame)
  BY NewFrameIsFrame DEF IdleFrame, Outside, SamplingLabel, UpdateLabel
<1>5. frame = [t \in Thread |-> frame[t]] /\ \A t \in Thread : frame[t] = IdleFrame
  BY DEF Init
<1>6. QED
  BY <1>1, <1>3, <1>4, <1>5 DEF Init, UpdateInv

(* Every step preserves it.                                                *)
LEMMA StepUpdateInv ==
    UpdateInv /\ [Next]_vars => UpdateInv'
<1>. SUFFICES ASSUME UpdateInv, [Next]_vars PROVE UpdateInv'
  OBVIOUS
<1>1. ASSUME NEW t \in Thread, Step(t)
      PROVE  UpdateInv'
  BY <1>1, BeginKeepsInv, RoutingKeepsInv, ReportKeepsInv, FetchKeepsInv, LockKeepsInv,
     AddKeepsInv, RemoveKeepsInv, PublishKeepsInv, ForgetKeepsInv, ProbeKeepsInv DEF Step
<1>2. CASE UNCHANGED vars
  BY <1>2 DEF vars, routing, UpdateInv, Inside, Outside, Free
<1>3. QED
  BY <1>1, <1>2 DEF Next

(* It gives StoreTracksLiveNodes: in the section, the store knows the live *)
(* nodes while nodes are added and the new ones while others are removed.  *)
LEMMA UpdateInvSuffices ==
    UpdateInv => StoreTracksLiveNodes
<1>. SUFFICES ASSUME UpdateInv PROVE StoreTracksLiveNodes
  OBVIOUS
<1>1. CASE Free
  BY <1>1 DEF UpdateInv, StoreTracksLiveNodes
<1>2. CASE ~Free
  <2>1. mutex \in Thread /\ Inside(frame[mutex], live_nodes, Known(statuses))
    BY <1>2 DEF UpdateInv, Free
  <2>2. Known(statuses) # {} /\ live_nodes # {}
    BY <2>1 DEF Inside, UpdateInv
  <2>3. QED
    BY <1>2, <2>2 DEF StoreTracksLiveNodes
<1>3. QED
  BY <1>1, <1>2

(* However the refreshes, reports, probes and routing calls of any number  *)
(* of threads interleave, the health store and live_nodes_ agree whenever  *)
(* mutex_ is free, and neither is ever empty: UpdateLiveNodes applies a    *)
(* node list as a whole.                                                   *)
THEOREM StoreAlwaysTracksLiveNodes ==
    Spec => []StoreTracksLiveNodes
BY InitUpdateInv, StepUpdateInv, UpdateInvSuffices, PTL DEF Spec

-----------------------------------------------------------------------------
(* Part 2.  The inductive invariant of routing.                            *)

(* The labels of a call between its snapshot of the active nodes and its   *)
(* result.                                                                 *)
Snapshotted == {"Sample", "Count", "ReadQuarantined", "PickQuarantined", "RoundRobin",
                "StickySnapshot", "StickyLookup", "Assign"}

(* Which calls come to which label, and which snapshots are not empty.     *)
Placed(f) ==
    /\ f.pc \in SamplingLabel => f.call \in RoutingCall \cup {"Update"}
    /\ f.pc = "Fetch" => f.call = "Update"
    /\ f.pc \in {"StickySnapshot", "StickyLookup", "Assign"} => f.call = "HashPlan"
    /\ f.pc = "RoundRobin" => f.call = "NextNode"
    /\ f.pc = "Return" => f.call \in RoutingCall
    /\ f.pc \in {"Count", "RoundRobin"} => f.active # {}
    /\ f.pc = "PickQuarantined" => f.quarantined # {}

(* What a routing call returns, against what it witnessed.                 *)
Returned(f, w) ==
    /\ f.call = "HashPlan" /\ f.node # NoNode => f.node \in w.quarantined
    /\ f.call \in {"Plan", "HashPlan"} => w.alwaysActive \subseteq f.result
    /\ f.result = {} => w.alwaysActive = {} /\ w.alwaysQuarantined = {} /\ w.drained

(* A routing call has seen what it goes by.                                *)
Seen(f, w) ==
    f.call \in RoutingCall =>
        /\ f.active \subseteq w.usable
        /\ f.result \subseteq w.usable
        /\ f.quarantined \subseteq w.quarantined
        /\ f.pc \in Snapshotted => w.alwaysActive \subseteq f.active
        /\ f.pc \in Snapshotted /\ f.active = {} => w.inactive
        /\ f.pc = "Assign" => f.node \in w.quarantined
        /\ f.pc = "Return" => Returned(f, w)

RoutesAreSound ==
    /\ UpdateInv
    /\ TypeOK
    /\ \A t \in Thread :
         /\ Placed(frame[t])
         /\ Seen(frame[t], witnessed[t])
         /\ witnessed[t].quarantined \subseteq witnessed[t].usable

-----------------------------------------------------------------------------
(* Round robin and sampling: the element at an index.                      *)

(* A non-empty set of numbers has a least element.                         *)
LEMMA LeastIsLeast ==
    ASSUME NEW S \in SUBSET Nat, S # {}
    PROVE  Least(S) \in S /\ \A m \in S : Least(S) <= m
<1>. DEFINE Below == {ss \in Nat \X Nat : ss[1] < ss[2]}
<1>1. PICK x \in S : \A y \in S : <<y, x>> \notin Below
  <2>1. IsWellFoundedOn(Below, Nat)
    BY NatLessThanWellFounded DEF OpToRel
  <2>. HIDE DEF Below
  <2>2. QED
    BY <2>1, WFMin
<1>2. ASSUME NEW y \in S
      PROVE  x <= y
  <2>1. x \in Nat /\ y \in Nat /\ <<y, x>> \in Nat \X Nat
    OBVIOUS
  <2>2. ~(<<y, x>>[1] < <<y, x>>[2])
    BY <1>1, <2>1
  <2>3. QED
    BY <2>1, <2>2
<1>3. QED
  BY <1>2 DEF Least

(* The elements of S below n: what the index of n in the sorted vector     *)
(* counts.                                                                 *)
BelowIn(S, n) == {m \in S : m < n}

(* Every index of a sorted vector has its element.                         *)
LEMMA EveryIndexHasElement ==
    ASSUME NEW S \in SUBSET Nat, IsFiniteSet(S), NEW i \in Nat, i < Cardinality(S)
    PROVE  \E n \in S : Cardinality(BelowIn(S, n)) = i
<1>. DEFINE Missing == {k \in 0 .. Cardinality(S) - 1 :
                            ~\E n \in S : Cardinality(BelowIn(S, n)) = k}
<1>1. Cardinality(S) \in Nat /\ Cardinality(S) # 0 /\ S # {}
  BY FS_CardinalityType, FS_EmptySet
<1>2. SUFFICES Missing = {}
  BY <1>1
<1>3. SUFFICES ASSUME Missing # {} PROVE FALSE
  OBVIOUS
<1>. DEFINE k == Least(Missing)
<1>4. k \in Missing /\ \A j \in Missing : k <= j
  <2>1. Missing \in SUBSET Nat
    BY <1>1
  <2>. HIDE DEF Missing
  <2>2. QED
    BY <1>3, <2>1, LeastIsLeast
<1>5. k \in 0 .. Cardinality(S) - 1 /\ ~\E n \in S : Cardinality(BelowIn(S, n)) = k
  BY <1>4
<1>6. \A j \in 0 .. Cardinality(S) - 1 : j < k => \E n \in S : Cardinality(BelowIn(S, n)) = j
  BY <1>1, <1>4, <1>5
<1>. HIDE DEF k, Missing
<1>7. CASE k = 0
  <2>1. Least(S) \in S /\ \A m \in S : Least(S) <= m
    BY <1>1, LeastIsLeast
  <2>2. BelowIn(S, Least(S)) = {}
    <3>1. ASSUME NEW m \in S, NEW n \in S, n <= m
          PROVE  ~(m < n)
      <4>1. m \in Nat /\ n \in Nat
        OBVIOUS
      <4>2. QED
        BY <3>1, <4>1
    <3>2. QED
      BY <2>1, <3>1 DEF BelowIn
  <2>3. QED
    BY <1>5, <1>7, <2>1, <2>2, FS_EmptySet
<1>8. CASE k # 0
  <2>1. k - 1 \in 0 .. Cardinality(S) - 1 /\ k - 1 < k /\ k \in Nat
    BY <1>1, <1>5, <1>8
  <2>2. PICK n \in S : Cardinality(BelowIn(S, n)) = k - 1
    BY <1>6, <2>1
  <2>. DEFINE Above == {m \in S : n < m}
              UpTo == BelowIn(S, n) \cup {n}
  <2>3. IsFiniteSet(BelowIn(S, n)) /\ n \notin BelowIn(S, n)
    <3>1. BelowIn(S, n) \in SUBSET S /\ n \notin BelowIn(S, n)
      BY DEF BelowIn
    <3>2. QED
      BY <3>1, FS_Subset
  <2>4. Cardinality(UpTo) = k
    <3>1. Cardinality(UpTo) = Cardinality(BelowIn(S, n)) + 1
      BY <2>3, FS_AddElement
    <3>2. QED
      BY <2>1, <2>2, <3>1
  <2>5. Above # {}
    <3>1. SUFFICES ASSUME Above = {} PROVE FALSE
      OBVIOUS
    <3>2. ASSUME NEW m \in S
          PROVE  m \in UpTo
      <4>1. m \in Nat /\ n \in Nat /\ ~(n < m)
        BY <3>1
      <4>2. m < n \/ m = n
        BY <4>1
      <4>3. QED
        BY <4>2 DEF BelowIn
    <3>3. S = UpTo
      BY <3>2 DEF BelowIn
    <3>4. Cardinality(S) = k
      BY <2>4, <3>3
    <3>5. QED
      BY <1>1, <1>5, <3>4
  <2>6. Least(Above) \in Above /\ \A m \in Above : Least(Above) <= m
    <3>1. Above \in SUBSET Nat
      OBVIOUS
    <3>. HIDE DEF Above
    <3>2. QED
      BY <2>5, <3>1, LeastIsLeast
  <2>7. BelowIn(S, Least(Above)) = UpTo
    <3>. DEFINE m == Least(Above)
    <3>1. m \in S /\ m \in Nat /\ n \in Nat /\ n < m /\ \A j \in S : n < j => m <= j
      BY <2>6
    <3>. HIDE DEF m
    <3>2. ASSUME NEW j \in S
          PROVE  j < m <=> j < n \/ j = n
      <4>1. j \in Nat
        OBVIOUS
      <4>2. CASE n < j
        BY <3>1, <4>1, <4>2
      <4>3. CASE ~(n < j)
        BY <3>1, <4>1, <4>3
      <4>4. QED
        BY <4>2, <4>3
    <3>. HIDE DEF Above
    <3>3. BelowIn(S, m) = UpTo
      BY <3>2 DEF BelowIn
    <3>4. QED
      BY <3>3 DEF m
  <2>8. QED
    BY <1>5, <2>4, <2>6, <2>7
<1>9. QED
  BY <1>7, <1>8

(* The element at an index within the vector is one of its members.        *)
LEMMA ElementIsMember ==
    ASSUME NEW S \in SUBSET Node, S # {}, NEW index \in Nat
    PROVE  Element(S, index % Cardinality(S)) \in S
<1>1. IsFiniteSet(S) /\ S \in SUBSET Nat
  BY NodeAssumption, FS_Subset
<1>2. Cardinality(S) \in Nat \ {0}
  BY <1>1, FS_CardinalityType, FS_EmptySet
<1>. DEFINE i == index % Cardinality(S)
<1>3. i \in Nat /\ i < Cardinality(S)
  BY <1>2
<1>. HIDE DEF i
<1>4. \E n \in S : Cardinality({m \in S : m < n}) = i
  BY <1>1, <1>3, EveryIndexHasElement DEF BelowIn
<1>5. Element(S, i) \in S
  BY <1>4 DEF Element
<1>6. QED
  BY <1>5 DEF i

(* Without active nodes, any quarantined node comes first for any hash.    *)
LEMMA AloneIsFirst ==
    ASSUME NEW n \in Node, NEW h \in Hash
    PROVE  QuarantinedNodeIsFirstForHash(n, {}, h)
<1>1. Cardinality({n}) = 1 /\ {} \cup {n} = {n}
  BY FS_Singleton
<1>2. Draw[h][1] = 0
  <2>1. Cardinality(Node) \in Nat /\ Cardinality(Node) # 0
    BY NodeAssumption, FS_CardinalityType, FS_EmptySet
  <2>2. 1 \in 1 .. Cardinality(Node)
    BY <2>1
  <2>3. Draw[h][1] \in 0 .. 1 - 1
    BY <2>2, LiveNodesAssumption
  <2>4. QED
    BY <2>3
<1>3. {m \in {n} : m < n} = {}
  BY NodeAssumption
<1>4. \A p \in {n} : p = n
  OBVIOUS
<1>5. Cardinality({m \in {n} : m < n}) = 0
  BY <1>3, FS_EmptySet
<1>6. Element({n}, 0) = n
  <2>1. \E p \in {n} : Cardinality({m \in {n} : m < p}) = 0
    BY <1>5
  <2>2. Element({n}, 0) \in {n}
    BY <2>1 DEF Element
  <2>3. QED
    BY <2>2
<1>7. QED
  BY <1>1, <1>2, <1>6 DEF QuarantinedNodeIsFirstForHash, FirstNodeWithSeed

-----------------------------------------------------------------------------
(* Frames.                                                                 *)

(* A new frame is a frame.                                                 *)
LEMMA NewFrameType ==
    ASSUME NEW call \in Call \cup {"None"}, NEW pc \in Label
    PROVE  /\ NewFrame(call, pc) \in Frame
           /\ NewFrame(call, pc).call = call /\ NewFrame(call, pc).pc = pc
           /\ NewFrame(call, pc).active = {} /\ NewFrame(call, pc).result = {}
           /\ NewFrame(call, pc).quarantined = {}
<1>1. (CHOOSE x \in Hash : TRUE) \in Hash
  BY LiveNodesAssumption
<1>2. QED
  BY <1>1 DEF NewFrame, Frame

(* g is f moved to label pc, with these values of the fields a routing     *)
(* call goes by; the other fields are of no concern.                       *)
Becomes(f, g, pc, active, quarantined, node, result) ==
    /\ g \in Frame
    /\ g.call = f.call /\ g.hash = f.hash /\ g.pc = pc
    /\ g.active = active /\ g.quarantined = quarantined
    /\ g.node = node /\ g.result = result

(* What the assignments of the actions make of a frame.                    *)
LEMMA AssignedFields ==
    ASSUME NEW f \in Frame, NEW pc \in Label, NEW S \in SUBSET Node, NEW T \in SUBSET Node,
           NEW n \in Node \cup {NoNode}, NEW g
    PROVE  /\ g = [f EXCEPT !.pc = pc] =>
                Becomes(f, g, pc, f.active, f.quarantined, f.node, f.result)
           /\ g = [f EXCEPT !.active = S, !.pc = pc] =>
                Becomes(f, g, pc, S, f.quarantined, f.node, f.result)
           /\ g = [f EXCEPT !.quarantined = S, !.pc = pc] =>
                Becomes(f, g, pc, f.active, S, f.node, f.result)
           /\ g = [f EXCEPT !.pc = pc, !.node = n] =>
                Becomes(f, g, pc, f.active, f.quarantined, n, f.result)
           /\ g = [f EXCEPT !.pc = pc, !.result = S] =>
                Becomes(f, g, pc, f.active, f.quarantined, f.node, S)
           /\ g = [f EXCEPT !.pc = pc, !.node = n, !.result = S] =>
                Becomes(f, g, pc, f.active, f.quarantined, n, S)
           /\ g = [f EXCEPT !.todo = S, !.pc = pc] =>
                Becomes(f, g, pc, f.active, f.quarantined, f.node, f.result)
           /\ g = [f EXCEPT !.pc = pc, !.todo = S] =>
                Becomes(f, g, pc, f.active, f.quarantined, f.node, f.result)
           /\ g = [f EXCEPT !.pc = pc, !.fresh = S] =>
                Becomes(f, g, pc, f.active, f.quarantined, f.node, f.result)
           /\ g = [f EXCEPT !.todo = S, !.node = n, !.pc = pc] =>
                Becomes(f, g, pc, f.active, f.quarantined, n, f.result)
           /\ g = [f EXCEPT !.todo = S, !.removed = T] =>
                Becomes(f, g, f.pc, f.active, f.quarantined, f.node, f.result)
           /\ g = [f EXCEPT !.removed = S] =>
                Becomes(f, g, f.pc, f.active, f.quarantined, f.node, f.result)
<1>1. ASSUME g = [f EXCEPT !.pc = pc]
      PROVE  Becomes(f, g, pc, f.active, f.quarantined, f.node, f.result)
  BY <1>1 DEF Frame, Becomes
<1>2. ASSUME g = [f EXCEPT !.active = S, !.pc = pc]
      PROVE  Becomes(f, g, pc, S, f.quarantined, f.node, f.result)
  BY <1>2 DEF Frame, Becomes
<1>3. ASSUME g = [f EXCEPT !.quarantined = S, !.pc = pc]
      PROVE  Becomes(f, g, pc, f.active, S, f.node, f.result)
  BY <1>3 DEF Frame, Becomes
<1>4. ASSUME g = [f EXCEPT !.pc = pc, !.node = n]
      PROVE  Becomes(f, g, pc, f.active, f.quarantined, n, f.result)
  BY <1>4 DEF Frame, Becomes
<1>5. ASSUME g = [f EXCEPT !.pc = pc, !.result = S]
      PROVE  Becomes(f, g, pc, f.active, f.quarantined, f.node, S)
  BY <1>5 DEF Frame, Becomes
<1>6. ASSUME g = [f EXCEPT !.pc = pc, !.node = n, !.result = S]
      PROVE  Becomes(f, g, pc, f.active, f.quarantined, n, S)
  BY <1>6 DEF Frame, Becomes
<1>7. ASSUME g = [f EXCEPT !.todo = S, !.pc = pc]
      PROVE  Becomes(f, g, pc, f.active, f.quarantined, f.node, f.result)
  BY <1>7 DEF Frame, Becomes
<1>8. ASSUME g = [f EXCEPT !.pc = pc, !.todo = S]
      PROVE  Becomes(f, g, pc, f.active, f.quarantined, f.node, f.result)
  BY <1>8 DEF Frame, Becomes
<1>9. ASSUME g = [f EXCEPT !.pc = pc, !.fresh = S]
      PROVE  Becomes(f, g, pc, f.active, f.quarantined, f.node, f.result)
  BY <1>9 DEF Frame, Becomes
<1>10. ASSUME g = [f EXCEPT !.todo = S, !.node = n, !.pc = pc]
      PROVE  Becomes(f, g, pc, f.active, f.quarantined, n, f.result)
  BY <1>10 DEF Frame, Becomes
<1>11. ASSUME g = [f EXCEPT !.todo = S, !.removed = T]
      PROVE  Becomes(f, g, f.pc, f.active, f.quarantined, f.node, f.result)
  BY <1>11 DEF Frame, Becomes
<1>12. ASSUME g = [f EXCEPT !.removed = S]
      PROVE  Becomes(f, g, f.pc, f.active, f.quarantined, f.node, f.result)
  BY <1>12 DEF Frame, Becomes
<1>13. QED
  BY <1>1, <1>2, <1>3, <1>4, <1>5, <1>6, <1>7, <1>8, <1>9, <1>10, <1>11, <1>12

(* What the store can be asked for are nodes.                              *)
LEMMA QueriesAreNodes ==
    ASSUME NEW st
    PROVE  /\ GetActiveNodes(st) \in SUBSET Node
           /\ GetQuarantinedNodes(st) \in SUBSET Node
           /\ GetDownNodes(st) \in SUBSET Node
           /\ Usable(st) \in SUBSET Node
BY DEF GetActiveNodes, GetQuarantinedNodes, GetDownNodes, Known, NodesByState, Usable

-----------------------------------------------------------------------------
(* The ghost.                                                              *)

(* w is up to date with the store st.                                      *)
Current(w, st) ==
    /\ w \in Witness
    /\ w.quarantined \subseteq w.usable
    /\ Usable(st) \subseteq w.usable
    /\ GetQuarantinedNodes(st) \subseteq w.quarantined
    /\ w.alwaysActive \subseteq GetActiveNodes(st)
    /\ w.alwaysQuarantined \subseteq GetQuarantinedNodes(st)
    /\ GetActiveNodes(st) = {} => w.inactive
    /\ w.inactive /\ GetQuarantinedNodes(st) = {} => w.drained

(* v has witnessed at least what w has.                                    *)
Grown(w, v) ==
    /\ w.usable \subseteq v.usable
    /\ w.quarantined \subseteq v.quarantined
    /\ v.alwaysActive \subseteq w.alwaysActive
    /\ v.alwaysQuarantined \subseteq w.alwaysQuarantined
    /\ w.inactive => v.inactive
    /\ w.drained => v.drained

(* A step adds to what a thread in a routing call has witnessed.           *)
LEMMA WitnessGrows ==
    ASSUME witnessed \in [Thread -> Witness], Witnessing, NEW t \in Thread,
           witnessed[t].quarantined \subseteq witnessed[t].usable
    PROVE  /\ witnessed' \in [Thread -> Witness]
           /\ witnessed'[t].quarantined \subseteq witnessed'[t].usable
           /\ frame'[t].call \in RoutingCall =>
                Current(witnessed'[t], statuses') /\ Grown(witnessed[t], witnessed'[t])
<1>. DEFINE inactive(w) == w.inactive \/ GetActiveNodes(statuses') = {}
            Add(w) == [usable |-> w.usable \cup Usable(statuses'),
                       quarantined |-> w.quarantined \cup GetQuarantinedNodes(statuses'),
                       alwaysActive |-> w.alwaysActive \cap GetActiveNodes(statuses'),
                       alwaysQuarantined |-> w.alwaysQuarantined \cap GetQuarantinedNodes(statuses'),
                       inactive |-> inactive(w),
                       drained |-> w.drained \/ (inactive(w) /\ GetQuarantinedNodes(statuses') = {})]
<1>1. ASSUME NEW w \in Witness, NEW v, v = Add(w)
      PROVE  /\ v \in Witness /\ Grown(w, v)
             /\ w.quarantined \subseteq w.usable => Current(v, statuses')
  <2>1. v.inactive \in BOOLEAN /\ v.drained \in BOOLEAN
    BY <1>1
  <2>2. v \in Witness
    BY <1>1, <2>1, QueriesAreNodes DEF Witness
  <2>3. QED
    BY <1>1, <2>2 DEF Current, Grown, Usable
<1>2. NoWitness \in Witness /\ NoWitness.quarantined = {}
  BY DEF NoWitness, Witness
<1>3. witnessed' = [u \in Thread |-> IF frame'[u].call \in RoutingCall
                                     THEN Add(witnessed[u]) ELSE NoWitness]
  BY DEF Witnessing
<1>. HIDE DEF Add
<1>4. witnessed' \in [Thread -> Witness]
  <2>1. \A u \in Thread : Add(witnessed[u]) \in Witness
    BY <1>1
  <2>2. QED
    BY <1>2, <1>3, <2>1
<1>5. ASSUME frame'[t].call \in RoutingCall
      PROVE  Current(witnessed'[t], statuses') /\ Grown(witnessed[t], witnessed'[t])
  <2>1. witnessed'[t] = Add(witnessed[t])
    BY <1>3, <1>5
  <2>2. QED
    BY <1>1, <2>1
<1>6. witnessed'[t].quarantined \subseteq witnessed'[t].usable
  <2>1. CASE frame'[t].call \in RoutingCall
    BY <1>5, <2>1 DEF Current
  <2>2. CASE frame'[t].call \notin RoutingCall
    BY <1>2, <1>3, <2>2
  <2>3. QED
    BY <2>1, <2>2
<1>7. QED
  BY <1>4, <1>5, <1>6

(* What a frame has seen it has still seen when more is witnessed.         *)
LEMMA SeenGrows ==
    ASSUME NEW f, NEW w, NEW v, Seen(f, w), Grown(w, v)
    PROVE  Seen(f, v)
<1>1. Returned(f, w) => Returned(f, v)
  BY DEF Returned, Grown
<1>2. QED
  BY <1>1 DEF Seen, Grown

-----------------------------------------------------------------------------
(* Steps.                                                                  *)

(* g may follow f in a step after which the store is st.                   *)
Follows(f, g, st) ==
    /\ g \in Frame
    /\ Placed(g)
    /\ \A w \in Witness : Current(w, st) /\ Seen(f, w) => Seen(g, w)

(* The counters and the hash assignments have their types.                 *)
CountersTyped ==
    /\ quarantine_by_hash \in [Hash -> Node \cup {NoNode}]
    /\ next_node_index \in Index
    /\ quarantine_plan_index \in 0 .. Interval - 1
    /\ quarantine_node_index \in Index

(* A step of thread t to a frame that may follow its own preserves the     *)
(* invariant: what the other threads have seen only grows.                 *)
LEMMA FollowingStep ==
    ASSUME RoutesAreSound, UpdateInv', NEW t \in Thread, NEW g,
           frame' = [frame EXCEPT ![t] = g], Follows(frame[t], g, statuses'),
           Witnessing, CountersTyped'
    PROVE  RoutesAreSound'
<1>1. frame \in [Thread -> Frame] /\ witnessed \in [Thread -> Witness]
  BY DEF RoutesAreSound, TypeOK
<1>2. g \in Frame
  BY DEF Follows
<1>3. frame' \in [Thread -> Frame] /\ witnessed' \in [Thread -> Witness]
  <2>1. \A u \in Thread : witnessed[u].quarantined \subseteq witnessed[u].usable
    BY DEF RoutesAreSound
  <2>2. QED
    BY <1>1, <1>2, <2>1, WitnessGrows
<1>4. ASSUME NEW u \in Thread
      PROVE  /\ Placed(frame'[u]) /\ Seen(frame'[u], witnessed'[u])
             /\ witnessed'[u].quarantined \subseteq witnessed'[u].usable
  <2>. DEFINE w == witnessed'[u]
  <2>0. witnessed[u].quarantined \subseteq witnessed[u].usable
    BY DEF RoutesAreSound
  <2>1. /\ Placed(frame[u]) /\ Seen(frame[u], witnessed[u])
        /\ w.quarantined \subseteq w.usable
    BY <1>1, <2>0, WitnessGrows DEF RoutesAreSound
  <2>2. CASE frame'[u].call \notin RoutingCall
    <3>1. Placed(frame'[u])
      BY <1>1, <2>1 DEF Follows
    <3>2. QED
      BY <2>1, <2>2, <3>1 DEF Seen
  <2>3. CASE frame'[u].call \in RoutingCall
    <3>1. Current(w, statuses') /\ Grown(witnessed[u], w) /\ w \in Witness
      BY <1>1, <2>0, <2>3, WitnessGrows DEF Current
    <3>2. Seen(frame[u], w)
      BY <2>1, <3>1, SeenGrows
    <3>. HIDE DEF w
    <3>3. CASE u = t
      <4>1. frame'[u] = g /\ Placed(g)
        BY <1>1, <3>3 DEF Follows
      <4>2. Seen(g, w)
        BY <3>1, <3>2, <3>3 DEF Follows
      <4>3. QED
        BY <2>1, <4>1, <4>2 DEF w
    <3>4. CASE u # t
      <4>1. frame'[u] = frame[u]
        BY <1>1, <3>4
      <4>2. QED
        BY <2>1, <3>2, <4>1 DEF w
    <3>5. QED
      BY <3>3, <3>4
  <2>4. QED
    BY <2>2, <2>3
<1>5. TypeOK'
  BY <1>3 DEF TypeOK, CountersTyped, UpdateInv
<1>6. QED
  BY <1>4, <1>5 DEF RoutesAreSound

(* A frame that keeps its snapshots and goes to a label of another part of *)
(* the code, with another node at hand perhaps, may follow.                *)
LEMMA ElsewhereFollows ==
    ASSUME NEW f \in Frame, NEW g, NEW pc, NEW n, NEW st,
           Becomes(f, g, pc, f.active, f.quarantined, n, f.result),
           pc \notin SamplingLabel \cup Snapshotted \cup {"Fetch", "Return"}
    PROVE  Follows(f, g, st)
<1>1. Placed(g) /\ g \in Frame
  BY DEF Becomes, Placed, SamplingLabel, Snapshotted
<1>2. ASSUME NEW w \in Witness, Seen(f, w)
      PROVE  Seen(g, w)
  BY <1>2 DEF Becomes, Seen, Snapshotted
<1>3. QED
  BY <1>1, <1>2 DEF Follows

(* So may a new frame of any call at any label that a call begins with.    *)
LEMMA NewFrameFollows ==
    ASSUME NEW f, NEW g \in Frame, NEW st,
           \/ g.call \notin RoutingCall /\ g.pc \notin SamplingLabel \cup Snapshotted \cup {"Fetch", "Return"}
           \/ g.call = "Update" /\ g.pc = "Fetch"
           \/ /\ g.call \in RoutingCall /\ g.pc \in {"Active", "ActiveAgain"}
              /\ g.active = {} /\ g.quarantined = {} /\ g.result = {}
    PROVE  Follows(f, g, st)
<1>1. Placed(g)
  BY DEF Placed, SamplingLabel, Snapshotted, RoutingCall
<1>2. ASSUME NEW w \in Witness
      PROVE  Seen(g, w)
  BY DEF Seen, Snapshotted, SamplingLabel, RoutingCall
<1>3. QED
  BY <1>1, <1>2 DEF Follows

(* So may what a call goes on with after sampling, if the sampled node was *)
(* seen quarantined, and if there was none to sample where there was no    *)
(* active node either.                                                     *)
LEMMA AfterSamplingFollows ==
    ASSUME NEW f \in Frame, Placed(f), f.pc \in Snapshotted \ {"RoundRobin"}, NEW st,
           NEW picked \in Node \cup {NoNode},
           \A w \in Witness : Current(w, st) /\ Seen(f, w) /\ f.call \in RoutingCall =>
               /\ picked # NoNode => picked \in w.quarantined
               /\ picked = NoNode /\ f.active = {} => w.alwaysQuarantined = {} /\ w.drained
    PROVE  Follows(f, AfterSampling(f, picked), st)
<1>. DEFINE sampled == {picked} \ {NoNode}
<1>1. "Fetch" \in Label /\ "Return" \in Label /\ "RoundRobin" \in Label
  BY DEF Label
<1>2. sampled \in SUBSET Node /\ f.active \in SUBSET Node /\ f.active \cup sampled \in SUBSET Node
  BY DEF Frame
<1>3. CASE f.call = "Update"
  <2>1. PICK g : g = NewFrame("Update", "Fetch")
    OBVIOUS
  <2>2. AfterSampling(f, picked) = g
    BY <1>3, <2>1 DEF AfterSampling
  <2>3. g \in Frame /\ g.call = "Update" /\ g.pc = "Fetch"
    BY <2>1, NewFrameType DEF Call, Label
  <2>4. QED
    BY <2>2, <2>3, NewFrameFollows
<1>4. CASE f.call = "NextNode" /\ sampled # {}
  <2>1. PICK g : g = [f EXCEPT !.pc = "Return", !.result = sampled]
    OBVIOUS
  <2>2. AfterSampling(f, picked) = g
    BY <1>4, <2>1 DEF AfterSampling
  <2>3. Becomes(f, g, "Return", f.active, f.quarantined, f.node, sampled)
    BY <1>1, <1>2, <2>1, AssignedFields
  <2>4. Placed(g) /\ g \in Frame
    BY <1>4, <2>3 DEF Becomes, Placed, SamplingLabel, RoutingCall
  <2>5. ASSUME NEW w \in Witness, Current(w, st), Seen(f, w)
        PROVE  Seen(g, w)
    <3>1. picked \in w.quarantined /\ w.quarantined \subseteq w.usable
      BY <1>4, <2>5 DEF RoutingCall, Current
    <3>2. QED
      BY <1>4, <2>3, <2>5, <3>1 DEF Becomes, Seen, Snapshotted, Returned, RoutingCall
  <2>6. QED
    BY <2>2, <2>4, <2>5 DEF Follows
<1>5. CASE f.call = "NextNode" /\ sampled = {} /\ f.active = {}
  <2>1. PICK g : g = [f EXCEPT !.pc = "Return"]
    OBVIOUS
  <2>2. AfterSampling(f, picked) = g
    BY <1>5, <2>1 DEF AfterSampling
  <2>3. Becomes(f, g, "Return", f.active, f.quarantined, f.node, f.result)
    BY <1>1, <1>2, <2>1, AssignedFields
  <2>4. Placed(g) /\ g \in Frame
    BY <1>5, <2>3 DEF Becomes, Placed, SamplingLabel, RoutingCall
  <2>5. ASSUME NEW w \in Witness, Current(w, st), Seen(f, w)
        PROVE  Seen(g, w)
    <3>1. w.alwaysQuarantined = {} /\ w.drained /\ w.alwaysActive \subseteq f.active
      BY <1>5, <2>5 DEF RoutingCall, Seen
    <3>2. QED
      BY <1>5, <2>3, <2>5, <3>1 DEF Becomes, Seen, Snapshotted, Returned, RoutingCall
  <2>6. QED
    BY <2>2, <2>4, <2>5 DEF Follows
<1>6. CASE f.call = "NextNode" /\ sampled = {} /\ f.active # {}
  <2>1. PICK g : g = [f EXCEPT !.pc = "RoundRobin"]
    OBVIOUS
  <2>2. AfterSampling(f, picked) = g
    BY <1>6, <2>1 DEF AfterSampling
  <2>3. Becomes(f, g, "RoundRobin", f.active, f.quarantined, f.node, f.result)
    BY <1>1, <1>2, <2>1, AssignedFields
  <2>4. Placed(g) /\ g \in Frame
    BY <1>6, <2>3 DEF Becomes, Placed, SamplingLabel, RoutingCall
  <2>5. ASSUME NEW w \in Witness, Seen(f, w)
        PROVE  Seen(g, w)
    BY <1>6, <2>3, <2>5 DEF Becomes, Seen, Snapshotted, RoutingCall
  <2>6. QED
    BY <2>2, <2>4, <2>5 DEF Follows
<1>7. CASE f.call \in {"Plan", "HashPlan"}
  <2>1. PICK g : g = [f EXCEPT !.pc = "Return", !.node = picked, !.result = f.active \cup sampled]
    OBVIOUS
  <2>2. AfterSampling(f, picked) = g
    BY <1>7, <2>1 DEF AfterSampling
  <2>3. Becomes(f, g, "Return", f.active, f.quarantined, picked, f.active \cup sampled)
    BY <1>1, <1>2, <2>1, AssignedFields
  <2>4. Placed(g) /\ g \in Frame
    BY <1>7, <2>3 DEF Becomes, Placed, SamplingLabel, RoutingCall
  <2>5. ASSUME NEW w \in Witness, Current(w, st), Seen(f, w)
        PROVE  Seen(g, w)
    <3>1. /\ picked # NoNode => picked \in w.quarantined
          /\ picked = NoNode /\ f.active = {} => w.alwaysQuarantined = {} /\ w.drained
          /\ w.quarantined \subseteq w.usable
      BY <1>7, <2>5 DEF RoutingCall, Current
    <3>2. w.alwaysActive \subseteq f.active /\ f.active \subseteq w.usable
          /\ f.quarantined \subseteq w.quarantined
      BY <1>7, <2>5 DEF RoutingCall, Seen
    <3>3. Returned(g, w)
      BY <1>7, <2>3, <3>1, <3>2 DEF Becomes, Returned
    <3>4. QED
      BY <1>7, <2>3, <3>1, <3>2, <3>3 DEF Becomes, Seen, Snapshotted, RoutingCall
  <2>6. QED
    BY <2>2, <2>4, <2>5 DEF Follows
<1>8. QED
  BY <1>3, <1>4, <1>5, <1>6, <1>7 DEF Placed, Snapshotted, SamplingLabel, RoutingCall

(* The steps that begin a call.                                            *)
LEMMA BeginKeepsRoutes ==
    ASSUME RoutesAreSound, UpdateInv', NEW t \in Thread,
           BeginRouting(t) \/ BeginReport(t) \/ BeginUpdate(t) \/ BeginProbe(t)
    PROVE  RoutesAreSound'
<1>1. Witnessing /\ CountersTyped'
  BY DEF BeginRouting, BeginReport, BeginUpdate, BeginProbe, routing, indexes,
         RoutesAreSound, TypeOK, CountersTyped
<1>2. SUFFICES \E g : frame' = [frame EXCEPT ![t] = g] /\ Follows(frame[t], g, statuses')
  BY <1>1, FollowingStep
<1>3. CASE BeginRouting(t)
  <2>1. PICK call \in RoutingCall, h \in Hash :
          frame' = [frame EXCEPT ![t] = [NewFrame(call, "Active") EXCEPT !.hash = h]]
    BY <1>3 DEF BeginRouting
  <2>2. PICK e : e = NewFrame(call, "Active")
    OBVIOUS
  <2>3. PICK g : g = [e EXCEPT !.hash = h]
    OBVIOUS
  <2>4. /\ e \in Frame /\ e.call = call /\ e.pc = "Active"
        /\ e.active = {} /\ e.quarantined = {} /\ e.result = {}
    BY <2>2, NewFrameType DEF Call, Label
  <2>5. /\ g \in Frame /\ g.call = call /\ g.pc = "Active"
        /\ g.active = {} /\ g.quarantined = {} /\ g.result = {}
    BY <2>3, <2>4 DEF Frame
  <2>6. QED
    BY <2>1, <2>2, <2>3, <2>5, NewFrameFollows
<1>4. CASE BeginReport(t)
  <2>1. PICK n \in Node :
          frame' = [frame EXCEPT ![t] = [NewFrame("Report", "Report") EXCEPT !.node = n]]
    BY <1>4 DEF BeginReport
  <2>2. PICK e : e = NewFrame("Report", "Report")
    OBVIOUS
  <2>3. PICK g : g = [e EXCEPT !.node = n]
    OBVIOUS
  <2>4. e \in Frame /\ e.call = "Report" /\ e.pc = "Report"
    BY <2>2, NewFrameType DEF Call, Label
  <2>5. g \in Frame /\ g.call = "Report" /\ g.pc = "Report"
    BY <2>3, <2>4 DEF Frame
  <2>6. QED
    BY <2>1, <2>2, <2>3, <2>5, NewFrameFollows DEF RoutingCall, SamplingLabel, Snapshotted
<1>5. CASE BeginUpdate(t)
  <2>1. PICK g : g = NewFrame("Update", "Fetch")
    OBVIOUS
  <2>2. g \in Frame /\ g.call = "Update" /\ g.pc = "Fetch"
    BY <2>1, NewFrameType DEF Call, Label
  <2>3. QED
    BY <1>5, <2>1, <2>2, NewFrameFollows DEF BeginUpdate
<1>6. CASE BeginProbe(t)
  <2>1. PICK g : g = NewFrame("Probe", "ProbeSnapshot")
    OBVIOUS
  <2>2. g \in Frame /\ g.call = "Probe" /\ g.pc = "ProbeSnapshot"
    BY <2>1, NewFrameType DEF Call, Label
  <2>3. Follows(frame[t], g, statuses')
    BY <2>2, NewFrameFollows DEF RoutingCall, SamplingLabel, Snapshotted
  <2>4. QED
    BY <1>6, <2>1, <2>3 DEF BeginProbe
<1>7. QED
  BY <1>3, <1>4, <1>5, <1>6

(* The snapshots of the active nodes: they contain what is active now.     *)
LEMMA SnapshotKeepsRoutes ==
    ASSUME RoutesAreSound, UpdateInv', NEW t \in Thread,
           SnapshotActive(t) \/ SnapshotActiveAgain(t)
    PROVE  RoutesAreSound'
<1>. DEFINE f == frame[t]
            active == GetActiveNodes(statuses)
<1>1. Witnessing /\ CountersTyped' /\ statuses' = statuses /\ f.pc \in {"Active", "ActiveAgain"}
  BY DEF SnapshotActive, SnapshotActiveAgain, At, routing, indexes, RoutesAreSound, TypeOK,
         CountersTyped
<1>2. f \in Frame /\ Placed(f) /\ frame \in [Thread -> Frame] /\ active \in SUBSET Node
  BY QueriesAreNodes DEF RoutesAreSound, TypeOK
<1>3. \E pc \in {"StickySnapshot", "ProbeSnapshot", "Sample"} :
        /\ frame' = [frame EXCEPT ![t] = [f EXCEPT !.active = active, !.pc = pc]]
        /\ pc = "StickySnapshot" => f.call = "HashPlan"
  <2>1. CASE SnapshotActiveAgain(t)
    BY <1>2, <2>1 DEF SnapshotActiveAgain
  <2>2. CASE SnapshotActive(t)
    <3>. DEFINE pc == CASE f.call = "HashPlan" -> "StickySnapshot"
                        [] f.call = "NextNode" /\ active = {} -> "ProbeSnapshot"
                        [] OTHER -> "Sample"
    <3>1. frame' = [frame EXCEPT ![t] = [f EXCEPT !.active = active, !.pc = pc]]
      BY <1>2, <2>2 DEF SnapshotActive
    <3>2. /\ pc \in {"StickySnapshot", "ProbeSnapshot", "Sample"}
          /\ pc = "StickySnapshot" => f.call = "HashPlan"
      OBVIOUS
    <3>. HIDE DEF pc
    <3>3. QED
      BY <3>1, <3>2
  <2>3. QED
    BY <2>1, <2>2
<1>4. PICK pc \in {"StickySnapshot", "ProbeSnapshot", "Sample"} :
        /\ frame' = [frame EXCEPT ![t] = [f EXCEPT !.active = active, !.pc = pc]]
        /\ pc = "StickySnapshot" => f.call = "HashPlan"
  BY <1>3
<1>5. PICK g : g = [f EXCEPT !.active = active, !.pc = pc]
  OBVIOUS
<1>6. active \subseteq Usable(statuses)
  BY DEF Usable
<1>. HIDE DEF f, active
<1>7. Becomes(f, g, pc, active, f.quarantined, f.node, f.result)
  BY <1>2, <1>5, AssignedFields DEF Label
<1>8. g \in Frame /\ Placed(g)
  BY <1>1, <1>2, <1>4, <1>7 DEF Becomes, Placed, SamplingLabel
<1>9. ASSUME NEW w \in Witness, Current(w, statuses), Seen(f, w)
      PROVE  Seen(g, w)
  <2>1. active \subseteq w.usable /\ w.alwaysActive \subseteq active /\ (active = {} => w.inactive)
    BY <1>6, <1>9 DEF Current, active
  <2>2. QED
    BY <1>7, <1>9, <2>1 DEF Becomes, Seen, Snapshotted
<1>10. Follows(f, g, statuses')
  BY <1>1, <1>8, <1>9 DEF Follows
<1>11. frame' = [frame EXCEPT ![t] = g]
  BY <1>4, <1>5
<1>12. QED
  BY <1>1, <1>10, <1>11, FollowingStep DEF f

(* The steps of the sampling: the counter is reached only with active      *)
(* nodes, and a call that finds no quarantined node has seen that there is *)
(* none.                                                                   *)
LEMMA SamplingKeepsRoutes ==
    ASSUME RoutesAreSound, UpdateInv', NEW t \in Thread,
           Sample(t) \/ CountAttempt(t) \/ ReadQuarantined(t)
    PROVE  RoutesAreSound'
<1>. DEFINE f == frame[t]
            quarantined == GetQuarantinedNodes(statuses)
<1>1. /\ Witnessing /\ statuses' = statuses
      /\ f.pc \in {"Sample", "Count", "ReadQuarantined"}
  BY DEF Sample, CountAttempt, ReadQuarantined, At
<1>2. /\ f \in Frame /\ Placed(f) /\ frame \in [Thread -> Frame] /\ quarantined \in SUBSET Node
      /\ f.pc \in Snapshotted \ {"RoundRobin"}
  BY <1>1, QueriesAreNodes DEF RoutesAreSound, TypeOK, Snapshotted
<1>3. CountersTyped'
  <2>1. CASE CountAttempt(t)
    <3>1. Interval \in Nat \ {0} /\ quarantine_plan_index \in 0 .. Interval - 1
      BY LiveNodesAssumption DEF Interval, AtLeastOne, RoutesAreSound, TypeOK
    <3>2. (quarantine_plan_index + 1) % Interval \in 0 .. Interval - 1
      BY <3>1
    <3>3. QED
      BY <2>1, <3>2 DEF CountAttempt, routing, RoutesAreSound, TypeOK, CountersTyped
  <2>2. CASE Sample(t) \/ ReadQuarantined(t)
    BY <2>2 DEF Sample, ReadQuarantined, routing, indexes, RoutesAreSound, TypeOK, CountersTyped
  <2>3. QED
    BY <2>1, <2>2
<1>4. SUFFICES \E g : frame' = [frame EXCEPT ![t] = g] /\ Follows(f, g, statuses)
  BY <1>1, <1>3, FollowingStep
<1>5. ASSUME quarantined = {} \/ f.pc = "Count"
      PROVE  Follows(f, AfterSampling(f, NoNode), statuses)
  <2>1. ASSUME NEW w \in Witness, Current(w, statuses), Seen(f, w), f.call \in RoutingCall,
               f.active = {}
        PROVE  w.alwaysQuarantined = {} /\ w.drained
    <3>1. w.inactive
      BY <1>2, <2>1 DEF Seen
    <3>2. QED
      BY <1>2, <1>5, <2>1, <3>1 DEF Current, Placed
  <2>. HIDE DEF f
  <2>2. QED
    BY <1>2, <2>1, AfterSamplingFollows
<1>6. ASSUME NEW pc \in {"Count", "ReadQuarantined"}, pc = "Count" => f.active # {}
      PROVE  Follows(f, [f EXCEPT !.pc = pc], statuses)
  <2>1. PICK g : g = [f EXCEPT !.pc = pc]
    OBVIOUS
  <2>. HIDE DEF f
  <2>2. Becomes(f, g, pc, f.active, f.quarantined, f.node, f.result)
    BY <1>2, <2>1, AssignedFields DEF Label
  <2>3. g \in Frame /\ Placed(g)
    BY <1>2, <1>6, <2>2 DEF Becomes, Placed, SamplingLabel, Snapshotted
  <2>4. ASSUME NEW w \in Witness, Seen(f, w)
        PROVE  Seen(g, w)
    BY <1>2, <2>2, <2>4 DEF Becomes, Seen, Snapshotted
  <2>5. QED
    BY <2>1, <2>3, <2>4 DEF Follows
<1>7. CASE Sample(t)
  BY <1>5, <1>6, <1>7 DEF Sample
<1>8. CASE CountAttempt(t)
  <2>1. f.pc = "Count"
    BY <1>8 DEF CountAttempt, At
  <2>2. QED
    BY <1>5, <1>6, <1>8, <2>1 DEF CountAttempt
<1>9. CASE ReadQuarantined(t)
  <2>1. CASE quarantined = {}
    BY <1>5, <1>9, <2>1 DEF ReadQuarantined
  <2>2. CASE quarantined # {}
    <3>1. PICK g : g = [f EXCEPT !.quarantined = quarantined, !.pc = "PickQuarantined"]
      OBVIOUS
    <3>2. frame' = [frame EXCEPT ![t] = g]
      BY <1>9, <2>2, <3>1 DEF ReadQuarantined
    <3>. HIDE DEF f, quarantined
    <3>3. Becomes(f, g, "PickQuarantined", f.active, quarantined, f.node, f.result)
      BY <1>2, <3>1, AssignedFields DEF Label
    <3>4. g \in Frame /\ Placed(g)
      BY <1>2, <2>2, <3>3 DEF Becomes, Placed, SamplingLabel, Snapshotted
    <3>5. ASSUME NEW w \in Witness, Current(w, statuses), Seen(f, w)
          PROVE  Seen(g, w)
      <4>1. quarantined \subseteq w.quarantined
        BY <3>5 DEF Current, quarantined
      <4>2. QED
        BY <1>2, <3>3, <3>5, <4>1 DEF Becomes, Seen, Snapshotted
    <3>6. QED
      BY <3>2, <3>4, <3>5 DEF Follows
  <2>3. QED
    BY <2>1, <2>2
<1>10. QED
  BY <1>7, <1>8, <1>9

(* A counter that has been incremented is a counter.                       *)
LEMMA IncrementType ==
    ASSUME NEW index \in Index
    PROVE  Increment(index) \in Index /\ index \in Nat
BY LiveNodesAssumption DEF Index, Increment

(* The quarantined node whose turn it is was seen quarantined; if it does  *)
(* not come first for a hash, some other node is active.                   *)
LEMMA PickKeepsRoutes ==
    ASSUME RoutesAreSound, UpdateInv', NEW t \in Thread, PickQuarantined(t)
    PROVE  RoutesAreSound'
<1>. DEFINE f == frame[t]
            n == Element(f.quarantined, quarantine_node_index % Cardinality(f.quarantined))
<1>1. Witnessing /\ statuses' = statuses /\ f.pc = "PickQuarantined"
  BY DEF PickQuarantined, At
<1>2. /\ f \in Frame /\ Placed(f) /\ frame \in [Thread -> Frame]
      /\ f.pc \in Snapshotted \ {"RoundRobin"}
      /\ quarantine_node_index \in Index
  BY <1>1 DEF RoutesAreSound, TypeOK, Snapshotted
<1>3. CountersTyped'
  BY <1>2, IncrementType DEF PickQuarantined, routing, RoutesAreSound, TypeOK, CountersTyped
<1>4. SUFFICES \E g : frame' = [frame EXCEPT ![t] = g] /\ Follows(f, g, statuses)
  BY <1>1, <1>3, FollowingStep
<1>5. n \in f.quarantined /\ n \in Node /\ n # NoNode /\ f.hash \in Hash
  <2>1. f.quarantined \in SUBSET Node /\ f.quarantined # {} /\ f.hash \in Hash
    BY <1>1, <1>2 DEF Frame, Placed
  <2>2. n \in f.quarantined
    BY <1>2, <2>1, IncrementType, ElementIsMember
  <2>. HIDE DEF n
  <2>3. QED
    BY <2>1, <2>2, LiveNodesAssumption
<1>6. ASSUME NEW w \in Witness, Seen(f, w), f.call \in RoutingCall
      PROVE  n \in w.quarantined
  BY <1>5, <1>6 DEF Seen
<1>7. CASE f.call # "HashPlan"
  <2>1. frame' = [frame EXCEPT ![t] = AfterSampling(f, n)]
    BY <1>7 DEF PickQuarantined
  <2>. HIDE DEF f, n
  <2>2. Follows(f, AfterSampling(f, n), statuses)
    BY <1>2, <1>5, <1>6, AfterSamplingFollows
  <2>3. QED
    BY <2>1, <2>2
<1>8. CASE f.call = "HashPlan" /\ QuarantinedNodeIsFirstForHash(n, f.active, f.hash)
  <2>1. PICK g : g = [f EXCEPT !.pc = "Assign", !.node = n]
    OBVIOUS
  <2>2. frame' = [frame EXCEPT ![t] = g]
    BY <1>8, <2>1 DEF PickQuarantined
  <2>. HIDE DEF f, n
  <2>3. Becomes(f, g, "Assign", f.active, f.quarantined, n, f.result)
    BY <1>2, <1>5, <2>1, AssignedFields DEF Label
  <2>4. g \in Frame /\ Placed(g)
    BY <1>2, <1>8, <2>3 DEF Becomes, Placed, SamplingLabel, RoutingCall
  <2>5. ASSUME NEW w \in Witness, Seen(f, w)
        PROVE  Seen(g, w)
    BY <1>2, <1>6, <1>8, <2>3, <2>5 DEF Becomes, Seen, Snapshotted, RoutingCall
  <2>6. QED
    BY <2>2, <2>4, <2>5 DEF Follows
<1>9. CASE f.call = "HashPlan" /\ ~QuarantinedNodeIsFirstForHash(n, f.active, f.hash)
  <2>1. frame' = [frame EXCEPT ![t] = AfterSampling(f, NoNode)]
    BY <1>9 DEF PickQuarantined
  <2>. HIDE DEF f, n
  <2>2. f.active # {}
    BY <1>5, <1>9, AloneIsFirst
  <2>3. Follows(f, AfterSampling(f, NoNode), statuses)
    BY <1>2, <2>2, AfterSamplingFollows
  <2>4. QED
    BY <2>1, <2>3
<1>10. QED
  BY <1>7, <1>8, <1>9

(* Round robin returns a node of the active snapshot.                      *)
LEMMA RoundRobinKeepsRoutes ==
    ASSUME RoutesAreSound, UpdateInv', NEW t \in Thread, RoundRobin(t)
    PROVE  RoutesAreSound'
<1>. DEFINE f == frame[t]
            n == Element(f.active, next_node_index % Cardinality(f.active))
<1>1. Witnessing /\ statuses' = statuses /\ f.pc = "RoundRobin"
  BY DEF RoundRobin, At
<1>2. /\ f \in Frame /\ Placed(f) /\ frame \in [Thread -> Frame]
      /\ next_node_index \in Index
  BY DEF RoutesAreSound, TypeOK
<1>3. CountersTyped'
  BY <1>2, IncrementType DEF RoundRobin, routing, RoutesAreSound, TypeOK, CountersTyped
<1>4. n \in f.active /\ n \in Node /\ f.call = "NextNode"
  <2>1. f.active \in SUBSET Node /\ f.active # {} /\ f.call = "NextNode"
    BY <1>1, <1>2 DEF Frame, Placed
  <2>2. n \in f.active
    BY <1>2, <2>1, IncrementType, ElementIsMember
  <2>. HIDE DEF n
  <2>3. QED
    BY <2>1, <2>2
<1>5. PICK g : g = [f EXCEPT !.pc = "Return", !.result = {n}]
  OBVIOUS
<1>6. frame' = [frame EXCEPT ![t] = g]
  BY <1>2, <1>5 DEF RoundRobin
<1>. HIDE DEF n
<1>7. Becomes(f, g, "Return", f.active, f.quarantined, f.node, {n})
  <2>1. {n} \in SUBSET Node
    BY <1>4
  <2>. HIDE DEF f
  <2>2. QED
    BY <1>2, <1>5, <2>1, AssignedFields DEF Label
<1>8. g \in Frame /\ Placed(g)
  BY <1>4, <1>7 DEF Becomes, Placed, SamplingLabel, RoutingCall
<1>9. ASSUME NEW w \in Witness, Seen(f, w)
      PROVE  Seen(g, w)
  <2>. HIDE DEF f
  <2>1. Returned(g, w)
    BY <1>4, <1>7 DEF Becomes, Returned
  <2>2. QED
    BY <1>4, <1>7, <1>9, <2>1 DEF Becomes, Seen, Snapshotted, RoutingCall
<1>10. Follows(f, g, statuses')
  BY <1>8, <1>9 DEF Follows
<1>11. QED
  BY <1>1, <1>3, <1>6, <1>10, FollowingStep

(* The sticky node of a hash is looked up in a snapshot of the quarantined *)
(* nodes; where it is given up for not coming first, a node is active.     *)
LEMMA StickyKeepsRoutes ==
    ASSUME RoutesAreSound, UpdateInv', NEW t \in Thread, StickySnapshot(t) \/ StickyLookup(t)
    PROVE  RoutesAreSound'
<1>. DEFINE f == frame[t]
<1>1. Witnessing /\ statuses' = statuses /\ f.pc \in {"StickySnapshot", "StickyLookup"}
  BY DEF StickySnapshot, StickyLookup, At
<1>2. /\ f \in Frame /\ Placed(f) /\ frame \in [Thread -> Frame]
      /\ f.pc \in Snapshotted \ {"RoundRobin"}
      /\ quarantine_by_hash \in [Hash -> Node \cup {NoNode}]
      /\ f.call = "HashPlan"
  BY <1>1 DEF RoutesAreSound, TypeOK, Snapshotted, Placed
<1>3. CountersTyped'
  BY <1>2 DEF StickySnapshot, StickyLookup, routing, indexes, RoutesAreSound, TypeOK, CountersTyped
<1>4. SUFFICES \E g : frame' = [frame EXCEPT ![t] = g] /\ Follows(f, g, statuses)
  BY <1>1, <1>3, FollowingStep
<1>5. CASE StickySnapshot(t)
  <2>. DEFINE quarantined == GetQuarantinedNodes(statuses)
  <2>1. PICK g : g = [f EXCEPT !.quarantined = quarantined, !.pc = "StickyLookup"]
    OBVIOUS
  <2>2. frame' = [frame EXCEPT ![t] = g] /\ f.pc = "StickySnapshot"
    BY <1>2, <1>5, <2>1 DEF StickySnapshot, At
  <2>3. quarantined \in SUBSET Node
    BY QueriesAreNodes
  <2>. HIDE DEF f, quarantined
  <2>4. Becomes(f, g, "StickyLookup", f.active, quarantined, f.node, f.result)
    BY <1>2, <2>1, <2>3, AssignedFields DEF Label
  <2>5. g \in Frame /\ Placed(g)
    BY <1>2, <2>4 DEF Becomes, Placed, SamplingLabel, RoutingCall
  <2>6. ASSUME NEW w \in Witness, Current(w, statuses), Seen(f, w)
        PROVE  Seen(g, w)
    <3>1. quarantined \subseteq w.quarantined
      BY <2>6 DEF Current, quarantined
    <3>2. QED
      BY <1>2, <2>4, <2>6, <3>1 DEF Becomes, Seen, Snapshotted
  <2>7. QED
    BY <2>2, <2>5, <2>6 DEF Follows
<1>6. CASE StickyLookup(t)
  <2>. DEFINE mapped == quarantine_by_hash[f.hash]
              quarantined == mapped \in f.quarantined
              first == QuarantinedNodeIsFirstForHash(mapped, f.active, f.hash)
  <2>1. \/ quarantined /\ first /\ frame' = [frame EXCEPT ![t] = AfterSampling(f, mapped)]
        \/ quarantined /\ ~first /\ frame' = [frame EXCEPT ![t] = AfterSampling(f, NoNode)]
        \/ ~quarantined /\ frame' = [frame EXCEPT ![t] = [f EXCEPT !.pc = "Sample"]]
    BY <1>2, <1>6 DEF StickyLookup
  <2>2. f.hash \in Hash /\ mapped \in Node \cup {NoNode} /\ f.quarantined \subseteq Node
    BY <1>2 DEF Frame
  <2>. HIDE DEF mapped, first, f
  <2>3. CASE quarantined /\ first
    <3>1. ASSUME NEW w \in Witness, Seen(f, w)
          PROVE  mapped \in w.quarantined
      BY <1>2, <2>3, <3>1 DEF Seen, RoutingCall
    <3>2. mapped # NoNode
      BY <2>2, <2>3, LiveNodesAssumption
    <3>3. Follows(f, AfterSampling(f, mapped), statuses)
      BY <1>2, <2>2, <3>1, <3>2, AfterSamplingFollows
    <3>4. QED
      BY <2>1, <2>3, <3>3
  <2>4. CASE quarantined /\ ~first
    <3>1. f.active # {}
      BY <2>2, <2>4, AloneIsFirst DEF first
    <3>2. Follows(f, AfterSampling(f, NoNode), statuses)
      BY <1>2, <3>1, AfterSamplingFollows
    <3>3. QED
      BY <2>1, <2>4, <3>2
  <2>5. CASE ~quarantined
    <3>1. PICK g : g = [f EXCEPT !.pc = "Sample"]
      OBVIOUS
    <3>2. Becomes(f, g, "Sample", f.active, f.quarantined, f.node, f.result)
      BY ZenonT(40), <1>2, <3>1, AssignedFields DEF Label
    <3>3. g \in Frame /\ Placed(g)
      BY <1>2, <3>2 DEF Becomes, Placed, SamplingLabel, RoutingCall
    <3>4. ASSUME NEW w \in Witness, Seen(f, w)
          PROVE  Seen(g, w)
      BY <1>2, <3>2, <3>4 DEF Becomes, Seen, Snapshotted
    <3>5. QED
      BY <2>1, <2>5, <3>1, <3>3, <3>4 DEF Follows
  <2>6. QED
    BY <2>3, <2>4, <2>5
<1>7. QED
  BY <1>5, <1>6

(* The assignment of a sampled node to a hash, and the end of a call.      *)
LEMMA AssignKeepsRoutes ==
    ASSUME RoutesAreSound, UpdateInv', NEW t \in Thread, Assign(t) \/ Return(t)
    PROVE  RoutesAreSound'
<1>. DEFINE f == frame[t]
<1>1. Witnessing /\ statuses' = statuses /\ f.pc \in {"Assign", "Return"}
  BY DEF Assign, Return, At
<1>2. /\ f \in Frame /\ Placed(f) /\ frame \in [Thread -> Frame]
      /\ quarantine_by_hash \in [Hash -> Node \cup {NoNode}]
      /\ f.node \in Node \cup {NoNode}
  BY DEF RoutesAreSound, TypeOK, Frame
<1>3. CountersTyped'
  BY <1>2 DEF Assign, Return, routing, indexes, RoutesAreSound, TypeOK, CountersTyped
<1>4. SUFFICES \E g : frame' = [frame EXCEPT ![t] = g] /\ Follows(f, g, statuses)
  BY <1>1, <1>3, FollowingStep
<1>5. CASE Assign(t)
  <2>1. frame' = [frame EXCEPT ![t] = AfterSampling(f, f.node)] /\ f.pc = "Assign"
    BY <1>5 DEF Assign, At
  <2>2. f.pc \in Snapshotted \ {"RoundRobin"} /\ f.call = "HashPlan"
    BY <1>2, <2>1 DEF Snapshotted, Placed
  <2>3. ASSUME NEW w \in Witness, Seen(f, w)
        PROVE  f.node \in w.quarantined /\ f.node # NoNode
    BY <2>1, <2>2, <2>3, LiveNodesAssumption DEF Seen, RoutingCall, Witness
  <2>. HIDE DEF f
  <2>4. Follows(f, AfterSampling(f, f.node), statuses)
    BY <1>2, <2>2, <2>3, AfterSamplingFollows
  <2>5. QED
    BY <2>1, <2>4
<1>6. CASE Return(t)
  <2>1. PICK g : g = NewFrame("None", "Idle")
    OBVIOUS
  <2>2. g \in Frame /\ g.call = "None" /\ g.pc = "Idle"
    BY <2>1, NewFrameType DEF Label
  <2>3. Follows(f, g, statuses)
    BY <2>2, NewFrameFollows DEF RoutingCall, SamplingLabel, Snapshotted
  <2>4. QED
    BY <1>6, <2>1, <2>3 DEF Return, IdleFrame
<1>7. QED
  BY <1>5, <1>6

(* Forgetting the assignments of a node keeps their type.                  *)
LEMMA ForgettingKeepsType ==
    ASSUME quarantine_by_hash \in [Hash -> Node \cup {NoNode}], NEW n
    PROVE  WithoutAssignmentsTo(n) \in [Hash -> Node \cup {NoNode}]
BY DEF WithoutAssignmentsTo

(* The steps of ReportNodeResult.                                          *)
LEMMA ReportKeepsRoutes ==
    ASSUME RoutesAreSound, UpdateInv', NEW t \in Thread,
           ReportToStore(t) \/ ReportStatus(t) \/ ReportForget(t)
    PROVE  RoutesAreSound'
<1>. DEFINE f == frame[t]
<1>1. Witnessing
  BY DEF ReportToStore, ReportStatus, ReportForget
<1>2. /\ f \in Frame /\ frame \in [Thread -> Frame]
      /\ quarantine_by_hash \in [Hash -> Node \cup {NoNode}]
  BY DEF RoutesAreSound, TypeOK
<1>3. CountersTyped'
  BY <1>2, ForgettingKeepsType DEF ReportToStore, ReportStatus, ReportForget, routing, indexes,
     RoutesAreSound, TypeOK, CountersTyped
<1>4. SUFFICES \E g : frame' = [frame EXCEPT ![t] = g] /\ Follows(f, g, statuses')
  BY <1>1, <1>3, FollowingStep
<1>5. ASSUME NEW pc \in {"ReportStatus", "Forget"}
      PROVE  Follows(f, [f EXCEPT !.pc = pc], statuses')
  <2>1. PICK g : g = [f EXCEPT !.pc = pc]
    OBVIOUS
  <2>. HIDE DEF f
  <2>2. Becomes(f, g, pc, f.active, f.quarantined, f.node, f.result)
    BY <1>2, <2>1, AssignedFields DEF Label
  <2>3. pc \notin SamplingLabel \cup Snapshotted \cup {"Fetch", "Return"}
    BY DEF SamplingLabel, Snapshotted
  <2>4. QED
    BY <1>2, <2>1, <2>2, <2>3, ElsewhereFollows
<1>6. Follows(f, AfterReport(f), statuses')
  <2>1. PICK g : g = AfterReport(f)
    OBVIOUS
  <2>2. g \in Frame /\ <<g.call, g.pc>> \in {<<"Update", "Fetch">>, <<"None", "Idle">>}
    <3>1. CASE f.call = "Update"
      <4>1. g = NewFrame("Update", "Fetch")
        BY <2>1, <3>1 DEF AfterReport
      <4>2. g \in Frame /\ g.call = "Update" /\ g.pc = "Fetch"
        BY <4>1, NewFrameType DEF Call, Label
      <4>3. QED
        BY <4>2
    <3>2. CASE f.call # "Update"
      <4>1. g = NewFrame("None", "Idle")
        BY <2>1, <3>2 DEF AfterReport, IdleFrame
      <4>2. QED
        BY <4>1, NewFrameType DEF Label
    <3>3. QED
      BY <3>1, <3>2
  <2>3. QED
    BY <2>1, <2>2, NewFrameFollows DEF RoutingCall, SamplingLabel, Snapshotted
<1>7. CASE ReportToStore(t)
  BY <1>2, <1>5, <1>7 DEF ReportToStore
<1>8. CASE ReportStatus(t)
  BY <1>5, <1>6, <1>8 DEF ReportStatus
<1>9. CASE ReportForget(t)
  BY <1>6, <1>9 DEF ReportForget
<1>10. QED
  BY <1>7, <1>8, <1>9

(* The steps of FetchLiveNodes.                                            *)
LEMMA FetchKeepsRoutes ==
    ASSUME RoutesAreSound, UpdateInv', NEW t \in Thread,
           FetchPlan(t) \/ FetchError(t) \/ FetchResult(t)
    PROVE  RoutesAreSound'
<1>. DEFINE f == frame[t]
<1>1. Witnessing /\ CountersTyped' /\ f.pc = "Fetch"
  BY DEF FetchPlan, FetchError, FetchResult, At, routing, indexes, RoutesAreSound, TypeOK,
         CountersTyped
<1>2. f \in Frame /\ frame \in [Thread -> Frame] /\ f.call = "Update"
  BY <1>1 DEF RoutesAreSound, TypeOK, Placed
<1>3. SUFFICES \E g : frame' = [frame EXCEPT ![t] = g] /\ Follows(f, g, statuses')
  BY <1>1, FollowingStep
<1>4. CASE FetchPlan(t)
  <2>1. PICK g : g = [f EXCEPT !.pc = "Active"]
    OBVIOUS
  <2>2. frame' = [frame EXCEPT ![t] = g]
    BY <1>2, <1>4, <2>1 DEF FetchPlan
  <2>. HIDE DEF f
  <2>3. Becomes(f, g, "Active", f.active, f.quarantined, f.node, f.result)
    BY <1>2, <2>1, AssignedFields DEF Label
  <2>4. g \in Frame /\ Placed(g) /\ g.call \notin RoutingCall
    BY <1>2, <2>3 DEF Becomes, Placed, RoutingCall
  <2>5. QED
    BY <2>2, <2>4 DEF Follows, Seen
<1>5. CASE FetchError(t)
  <2>1. PICK n \in Node : frame' = [frame EXCEPT ![t] = [f EXCEPT !.pc = "Report", !.node = n]]
    BY <1>2, <1>5 DEF FetchError
  <2>2. PICK g : g = [f EXCEPT !.pc = "Report", !.node = n]
    OBVIOUS
  <2>. HIDE DEF f
  <2>3. Becomes(f, g, "Report", f.active, f.quarantined, n, f.result)
    BY <1>2, <2>2, AssignedFields DEF Label
  <2>4. Follows(f, g, statuses')
    BY <1>2, <2>3, ElsewhereFollows DEF SamplingLabel, Snapshotted
  <2>5. QED
    BY <2>1, <2>2, <2>4
<1>6. CASE FetchResult(t)
  <2>1. \/ frame' = [frame EXCEPT ![t] = IdleFrame]
        \/ frame' = [frame EXCEPT ![t] = [f EXCEPT !.pc = "ProbeSnapshot"]]
        \/ \E fresh \in SUBSET Node :
             frame' = [frame EXCEPT ![t] = [f EXCEPT !.pc = "Lock", !.fresh = fresh]]
    BY <1>2, <1>6 DEF FetchResult
  <2>2. Follows(f, IdleFrame, statuses')
    <3>1. PICK g : g = IdleFrame
      OBVIOUS
    <3>2. g \in Frame /\ g.call = "None" /\ g.pc = "Idle"
      BY <3>1, NewFrameType DEF IdleFrame, Label
    <3>3. QED
      BY <3>1, <3>2, NewFrameFollows DEF RoutingCall, SamplingLabel, Snapshotted
  <2>. HIDE DEF f
  <2>3. Follows(f, [f EXCEPT !.pc = "ProbeSnapshot"], statuses')
    <3>1. PICK g : g = [f EXCEPT !.pc = "ProbeSnapshot"]
      OBVIOUS
    <3>2. Becomes(f, g, "ProbeSnapshot", f.active, f.quarantined, f.node, f.result)
      BY <1>2, <3>1, AssignedFields DEF Label
    <3>3. QED
      BY <1>2, <3>1, <3>2, ElsewhereFollows DEF SamplingLabel, Snapshotted
  <2>4. ASSUME NEW fresh \in SUBSET Node
        PROVE  Follows(f, [f EXCEPT !.pc = "Lock", !.fresh = fresh], statuses')
    <3>1. PICK g : g = [f EXCEPT !.pc = "Lock", !.fresh = fresh]
      OBVIOUS
    <3>2. Becomes(f, g, "Lock", f.active, f.quarantined, f.node, f.result)
      BY <1>2, <3>1, AssignedFields DEF Label
    <3>3. QED
      BY <1>2, <3>1, <3>2, ElsewhereFollows DEF SamplingLabel, Snapshotted
  <2>5. QED
    BY <2>1, <2>2, <2>3, <2>4
<1>7. QED
  BY <1>4, <1>5, <1>6

(* The steps under mutex_ and after it.                                    *)
LEMMA UpdateKeepsRoutes ==
    ASSUME RoutesAreSound, UpdateInv', NEW t \in Thread,
           \/ LockNodes(t) \/ AddNextNode(t) \/ RemoveNextNode(t)
           \/ PublishNodes(t) \/ ForgetRemoved(t)
    PROVE  RoutesAreSound'
<1>. DEFINE f == frame[t]
            n == Least(f.todo)
<1>1. Witnessing
  BY DEF LockNodes, AddNextNode, RemoveNextNode, PublishNodes, ForgetRemoved
<1>2. /\ f \in Frame /\ frame \in [Thread -> Frame] /\ live_nodes \subseteq Node
      /\ quarantine_by_hash \in [Hash -> Node \cup {NoNode}]
      /\ f.fresh \in SUBSET Node /\ f.todo \in SUBSET Node /\ f.removed \in SUBSET Node
  BY DEF RoutesAreSound, TypeOK, Frame
<1>3. CountersTyped'
  BY <1>2, ForgettingKeepsType DEF LockNodes, AddNextNode, RemoveNextNode, PublishNodes,
     ForgetRemoved, routing, indexes, RoutesAreSound, TypeOK, CountersTyped
<1>4. SUFFICES \E g : /\ frame' = [frame EXCEPT ![t] = g]
                      /\ \E pc : /\ Becomes(f, g, pc, f.active, f.quarantined, f.node, f.result)
                                 /\ pc \in {"AddNodes", "RemoveNodes", "ForgetRemoved", "ProbeSnapshot"}
  <2>1. \A pc \in {"AddNodes", "RemoveNodes", "ForgetRemoved", "ProbeSnapshot"} :
          pc \notin SamplingLabel \cup Snapshotted \cup {"Fetch", "Return"}
    BY DEF SamplingLabel, Snapshotted
  <2>2. \E g : frame' = [frame EXCEPT ![t] = g] /\ Follows(f, g, statuses')
    BY <1>2, <1>4, <2>1, ElsewhereFollows
  <2>3. QED
    BY <1>1, <1>3, <2>2, FollowingStep
<1>5. CASE LockNodes(t)
  <2>1. PICK g : g = [f EXCEPT !.pc = "AddNodes", !.todo = f.fresh]
    OBVIOUS
  <2>2. frame' = [frame EXCEPT ![t] = g]
    BY <1>2, <1>5, <2>1 DEF LockNodes
  <2>. HIDE DEF f
  <2>3. Becomes(f, g, "AddNodes", f.active, f.quarantined, f.node, f.result)
    BY <1>2, <2>1, AssignedFields DEF Label
  <2>4. QED
    BY <2>2, <2>3
<1>6. CASE AddNextNode(t)
  <2>. DEFINE rest == f.todo \ {n}
              todo == IF rest = {} THEN live_nodes \ f.fresh ELSE rest
              pc == IF rest = {} THEN "RemoveNodes" ELSE "AddNodes"
  <2>1. PICK g : g = [f EXCEPT !.todo = todo, !.pc = pc]
    OBVIOUS
  <2>2. frame' = [frame EXCEPT ![t] = g]
    BY <1>2, <1>6, <2>1 DEF AddNextNode
  <2>. HIDE DEF f, n
  <2>3. todo \in SUBSET Node /\ pc \in {"AddNodes", "RemoveNodes"} /\ pc \in Label
    BY <1>2 DEF Label
  <2>. HIDE DEF todo, pc
  <2>4. Becomes(f, g, pc, f.active, f.quarantined, f.node, f.result)
    BY <1>2, <2>1, <2>3, AssignedFields
  <2>5. QED
    BY <2>2, <2>3, <2>4
<1>7. CASE RemoveNextNode(t)
  <2>1. PICK g : g = [f EXCEPT !.todo = f.todo \ {n}, !.removed = f.removed \cup {n}]
    OBVIOUS
  <2>2. frame' = [frame EXCEPT ![t] = g] /\ f.todo # {} /\ f.pc = "RemoveNodes"
    BY <1>2, <1>7, <2>1 DEF RemoveNextNode, At
  <2>3. n \in Node
    BY <1>2, <2>2, NodeAssumption, LeastIsMember
  <2>. HIDE DEF f, n
  <2>4. f.todo \ {n} \in SUBSET Node /\ f.removed \cup {n} \in SUBSET Node
    BY <1>2, <2>3
  <2>5. Becomes(f, g, f.pc, f.active, f.quarantined, f.node, f.result)
    BY <1>2, <2>1, <2>2, <2>4, LiveNodesAssumption, AssignedFields DEF Label
  <2>6. QED
    BY <2>2, <2>5
<1>8. CASE PublishNodes(t)
  <2>1. PICK g : g = [f EXCEPT !.pc = "ForgetRemoved"]
    OBVIOUS
  <2>2. frame' = [frame EXCEPT ![t] = g]
    BY <1>2, <1>8, <2>1 DEF PublishNodes
  <2>. HIDE DEF f
  <2>3. Becomes(f, g, "ForgetRemoved", f.active, f.quarantined, f.node, f.result)
    <3>1. "ForgetRemoved" \in Label /\ NoNode \in Node \cup {NoNode}
      BY DEF Label
    <3>2. QED
      BY <1>2, <2>1, <3>1, AssignedFields
  <2>4. QED
    BY <2>2, <2>3
<1>9. CASE ForgetRemoved(t)
  <2>. DEFINE left == f.removed \ {Least(f.removed)}
  <2>1. /\ f.pc = "ForgetRemoved"
        /\ \/ frame' = [frame EXCEPT ![t] = [f EXCEPT !.removed = left]]
           \/ frame' = [frame EXCEPT ![t] = [f EXCEPT !.pc = "ProbeSnapshot"]]
    BY <1>2, <1>9 DEF ForgetRemoved, At
  <2>2. left \in SUBSET Node
    BY <1>2
  <2>. HIDE DEF f, left
  <2>3. PICK g : \/ g = [f EXCEPT !.removed = left] /\ frame' = [frame EXCEPT ![t] = g]
                 \/ g = [f EXCEPT !.pc = "ProbeSnapshot"] /\ frame' = [frame EXCEPT ![t] = g]
    BY <2>1
  <2>4. \/ Becomes(f, g, f.pc, f.active, f.quarantined, f.node, f.result)
        \/ Becomes(f, g, "ProbeSnapshot", f.active, f.quarantined, f.node, f.result)
    BY ZenonT(40), <1>2, <2>2, <2>3, AssignedFields DEF Label
  <2>5. QED
    BY <2>1, <2>3, <2>4
<1>10. QED
  BY <1>5, <1>6, <1>7, <1>8, <1>9

(* The steps of ProbeDownNodes; a NextNode that has probed begins anew.    *)
LEMMA ProbeKeepsRoutes ==
    ASSUME RoutesAreSound, UpdateInv', NEW t \in Thread,
           ProbeSnapshot(t) \/ ProbeLookup(t) \/ ProbeReport(t)
    PROVE  RoutesAreSound'
<1>. DEFINE f == frame[t]
            n == Least(f.todo)
<1>1. Witnessing /\ CountersTyped'
  BY DEF ProbeSnapshot, ProbeLookup, ProbeReport, routing, indexes, RoutesAreSound, TypeOK,
         CountersTyped
<1>2. /\ f \in Frame /\ frame \in [Thread -> Frame] /\ f.todo \in SUBSET Node
      /\ GetDownNodes(statuses) \in SUBSET Node
  BY QueriesAreNodes DEF RoutesAreSound, TypeOK, Frame
<1>3. SUFFICES \E g : frame' = [frame EXCEPT ![t] = g] /\ Follows(f, g, statuses')
  BY <1>1, FollowingStep
<1>4. \A pc \in {"ProbeLookup", "ProbeReport"} :
        pc \in Label /\ pc \notin SamplingLabel \cup Snapshotted \cup {"Fetch", "Return"}
  BY DEF Label, SamplingLabel, Snapshotted
<1>5. CASE ProbeSnapshot(t)
  <2>. DEFINE down == GetDownNodes(statuses)
  <2>1. PICK g : g = [f EXCEPT !.todo = down, !.pc = "ProbeLookup"]
    OBVIOUS
  <2>2. frame' = [frame EXCEPT ![t] = g]
    BY <1>2, <1>5, <2>1 DEF ProbeSnapshot
  <2>. HIDE DEF f, down
  <2>3. Becomes(f, g, "ProbeLookup", f.active, f.quarantined, f.node, f.result)
    <3>1. down \in SUBSET Node
      BY <1>2 DEF down
    <3>2. QED
      BY <1>2, <1>4, <2>1, <3>1, AssignedFields
  <2>4. QED
    BY <1>2, <1>4, <2>2, <2>3, ElsewhereFollows
<1>6. CASE ProbeLookup(t)
  <2>. DEFINE todo == f.todo \ {n}
              node == IF statuses[n] = NoStatus THEN NoNode ELSE n
              pc == IF statuses[n] = NoStatus THEN "ProbeLookup" ELSE "ProbeReport"
  <2>1. \/ f.todo # {} /\ frame' = [frame EXCEPT ![t] = [f EXCEPT !.todo = todo, !.node = node, !.pc = pc]]
        \/ f.call = "NextNode" /\ frame' = [frame EXCEPT ![t] = NewFrame("NextNode", "ActiveAgain")]
        \/ frame' = [frame EXCEPT ![t] = IdleFrame]
    BY <1>2, <1>6 DEF ProbeLookup
  <2>2. CASE f.todo # {} /\ frame' = [frame EXCEPT ![t] = [f EXCEPT !.todo = todo, !.node = node, !.pc = pc]]
    <3>1. n \in Node
      BY <1>2, <2>2, NodeAssumption, LeastIsMember
    <3>. HIDE DEF f, n
    <3>2. todo \in SUBSET Node /\ node \in Node \cup {NoNode} /\ pc \in {"ProbeLookup", "ProbeReport"}
      BY <1>2, <3>1
    <3>. HIDE DEF todo, node, pc
    <3>3. PICK g : g = [f EXCEPT !.todo = todo, !.node = node, !.pc = pc]
      OBVIOUS
    <3>4. Becomes(f, g, pc, f.active, f.quarantined, node, f.result)
      BY <1>2, <1>4, <3>2, <3>3, AssignedFields
    <3>5. QED
      BY <1>2, <1>4, <2>2, <3>2, <3>3, <3>4, ElsewhereFollows
  <2>3. Follows(f, NewFrame("NextNode", "ActiveAgain"), statuses')
    <3>1. PICK g : g = NewFrame("NextNode", "ActiveAgain")
      OBVIOUS
    <3>2. /\ g \in Frame /\ g.call = "NextNode" /\ g.pc = "ActiveAgain"
          /\ g.active = {} /\ g.quarantined = {} /\ g.result = {}
      BY <3>1, NewFrameType DEF Call, RoutingCall, Label
    <3>3. QED
      BY <3>1, <3>2, NewFrameFollows DEF RoutingCall
  <2>4. Follows(f, IdleFrame, statuses')
    <3>1. PICK g : g = IdleFrame
      OBVIOUS
    <3>2. g \in Frame /\ g.call = "None" /\ g.pc = "Idle"
      BY <3>1, NewFrameType DEF IdleFrame, Label
    <3>3. QED
      BY <3>1, <3>2, NewFrameFollows DEF RoutingCall, SamplingLabel, Snapshotted
  <2>. HIDE DEF todo, node, pc
  <2>5. QED
    BY <2>1, <2>2, <2>3, <2>4
<1>7. CASE ProbeReport(t)
  <2>1. PICK g : g = [f EXCEPT !.pc = "ProbeLookup", !.node = NoNode]
    OBVIOUS
  <2>2. frame' = [frame EXCEPT ![t] = g]
    BY <1>2, <1>7, <2>1 DEF ProbeReport
  <2>. HIDE DEF f
  <2>3. Becomes(f, g, "ProbeLookup", f.active, f.quarantined, NoNode, f.result)
    BY <1>2, <1>4, <2>1, AssignedFields
  <2>4. QED
    BY <1>2, <1>4, <2>2, <2>3, ElsewhereFollows
<1>8. QED
  BY <1>5, <1>6, <1>7

-----------------------------------------------------------------------------
(* The theorems.                                                           *)

(* The invariant holds when the constructor is done.                       *)
LEMMA InitRoutes ==
    Init => RoutesAreSound
<1>. SUFFICES ASSUME Init PROVE RoutesAreSound
  OBVIOUS
<1>1. UpdateInv
  BY InitUpdateInv
<1>2. PICK g : g = IdleFrame
  OBVIOUS
<1>3. g \in Frame /\ g.call = "None" /\ g.pc = "Idle"
  BY <1>2, NewFrameType DEF IdleFrame, Label
<1>4. NoWitness \in Witness /\ NoWitness.quarantined = {}
  BY DEF NoWitness, Witness
<1>5. frame = [t \in Thread |-> g] /\ witnessed = [t \in Thread |-> NoWitness]
  BY <1>2 DEF Init
<1>6. TypeOK
  <2>1. 0 \in Index /\ 0 \in 0 .. Interval - 1
    BY LiveNodesAssumption DEF Index, Interval, AtLeastOne
  <2>2. frame \in [Thread -> Frame] /\ witnessed \in [Thread -> Witness]
    BY <1>3, <1>4, <1>5
  <2>3. QED
    BY <1>1, <2>1, <2>2 DEF Init, TypeOK, UpdateInv
<1>7. Placed(g) /\ Seen(g, NoWitness)
  BY <1>3 DEF Placed, Seen, SamplingLabel, RoutingCall
<1>8. QED
  BY <1>1, <1>4, <1>5, <1>6, <1>7 DEF RoutesAreSound

(* Every step preserves it.                                                *)
LEMMA StepRoutes ==
    RoutesAreSound /\ [Next]_vars => RoutesAreSound'
<1>. SUFFICES ASSUME RoutesAreSound, [Next]_vars PROVE RoutesAreSound'
  OBVIOUS
<1>1. UpdateInv'
  BY StepUpdateInv DEF RoutesAreSound
<1>2. ASSUME NEW t \in Thread, Step(t)
      PROVE  RoutesAreSound'
  BY <1>1, <1>2, BeginKeepsRoutes, SnapshotKeepsRoutes, SamplingKeepsRoutes, PickKeepsRoutes,
     RoundRobinKeepsRoutes, StickyKeepsRoutes, AssignKeepsRoutes, ReportKeepsRoutes,
     FetchKeepsRoutes, UpdateKeepsRoutes, ProbeKeepsRoutes DEF Step
<1>3. CASE UNCHANGED vars
  <2>1. TypeOK'
    BY <1>3 DEF vars, routing, indexes, RoutesAreSound, TypeOK
  <2>2. QED
    BY <1>1, <1>3, <2>1 DEF vars, RoutesAreSound
<1>4. QED
  BY <1>2, <1>3 DEF Next

(* The snapshots of routing calls stay within what the calls witnessed,    *)
(* however many threads run.                                               *)
THEOREM RoutesStaySound ==
    Spec => []RoutesAreSound
BY InitRoutes, StepRoutes, PTL DEF Spec

(* Every variable of AlternatorLiveNodes, and every local variable of its  *)
(* calls, keeps its type; in particular no index runs out of a node list.  *)
THEOREM TypeCorrect ==
    Spec => []TypeOK
<1>1. RoutesAreSound => TypeOK
  BY DEF RoutesAreSound
<1>2. QED
  BY <1>1, RoutesStaySound, PTL

(* NextNode and the query plans return only nodes that were Active or      *)
(* Quarantined at some moment of the call.                                 *)
THEOREM RoutedNodesAreUsable ==
    Spec => []RoutedNodesWereUsable
<1>1. ASSUME RoutesAreSound
      PROVE  RoutedNodesWereUsable
  <2>1. ASSUME NEW t \in Thread, At(t, "Return")
        PROVE  /\ frame[t].result \subseteq witnessed[t].usable
               /\ Returned(frame[t], witnessed[t])
    BY <1>1, <2>1 DEF RoutesAreSound, Placed, Seen, At
  <2>2. QED
    BY <2>1 DEF RoutedNodesWereUsable, Returned, Returning
<1>2. QED
  BY <1>1, RoutesStaySound, PTL

(* Query plans contain every node that was Active throughout, and no call  *)
(* comes back empty-handed while a node is Active, or one is Quarantined,  *)
(* throughout.                                                             *)
THEOREM SteadyNodesStayRouted ==
    Spec => []SteadyNodesAreRouted
<1>1. ASSUME RoutesAreSound
      PROVE  SteadyNodesAreRouted
  <2>1. ASSUME NEW t \in Thread, At(t, "Return")
        PROVE  Returned(frame[t], witnessed[t])
    BY <1>1, <2>1 DEF RoutesAreSound, Placed, Seen, At
  <2>2. QED
    BY <2>1 DEF SteadyNodesAreRouted, Returned
<1>2. QED
  BY <1>1, RoutesStaySound, PTL

(* A routing call is empty-handed only after a moment without an Active    *)
(* node and one, then or later, without a Quarantined node, whatever other *)
(* threads do in between.                                                  *)
THEOREM EmptyMeansDrained ==
    Spec => []EmptyOnlyWhenDrained
<1>1. ASSUME RoutesAreSound
      PROVE  EmptyOnlyWhenDrained
  <2>1. ASSUME NEW t \in Thread, At(t, "Return")
        PROVE  Returned(frame[t], witnessed[t])
    BY <1>1, <2>1 DEF RoutesAreSound, Placed, Seen, At
  <2>2. QED
    BY <2>1 DEF EmptyOnlyWhenDrained, Returned
<1>2. QED
  BY <1>1, RoutesStaySound, PTL
=============================================================================
