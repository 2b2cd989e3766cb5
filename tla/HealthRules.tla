---------------------------- MODULE HealthRules ----------------------------
(***************************************************************************)
(* The rules of NodeHealthStore (node_health.h, node_health.cpp) as pure   *)
(* operators on a status map: what each method reads from, or makes of,    *)
(* `statuses_`.  Every method of the class holds the store's mutex_ for    *)
(* exactly the extent of one of these operators, so a module that uses     *)
(* them takes one atomic step per method call.                             *)
(*                                                                         *)
(* A URL is a natural number: the only thing the code does with URLs here  *)
(* is compare them for equality and sort them.                             *)
(***************************************************************************)
EXTENDS Naturals, FiniteSets

CONSTANTS
    Node,                     \* the URLs that can ever be known
    ErrorThresholdConfig,     \* consecutive_server_error_threshold, as given
    SuccessThresholdConfig,   \* quarantine_success_threshold, as given
    HealthDisabled,           \* NodeHealthStoreConfig::disabled
    CounterModulus            \* 2^32 in the code: the counters are uint32_t

-----------------------------------------------------------------------------
(* The constructor raises a zero threshold to one.                         *)
AtLeastOne(threshold) == IF threshold = 0 THEN 1 ELSE threshold

ErrorThreshold == AtLeastOne(ErrorThresholdConfig)
SuccessThreshold == AtLeastOne(SuccessThresholdConfig)

ASSUME NodeAssumption == Node \subseteq Nat /\ IsFiniteSet(Node)

ASSUME ConfigAssumption ==
    /\ HealthDisabled \in BOOLEAN
    /\ CounterModulus \in Nat
    /\ CounterModulus > 2
    /\ ErrorThresholdConfig \in 0 .. CounterModulus - 1
    /\ SuccessThresholdConfig \in 0 .. CounterModulus - 1

NodeHealthObservation == {"Success", "ServerError", "ConnectionFailure"}

NodeHealthState == {"Active", "Quarantined", "Down"}

Counter == 0 .. CounterModulus - 1

NodeHealthStatus ==
    [state : NodeHealthState, errors : Counter, successes : Counter]

(* What `statuses_.find` gives for a node that is not in the map.          *)
NoStatus == [state |-> "Unknown", errors |-> 0, successes |-> 0]

(* statuses_: a std::map, as a total function with NoStatus for its gaps.  *)
StatusMap == [Node -> NodeHealthStatus \cup {NoStatus}]

(* The status AddNode gives a node.                                        *)
NewStatus == [state |-> "Active", errors |-> 0, successes |-> SuccessThreshold]

Known(st) == {n \in Node : st[n] # NoStatus}

-----------------------------------------------------------------------------
(* ReportNodeResult, one operator per observation.                         *)

(* Mutant: the error count survives a success.                             *)
AfterSuccessKeepsErrors(s) ==
    IF s.state = "Down"
    THEN [state |-> "Quarantined", errors |-> 0, successes |-> 1]
    ELSE IF s.state = "Quarantined" /\ s.successes + 1 < SuccessThreshold
    THEN [s EXCEPT !.successes = @ + 1]
    ELSE [s EXCEPT !.state = "Active", !.successes = SuccessThreshold]

(* Mutant: any success makes a node Active.                                *)
AfterSuccessForgives(s) == NewStatus

(* The success that takes a node out of Down is the first of its           *)
(* quarantine; the threshold is only compared from the second one on.      *)
AfterSuccess(s) ==
    LET succ == (s.successes + 1) % CounterModulus IN
    CASE s.state = "Down" ->
            [state |-> "Quarantined", errors |-> 0, successes |-> 1]
      [] s.state = "Quarantined" /\ succ < SuccessThreshold ->
            [state |-> "Quarantined", errors |-> 0, successes |-> succ]
      [] OTHER ->
            [state |-> "Active", errors |-> 0, successes |-> SuccessThreshold]

(* Mutant: the threshold is compared with > instead of >=.                 *)
AfterServerErrorLate(s) ==
    LET errs == (s.errors + 1) % CounterModulus IN
    [state |-> IF errs > ErrorThreshold THEN "Down" ELSE s.state,
     errors |-> errs, successes |-> 0]

AfterServerError(s) ==
    LET errs == (s.errors + 1) % CounterModulus IN
    [state |-> IF errs >= ErrorThreshold THEN "Down" ELSE s.state,
     errors |-> errs, successes |-> 0]

AfterConnectionFailure(s) ==
    [state |-> "Down", errors |-> ErrorThreshold, successes |-> 0]

After(s, observation) ==
    CASE observation = "Success" -> AfterSuccess(s)
      [] observation = "ServerError" -> AfterServerError(s)
      [] observation = "ConnectionFailure" -> AfterConnectionFailure(s)

(* Does a report reach a status at all?                                    *)
Listens(st, n) == ~HealthDisabled /\ st[n] # NoStatus

ReportResult(st, n, observation) ==
    IF Listens(st, n) THEN [st EXCEPT ![n] = After(@, observation)] ELSE st

-----------------------------------------------------------------------------
(* AddNode, RemoveNode.                                                    *)

AddNode(st, n) == IF st[n] = NoStatus THEN [st EXCEPT ![n] = NewStatus] ELSE st

RemoveNode(st, n) == [st EXCEPT ![n] = NoStatus]

(* The store the constructor builds.                                       *)
NewStore(initial) == [n \in Node |-> IF n \in initial THEN NewStatus ELSE NoStatus]

-----------------------------------------------------------------------------
(* The queries.                                                            *)

NodesByState(st, state) == {n \in Node : st[n].state = state}

GetActiveNodes(st) ==
    IF HealthDisabled THEN Known(st) ELSE NodesByState(st, "Active")

GetQuarantinedNodes(st) ==
    IF HealthDisabled THEN {} ELSE NodesByState(st, "Quarantined")

GetDownNodes(st) ==
    IF HealthDisabled THEN {} ELSE NodesByState(st, "Down")

(* The nodes come back sorted, and ProbeDownNodes walks them in order.     *)
Least(S) == CHOOSE n \in S : \A m \in S : n <= m
=============================================================================
