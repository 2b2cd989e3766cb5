------------------------- MODULE HealthRulesProofs -------------------------
(* Lemmas about the rules of the health store, for the modules that use    *)
(* them.                                                                   *)
EXTENDS HealthRules, WellFoundedInduction, TLAPS

-----------------------------------------------------------------------------
(* Facts about the configuration and the counters.                         *)

(* Thresholds fit the counters and are at least one.                       *)
LEMMA Thresholds ==
    /\ ErrorThreshold \in Counter \ {0}
    /\ SuccessThreshold \in Counter \ {0}
    /\ 0 \in Counter /\ 1 \in Counter
BY ConfigAssumption DEF ErrorThreshold, SuccessThreshold, AtLeastOne, Counter

(* Incrementing a counter gives a counter, and is exact below the wrap.    *)
LEMMA CounterIncrement ==
    ASSUME NEW c \in Counter
    PROVE  /\ (c + 1) % CounterModulus \in Counter
           /\ c + 1 < CounterModulus => (c + 1) % CounterModulus = c + 1
BY ConfigAssumption DEF Counter

(* A known status is never the value that stands for an absent one.        *)
LEMMA KnownIsNotAbsent ==
    ASSUME NEW s \in NodeHealthStatus
    PROVE  s # NoStatus
BY DEF NodeHealthStatus, NodeHealthState, NoStatus

(* What CountersMatchState says of one status.                             *)
CountersMatch(s) ==
    /\ s.state # "Down" => s.errors < ErrorThreshold
    /\ s.state = "Down" => s.successes = 0
    /\ s.state = "Quarantined" => s.successes < SuccessThreshold \/ s.successes = 1
    /\ s.state = "Active" => s.successes \in {0, SuccessThreshold}

(* Every observation takes a well-formed status to a well-formed status,   *)
(* along an edge of the health state graph.                                *)
LEMMA AfterIsSound ==
    ASSUME NEW s \in NodeHealthStatus, CountersMatch(s),
           NEW o \in NodeHealthObservation
    PROVE  /\ After(s, o) \in NodeHealthStatus
           /\ CountersMatch(After(s, o))
           /\ s.state = "Down" => After(s, o).state # "Active"
           /\ s.state = "Active" => After(s, o).state # "Quarantined"
<1>1. CASE o = "Success"
  <2>1. After(s, o) = AfterSuccess(s)
    BY <1>1 DEF After
  <2>2. (s.successes + 1) % CounterModulus \in Counter
    BY CounterIncrement DEF NodeHealthStatus
  <2>3. QED
    BY <2>1, <2>2, Thresholds
    DEF AfterSuccess, NodeHealthStatus, NodeHealthState, CountersMatch, Counter
<1>2. CASE o = "ServerError"
  <2>1. After(s, o) = AfterServerError(s)
    BY <1>2 DEF After
  <2>2. (s.errors + 1) % CounterModulus \in Counter
    BY CounterIncrement DEF NodeHealthStatus
  <2>3. QED
    BY <2>1, <2>2, Thresholds
    DEF AfterServerError, NodeHealthStatus, NodeHealthState, CountersMatch, Counter
<1>3. CASE o = "ConnectionFailure"
  <2>1. After(s, o) = AfterConnectionFailure(s)
    BY <1>3 DEF After
  <2>2. QED
    BY <2>1, Thresholds
    DEF AfterConnectionFailure, NodeHealthStatus, NodeHealthState, CountersMatch, Counter
<1>4. QED
  BY <1>1, <1>2, <1>3 DEF NodeHealthObservation

(* A well-formed status stays well-formed, whatever its counters.          *)
LEMMA AfterIsStatus ==
    ASSUME NEW s \in NodeHealthStatus, NEW o \in NodeHealthObservation
    PROVE  After(s, o) \in NodeHealthStatus
<1>. /\ (s.successes + 1) % CounterModulus \in Counter
     /\ (s.errors + 1) % CounterModulus \in Counter
  BY CounterIncrement DEF NodeHealthStatus
<1>1. CASE o = "Success"
  <2>1. AfterSuccess(s) \in NodeHealthStatus
    BY Thresholds DEF AfterSuccess, NodeHealthStatus, NodeHealthState
  <2>2. QED
    BY <1>1, <2>1 DEF After
<1>2. CASE o = "ServerError"
  <2>1. AfterServerError(s) \in NodeHealthStatus
    BY Thresholds DEF AfterServerError, NodeHealthStatus, NodeHealthState
  <2>2. QED
    BY <1>2, <2>1 DEF After
<1>3. CASE o = "ConnectionFailure"
  <2>1. AfterConnectionFailure(s) \in NodeHealthStatus
    BY Thresholds DEF AfterConnectionFailure, NodeHealthStatus, NodeHealthState
  <2>2. QED
    BY <1>3, <2>1 DEF After
<1>4. QED
  BY <1>1, <1>2, <1>3 DEF NodeHealthObservation

(* A report changes statuses, but not which nodes are known; an n outside  *)
(* Node changes nothing.                                                   *)
LEMMA ReportKeepsKnown ==
    ASSUME NEW st \in StatusMap, NEW n, NEW o \in NodeHealthObservation
    PROVE  /\ ReportResult(st, n, o) \in StatusMap
           /\ Known(ReportResult(st, n, o)) = Known(st)
<1>1. CASE ~Listens(st, n) \/ n \notin Node
  <2>1. ReportResult(st, n, o) = st
    BY <1>1 DEF ReportResult, StatusMap
  <2>2. QED
    BY <2>1
<1>2. CASE Listens(st, n) /\ n \in Node
  <2>1. st[n] \in NodeHealthStatus
    BY <1>2 DEF Listens, StatusMap
  <2>2. After(st[n], o) \in NodeHealthStatus /\ After(st[n], o) # NoStatus /\ st[n] # NoStatus
    BY <2>1, AfterIsStatus, KnownIsNotAbsent
  <2>3. ReportResult(st, n, o) = [st EXCEPT ![n] = After(st[n], o)]
    BY <1>2 DEF ReportResult
  <2>4. QED
    BY <1>2, <2>2, <2>3 DEF StatusMap, Known
<1>3. QED
  BY <1>1, <1>2

(* AddNode and RemoveNode do to the known nodes what their names say.      *)
LEMMA AddAndRemoveKnown ==
    ASSUME NEW st \in StatusMap, NEW n \in Node
    PROVE  /\ AddNode(st, n) \in StatusMap
           /\ Known(AddNode(st, n)) = Known(st) \cup {n}
           /\ RemoveNode(st, n) \in StatusMap
           /\ Known(RemoveNode(st, n)) = Known(st) \ {n}
<1>1. NewStatus \in NodeHealthStatus /\ NewStatus # NoStatus
  BY Thresholds DEF NewStatus, NodeHealthStatus, NodeHealthState, NoStatus
<1>2. AddNode(st, n) \in StatusMap /\ Known(AddNode(st, n)) = Known(st) \cup {n}
  BY <1>1 DEF AddNode, StatusMap, Known
<1>3. RemoveNode(st, n) \in StatusMap /\ Known(RemoveNode(st, n)) = Known(st) \ {n}
  BY DEF RemoveNode, StatusMap, Known
<1>4. QED
  BY <1>2, <1>3

(* Least picks a member.                                                   *)
LEMMA LeastIsMember ==
    ASSUME NEW S \in SUBSET Nat, S # {}
    PROVE  Least(S) \in S
<1>. DEFINE Below == {ss \in Nat \X Nat : ss[1] < ss[2]}
<1>1. PICK x \in S : \A y \in S : <<y, x>> \notin Below
  <2>1. IsWellFoundedOn(Below, Nat)
    BY NatLessThanWellFounded DEF OpToRel
  <2>. HIDE DEF Below
  <2>2. QED
    BY <2>1, WFMin
<1>2. ASSUME NEW y \in S
      PROVE  x <= y
  <2>1. x \in Nat /\ y \in Nat /\ <<y, x>> \in Nat \X Nat
    OBVIOUS
  <2>2. ~(<<y, x>>[1] < <<y, x>>[2])
    BY <1>1, <2>1
  <2>3. QED
    BY <2>1, <2>2
<1>3. QED
  BY <1>2 DEF Least
=============================================================================
