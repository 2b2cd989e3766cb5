-------------------------- MODULE NodeHealthProofs --------------------------
(***************************************************************************)
(* Theorems about NodeHealth, for any set of nodes and probers, any        *)
(* thresholds, any counter width and any number of reports.                *)
(*                                                                         *)
(* Inv is inductive.  Besides the types and CountersMatchState it says,    *)
(* node by node, how the two counters and the state are read off the       *)
(* reports applied so far (Accounts); StateFollowsReports is then a        *)
(* consequence for every reachable state.                                  *)
(***************************************************************************)
EXTENDS NodeHealth, HealthRulesProofs

-----------------------------------------------------------------------------
(* The inductive invariant.                                                *)

(* h ends in exactly c reports o.                                          *)
EndsInRun(h, c, o) ==
    /\ c <= Len(h)
    /\ \A k \in (Len(h) - c + 1) .. Len(h) : h[k] = o
    /\ c < Len(h) => h[Len(h) - c] # o

(* No report after d is a success.                                         *)
NoSuccessSince(h, d) == \A i \in (d + 1) .. Len(h) : h[i] # "Success"

Accounts(s, h) ==
    /\ s.state # "Down" => EndsInRun(h, s.errors, "ServerError")
    /\ s.state = "Active" => Outstanding(h) = {}
    /\ s.state = "Down" =>
         \E d \in 1 .. Len(h) : MarksDown(h, d) /\ NoSuccessSince(h, d)
    /\ s.state = "Quarantined" =>
         /\ Outstanding(h) # {}
         /\ \A d \in Outstanding(h) : ~NoSuccessSince(h, d)
         /\ EndsInRun(h, s.successes, "Success")

ReportsAccounted ==
    \A n \in Node : IF statuses[n] = NoStatus
                    THEN history[n] = << >>
                    ELSE Accounts(statuses[n], history[n])

Inv == TypeOK /\ CountersMatchState /\ ReportsAccounted

-----------------------------------------------------------------------------
(* One more report at the end of a history.                                *)

(* g is h followed by the report o.                                        *)
Extends(g, h, o) ==
    /\ g \in Seq(NodeHealthObservation)
    /\ Len(g) = Len(h) + 1
    /\ g[Len(h) + 1] = o
    /\ \A k \in 1 .. Len(h) : g[k] = h[k]

(* Appending a report extends the history by it.                           *)
LEMMA AppendExtends ==
    ASSUME NEW h \in Seq(NodeHealthObservation), NEW o \in NodeHealthObservation
    PROVE  Extends(Append(h, o), h, o)
BY DEF Extends

(* An earlier report marks the node down in the longer history iff it did  *)
(* in the shorter one, and the same for promotions.                        *)
LEMMA ThePastStays ==
    ASSUME NEW h \in Seq(NodeHealthObservation), NEW o \in NodeHealthObservation,
           NEW g, Extends(g, h, o), NEW i \in 1 .. Len(h)
    PROVE  /\ MarksDown(g, i) <=> MarksDown(h, i)
           /\ \A d \in 1 .. Len(h) : Promotes(g, d, i) <=> Promotes(h, d, i)
<1>. /\ ErrorThreshold \in Nat \ {0} /\ SuccessThreshold \in Nat \ {0}
     /\ Len(h) \in Nat
  BY Thresholds DEF Counter
<1>1. MarksDown(g, i) <=> MarksDown(h, i)
  BY DEF MarksDown, Extends
<1>2. ASSUME NEW d \in 1 .. Len(h)
      PROVE  Promotes(g, d, i) <=> Promotes(h, d, i)
  BY DEF Promotes, Extends
<1>3. QED
  BY <1>1, <1>2

(* The outstanding reports after one more report: those it does not make   *)
(* up for, and the report itself if it marks the node down.                *)
LEMMA OutstandingExtended ==
    ASSUME NEW h \in Seq(NodeHealthObservation), NEW o \in NodeHealthObservation,
           NEW g, Extends(g, h, o)
    PROVE  Outstanding(g) =
             {d \in Outstanding(h) : ~Promotes(g, d, Len(h) + 1)}
               \cup {d \in {Len(h) + 1} : MarksDown(g, d)}
<1>. Len(h) \in Nat /\ Len(g) = Len(h) + 1
  BY DEF Extends
<1>1. ASSUME NEW d \in 1 .. Len(h)
      PROVE  d \in Outstanding(g) <=>
               d \in Outstanding(h) /\ ~Promotes(g, d, Len(h) + 1)
  <2>1. MarksDown(g, d) <=> MarksDown(h, d)
    BY ThePastStays
  <2>2. \A i \in (d + 1) .. Len(h) : Promotes(g, d, i) <=> Promotes(h, d, i)
    BY ThePastStays
  <2>3. (\A i \in (d + 1) .. Len(g) : ~Promotes(g, d, i)) <=>
          /\ \A i \in (d + 1) .. Len(h) : ~Promotes(g, d, i)
          /\ ~Promotes(g, d, Len(h) + 1)
    OBVIOUS
  <2>4. QED
    BY <2>1, <2>2, <2>3 DEF Outstanding
<1>2. Len(h) + 1 \in Outstanding(g) <=> MarksDown(g, Len(h) + 1)
  BY DEF Outstanding
<1>3. Outstanding(g) \subseteq 1 .. (Len(h) + 1) /\ Outstanding(h) \subseteq 1 .. Len(h)
  BY DEF Outstanding
<1>4. QED
  BY <1>1, <1>2, <1>3

(* A report that marks the node down is not a success, and only a success  *)
(* promotes.                                                               *)
LEMMA MarksAndPromotions ==
    ASSUME NEW g \in Seq(NodeHealthObservation), NEW i \in 1 .. Len(g)
    PROVE  /\ MarksDown(g, i) => g[i] # "Success"
           /\ \A d \in 1 .. Len(g) : Promotes(g, d, i) => g[i] = "Success"
<1>. /\ ErrorThreshold \in Nat \ {0} /\ SuccessThreshold \in Nat \ {0}
  BY Thresholds DEF Counter
<1>. QED
  BY DEF MarksDown, Promotes

(* A run grows by one report of its kind, and is cut to nothing by another.*)
LEMMA RunExtended ==
    ASSUME NEW h \in Seq(NodeHealthObservation), NEW o \in NodeHealthObservation,
           NEW g, Extends(g, h, o), NEW c \in Nat, NEW r \in NodeHealthObservation
    PROVE  /\ r # o => EndsInRun(g, 0, r)
           /\ r = o /\ EndsInRun(h, c, r) => EndsInRun(g, c + 1, r)
<1>. Len(h) \in Nat /\ Len(g) = Len(h) + 1 /\ g[Len(h) + 1] = o
  BY DEF Extends
<1>1. r # o => EndsInRun(g, 0, r)
  BY DEF EndsInRun
<1>2. ASSUME r = o, EndsInRun(h, c, r)
      PROVE  EndsInRun(g, c + 1, r)
  <2>1. c + 1 <= Len(g)
    BY <1>2 DEF EndsInRun
  <2>2. ASSUME NEW k \in (Len(g) - (c + 1) + 1) .. Len(g)
        PROVE  g[k] = r
    <3>1. CASE k = Len(h) + 1
      BY <3>1, <1>2
    <3>2. CASE k # Len(h) + 1
      <4>1. k \in (Len(h) - c + 1) .. Len(h) /\ k \in 1 .. Len(h)
        BY <3>2, <2>1
      <4>2. QED
        BY <4>1, <1>2 DEF EndsInRun, Extends
    <3>3. QED
      BY <3>1, <3>2
  <2>3. ASSUME c + 1 < Len(g)
        PROVE  g[Len(g) - (c + 1)] # r
    <3>1. Len(g) - (c + 1) = Len(h) - c /\ Len(h) - c \in 1 .. Len(h) /\ c < Len(h)
      BY <2>3
    <3>2. QED
      BY <3>1, <1>2 DEF EndsInRun, Extends
  <2>4. QED
    BY <2>1, <2>2, <2>3 DEF EndsInRun
<1>3. QED
  BY <1>1, <1>2

-----------------------------------------------------------------------------
(* ReportNodeResult keeps the accounts: one lemma per observation.         *)

(* A connection failure is the report the Down state answers for.          *)
LEMMA ConnectionFailureAccounts ==
    ASSUME NEW s \in NodeHealthStatus, NEW h \in Seq(NodeHealthObservation),
           NEW g, Extends(g, h, "ConnectionFailure")
    PROVE  Accounts(AfterConnectionFailure(s), g)
<1>1. Len(h) \in Nat /\ Len(g) = Len(h) + 1 /\ g[Len(h) + 1] = "ConnectionFailure"
  BY DEF Extends
<1>2. MarksDown(g, Len(h) + 1) /\ NoSuccessSince(g, Len(h) + 1)
  BY <1>1 DEF MarksDown, NoSuccessSince
<1>3. Len(h) + 1 \in 1 .. Len(g)
  BY <1>1
<1>4. QED
  BY <1>2, <1>3 DEF Accounts, AfterConnectionFailure

(* A 5xx response lengthens the run of errors; it marks the node down      *)
(* exactly when the counter reaches the threshold.                         *)
LEMMA ServerErrorAccounts ==
    ASSUME NEW s \in NodeHealthStatus, CountersMatch(s),
           NEW h \in Seq(NodeHealthObservation), Accounts(s, h),
           NEW g, Extends(g, h, "ServerError")
    PROVE  Accounts(AfterServerError(s), g)
<1>. DEFINE t == AfterServerError(s)
            errs == (s.errors + 1) % CounterModulus
            L == Len(h)
<1>1. /\ L \in Nat /\ Len(g) = L + 1 /\ g[L + 1] = "ServerError"
      /\ g \in Seq(NodeHealthObservation)
      /\ \A k \in 1 .. L : g[k] = h[k]
  BY DEF Extends
<1>2. /\ ErrorThreshold \in Nat \ {0} /\ ErrorThreshold < CounterModulus
      /\ CounterModulus \in Nat /\ s.errors \in Counter /\ errs \in Counter
      /\ s.errors \in Nat
  BY Thresholds, ConfigAssumption, CounterIncrement DEF Counter, NodeHealthStatus
<1>3. CASE s.state = "Down"
  <2>1. t.state = "Down"
    BY <1>3 DEF AfterServerError
  <2>2. PICK d \in 1 .. L : MarksDown(h, d) /\ NoSuccessSince(h, d)
    BY <1>3 DEF Accounts
  <2>3. MarksDown(g, d)
    BY <2>2, ThePastStays DEF NodeHealthObservation
  <2>4. NoSuccessSince(g, d)
    BY <2>2, <1>1 DEF NoSuccessSince
  <2>5. d \in 1 .. Len(g)
    BY <1>1
  <2>6. QED
    BY <2>1, <2>3, <2>4, <2>5 DEF Accounts
<1>4. CASE s.state # "Down"
  <2>1. /\ errs = s.errors + 1 /\ s.errors < ErrorThreshold
        /\ EndsInRun(h, s.errors, "ServerError")
    BY <1>2, <1>4, CounterIncrement DEF CountersMatch, Accounts
  <2>2. EndsInRun(g, errs, "ServerError")
    BY <2>1, <1>2, RunExtended DEF NodeHealthObservation
  <2>3. CASE errs >= ErrorThreshold
    <3>1. t.state = "Down"
      BY <2>3 DEF AfterServerError
    <3>2. MarksDown(g, L + 1)
      <4>1. errs = ErrorThreshold
        BY <2>1, <2>3, <1>2
      <4>2. QED
        BY <4>1, <2>2, <1>1, <1>2 DEF MarksDown, EndsInRun
    <3>3. NoSuccessSince(g, L + 1) /\ L + 1 \in 1 .. Len(g)
      BY <1>1 DEF NoSuccessSince
    <3>4. QED
      BY <3>1, <3>2, <3>3 DEF Accounts
  <2>4. CASE errs < ErrorThreshold
    <3>1. t = [state |-> s.state, errors |-> errs, successes |-> 0]
      BY <2>4, <1>2 DEF AfterServerError, Counter
    <3>2. ~MarksDown(g, L + 1)
      <4>1. CASE L + 1 < ErrorThreshold
        BY <4>1, <1>1, <1>2 DEF MarksDown
      <4>2. CASE L + 1 >= ErrorThreshold
        <5>1. errs < Len(g)
          BY <4>2, <2>4, <1>1, <1>2, <2>1
        <5>2. g[Len(g) - errs] # "ServerError"
          BY <5>1, <2>2 DEF EndsInRun
        <5>3. Len(g) - errs \in (L + 1 - ErrorThreshold + 1) .. (L + 1)
          BY <4>2, <5>1, <2>4, <2>1, <1>1, <1>2
        <5>4. PICK k \in (L + 1 - ErrorThreshold + 1) .. (L + 1) : g[k] # "ServerError"
          BY <5>2, <5>3
        <5>5. QED
          BY <5>4, <1>1, <1>2 DEF MarksDown
      <4>3. QED
        BY <4>1, <4>2, <1>1, <1>2
    <3>3. \A d \in 1 .. L : ~Promotes(g, d, L + 1)
      BY <1>1, MarksAndPromotions
    <3>4. Outstanding(g) = Outstanding(h)
      BY <3>2, <3>3, OutstandingExtended DEF Outstanding, NodeHealthObservation
    <3>5. \A d \in Outstanding(h) : NoSuccessSince(g, d) => NoSuccessSince(h, d)
      BY <1>1 DEF NoSuccessSince, Outstanding
    <3>6. EndsInRun(g, 0, "Success")
      BY RunExtended DEF NodeHealthObservation
    <3>7. QED
      BY <3>1, <3>4, <3>5, <3>6, <2>2, <1>4 DEF Accounts
  <2>5. QED
    BY <2>3, <2>4, <1>2 DEF Counter
<1>5. QED
  BY <1>3, <1>4

(* A success takes a Down node into quarantine, and a quarantined one to   *)
(* Active exactly when it makes up for everything outstanding.             *)
LEMMA SuccessAccounts ==
    ASSUME NEW s \in NodeHealthStatus, CountersMatch(s),
           NEW h \in Seq(NodeHealthObservation), Accounts(s, h),
           NEW g, Extends(g, h, "Success")
    PROVE  Accounts(AfterSuccess(s), g)
<1>. DEFINE t == AfterSuccess(s)
            succ == (s.successes + 1) % CounterModulus
            L == Len(h)
            T == SuccessThreshold
<1>1. /\ L \in Nat /\ Len(g) = L + 1 /\ g[L + 1] = "Success"
      /\ g \in Seq(NodeHealthObservation)
      /\ \A k \in 1 .. L : g[k] = h[k]
  BY DEF Extends
<1>2. /\ T \in Nat \ {0} /\ T < CounterModulus
      /\ CounterModulus \in Nat /\ CounterModulus > 2
      /\ s.successes \in Counter /\ s.successes \in Nat /\ succ \in Counter
  BY Thresholds, ConfigAssumption, CounterIncrement DEF Counter, NodeHealthStatus
<1>3. ~MarksDown(g, L + 1)
  BY <1>1, MarksAndPromotions
<1>4. Outstanding(g) = {d \in Outstanding(h) : ~Promotes(g, d, L + 1)}
  BY <1>3, OutstandingExtended DEF NodeHealthObservation
<1>5. EndsInRun(g, 0, "ServerError")
  BY RunExtended DEF NodeHealthObservation
<1>6. \A d \in Outstanding(h) : d \in 1 .. L /\ MarksDown(h, d) /\ h[d] # "Success"
  BY MarksAndPromotions DEF Outstanding
<1>7. \A d \in 1 .. L : ~NoSuccessSince(g, d)
  BY <1>1 DEF NoSuccessSince
<1>8. CASE s.state = "Active"
  <2>1. t.state = "Active" /\ t.errors = 0
    BY <1>8 DEF AfterSuccess
  <2>2. Outstanding(g) = {}
    BY <1>8, <1>4 DEF Accounts
  <2>3. QED
    BY <2>1, <2>2, <1>5 DEF Accounts
<1>9. CASE s.state = "Down"
  <2>1. t = [state |-> "Quarantined", errors |-> 0, successes |-> 1]
    BY <1>9 DEF AfterSuccess
  <2>2. PICK d \in 1 .. L : MarksDown(h, d) /\ NoSuccessSince(h, d)
    BY <1>9 DEF Accounts
  <2>3. d \in Outstanding(h)
    BY <2>2, MarksAndPromotions DEF Outstanding, NoSuccessSince
  <2>4. ~Promotes(g, d, L + 1)
    BY <2>2, <1>1 DEF Promotes, NoSuccessSince
  <2>5. d \in Outstanding(g)
    BY <2>3, <2>4, <1>4
  <2>6. h[L] # "Success"
    BY <2>2, <2>3, <1>6, <1>1 DEF NoSuccessSince
  <2>7. EndsInRun(g, 1, "Success")
    BY <2>6, <1>1 DEF EndsInRun
  <2>8. \A e \in Outstanding(g) : ~NoSuccessSince(g, e)
    BY <1>4, <1>6, <1>7
  <2>9. QED
    BY <2>1, <2>5, <2>7, <2>8, <1>5 DEF Accounts
<1>10. CASE s.state = "Quarantined"
  <2>1. /\ Outstanding(h) # {}
        /\ \A d \in Outstanding(h) : ~NoSuccessSince(h, d)
        /\ EndsInRun(h, s.successes, "Success")
    BY <1>10 DEF Accounts
  <2>2. succ = s.successes + 1
    BY <1>10, <1>2, CounterIncrement DEF CountersMatch
  <2>3. EndsInRun(g, succ, "Success")
    BY <2>1, <2>2, <1>2, RunExtended DEF NodeHealthObservation
  <2>4. CASE succ < T
    <3>1. t = [state |-> "Quarantined", errors |-> 0, successes |-> succ]
      BY <1>10, <2>4 DEF AfterSuccess
    <3>2. ASSUME NEW d \in Outstanding(h)
          PROVE  ~Promotes(g, d, L + 1)
      <4>1. SUFFICES ASSUME L + 1 - T >= d PROVE ~Promotes(g, d, L + 1)
        BY <1>1, <1>2 DEF Promotes
      <4>2. d \in 1 .. L
        BY <1>6
      <4>3. succ < Len(g) /\ Len(g) - succ \in (L + 1 - T + 1) .. (L + 1)
        BY SMTT(30), <4>1, <4>2, <2>2, <2>4, <1>1, <1>2
      <4>4. PICK k \in (L + 1 - T + 1) .. (L + 1) : g[k] # "Success"
        BY <4>3, <2>3 DEF EndsInRun
      <4>5. QED
        BY <4>4, <1>1, <1>2 DEF Promotes
    <3>3. Outstanding(g) = Outstanding(h)
      BY <3>2, <1>4
    <3>4. \A d \in Outstanding(g) : ~NoSuccessSince(g, d)
      BY <1>4, <1>6, <1>7
    <3>5. QED
      BY <3>1, <3>3, <3>4, <2>1, <2>3, <1>5 DEF Accounts
  <2>5. CASE succ >= T
    <3>1. t.state = "Active" /\ t.errors = 0
      BY <1>10, <2>5, <1>2 DEF AfterSuccess, Counter
    <3>2. ASSUME NEW d \in Outstanding(h)
          PROVE  Promotes(g, d, L + 1)
      <4>1. d \in 1 .. L /\ h[d] # "Success"
        BY <1>6
      <4>2. s.successes <= L /\ d <= L - s.successes
        BY <4>1, <2>1, <1>1, <1>2 DEF EndsInRun
      <4>3. L + 1 - T >= d
        BY <4>1, <4>2, <2>2, <2>5, <1>1, <1>2
      <4>4. ASSUME NEW k \in (L + 1 - T + 1) .. (L + 1)
            PROVE  g[k] = "Success"
        <5>1. EndsInRun(g, s.successes + 1, "Success") /\ s.successes + 1 >= T
          BY <2>2, <2>3, <2>5
        <5>2. k \in (Len(g) - (s.successes + 1) + 1) .. Len(g)
          BY <5>1, <1>1, <1>2
        <5>3. QED
          BY <5>1, <5>2 DEF EndsInRun
      <4>5. PICK k \in (d + 1) .. L : h[k] = "Success"
        BY <2>1 DEF NoSuccessSince
      <4>6. k \in (d + 1) .. (L + 1 - 1) /\ g[k] = "Success"
        BY <4>1, <4>5, <1>1
      <4>7. QED
        BY <4>1, <4>3, <4>4, <4>6, <1>1, <1>2 DEF Promotes
    <3>3. Outstanding(g) = {}
      BY <3>2, <1>4
    <3>4. QED
      BY <3>1, <3>3, <1>5 DEF Accounts
  <2>6. QED
    BY <2>4, <2>5, <1>2 DEF Counter
<1>11. QED
  BY <1>8, <1>9, <1>10 DEF NodeHealthStatus, NodeHealthState

(* The three together, for the history Append builds.                      *)
LEMMA AfterAccounts ==
    ASSUME NEW s \in NodeHealthStatus, CountersMatch(s),
           NEW h \in Seq(NodeHealthObservation), Accounts(s, h),
           NEW o \in NodeHealthObservation
    PROVE  Accounts(After(s, o), Append(h, o))
<1>1. Extends(Append(h, o), h, o)
  BY AppendExtends
<1>2. CASE o = "Success"
  <2>1. After(s, o) = AfterSuccess(s)
    BY <1>2 DEF After
  <2>2. QED
    BY <2>1, <1>1, <1>2, SuccessAccounts
<1>3. CASE o = "ServerError"
  <2>1. After(s, o) = AfterServerError(s)
    BY <1>3 DEF After
  <2>2. QED
    BY <2>1, <1>1, <1>3, ServerErrorAccounts
<1>4. CASE o = "ConnectionFailure"
  <2>1. After(s, o) = AfterConnectionFailure(s)
    BY <1>4 DEF After
  <2>2. QED
    BY <2>1, <1>1, <1>4, ConnectionFailureAccounts
<1>5. QED
  BY <1>2, <1>3, <1>4 DEF NodeHealthObservation

(* A node that was just added has nothing on its account.                  *)
LEMMA NewStatusAccounts ==
    /\ NewStatus \in NodeHealthStatus
    /\ CountersMatch(NewStatus)
    /\ Accounts(NewStatus, << >>)
<1>1. NewStatus \in NodeHealthStatus /\ CountersMatch(NewStatus)
  BY Thresholds DEF NewStatus, NodeHealthStatus, NodeHealthState, CountersMatch, Counter
<1>2. Outstanding(<< >>) = {}
  BY DEF Outstanding
<1>3. EndsInRun(<< >>, 0, "ServerError")
  BY DEF EndsInRun
<1>4. QED
  BY <1>1, <1>2, <1>3 DEF NewStatus, Accounts

-----------------------------------------------------------------------------
(* The invariant holds initially and every step keeps it.                  *)

(* The store the constructor builds satisfies it.                          *)
LEMMA InitInv == Init => Inv
<1>. SUFFICES ASSUME Init PROVE Inv
  OBVIOUS
<1>1. statuses \in StatusMap
  BY NewStatusAccounts DEF Init, NewStore, StatusMap
<1>2. TypeOK
  BY <1>1 DEF Init, TypeOK
<1>3. CountersMatchState
  BY NewStatusAccounts DEF Init, NewStore, CountersMatchState, CountersMatch, Known
<1>4. ReportsAccounted
  BY NewStatusAccounts DEF Init, NewStore, ReportsAccounted
<1>5. QED
  BY <1>2, <1>3, <1>4 DEF Inv

(* Inv, one node at a time.                                                *)
NodeInv(s, h) ==
    /\ s \in NodeHealthStatus \cup {NoStatus}
    /\ h \in Seq(NodeHealthObservation)
    /\ IF s = NoStatus THEN h = << >> ELSE CountersMatch(s) /\ Accounts(s, h)

(* Inv is a statement about each node alone, beside the probers' types.    *)
LEMMA InvIsPerNode ==
    Inv <=> /\ statuses = [n \in Node |-> statuses[n]]
            /\ history = [n \in Node |-> history[n]]
            /\ todo \in [Prober -> SUBSET Node]
            /\ target \in [Prober -> Node \cup {NoNode}]
            /\ \A n \in Node : NodeInv(statuses[n], history[n])
BY DEF Inv, TypeOK, StatusMap, CountersMatchState, CountersMatch, ReportsAccounted,
       NodeInv, Known

(* A report keeps NodeInv of its node, and touches no other.               *)
LEMMA ReportKeepsNodeInv ==
    ASSUME Inv, NEW n \in Node, NEW o \in NodeHealthObservation,
           ReportNodeResult(n, o)
    PROVE  /\ statuses' = [m \in Node |-> statuses'[m]]
           /\ history' = [m \in Node |-> history'[m]]
           /\ \A m \in Node : NodeInv(statuses'[m], history'[m])
<1>1. /\ statuses = [m \in Node |-> statuses[m]]
      /\ history = [m \in Node |-> history[m]]
      /\ \A m \in Node : NodeInv(statuses[m], history[m])
  BY InvIsPerNode
<1>2. CASE ~Listens(statuses, n)
  <2>1. statuses' = statuses /\ history' = history
    BY <1>2 DEF ReportNodeResult, ReportResult
  <2>2. QED
    BY <1>1, <2>1
<1>3. CASE Listens(statuses, n)
  <2>1. /\ statuses' = [statuses EXCEPT ![n] = After(statuses[n], o)]
        /\ history' = [history EXCEPT ![n] = Append(history[n], o)]
    BY <1>3 DEF ReportNodeResult, ReportResult
  <2>2. statuses[n] \in NodeHealthStatus /\ statuses[n] # NoStatus
    BY <1>1, <1>3 DEF NodeInv, Listens
  <2>3. /\ After(statuses[n], o) \in NodeHealthStatus
        /\ CountersMatch(After(statuses[n], o))
        /\ After(statuses[n], o) # NoStatus
        /\ Accounts(After(statuses[n], o), Append(history[n], o))
    BY <1>1, <2>2, AfterIsSound, AfterAccounts, KnownIsNotAbsent DEF NodeInv
  <2>4. Append(history[n], o) \in Seq(NodeHealthObservation)
    BY <1>1 DEF NodeInv
  <2>5. NodeInv(After(statuses[n], o), Append(history[n], o))
    BY <2>3, <2>4 DEF NodeInv
  <2>6. QED
    BY <1>1, <2>1, <2>5
<1>4. QED
  BY <1>2, <1>3

(* Every step of the store preserves Inv.                                  *)
LEMMA StepInv == Inv /\ [Next]_vars => Inv'
<1>. SUFFICES ASSUME Inv, [Next]_vars PROVE Inv'
  OBVIOUS
<1>1. /\ statuses = [n \in Node |-> statuses[n]]
      /\ history = [n \in Node |-> history[n]]
      /\ todo \in [Prober -> SUBSET Node]
      /\ target \in [Prober -> Node \cup {NoNode}]
      /\ \A n \in Node : NodeInv(statuses[n], history[n])
  BY InvIsPerNode
<1>2. SUFFICES
        /\ statuses' = [n \in Node |-> statuses'[n]]
        /\ history' = [n \in Node |-> history'[n]]
        /\ todo' \in [Prober -> SUBSET Node]
        /\ target' \in [Prober -> Node \cup {NoNode}]
        /\ \A n \in Node : NodeInv(statuses'[n], history'[n])
  BY InvIsPerNode DEF Inv, TypeOK, StatusMap, CountersMatchState, CountersMatch,
       ReportsAccounted, NodeInv, Known
<1>3. ASSUME NEW n \in Node, NEW o \in NodeHealthObservation, Report(n, o)
      PROVE  <1>2!1
  BY <1>1, <1>3, ReportKeepsNodeInv DEF Report
<1>4. ASSUME NEW n \in Node, Add(n)
      PROVE  <1>2!1
  <2>1. CASE statuses[n] = NoStatus
    <3>1. statuses' = [statuses EXCEPT ![n] = NewStatus]
      BY <1>4, <2>1 DEF Add, AddNode
    <3>2. history[n] = << >> /\ history[n] \in Seq(NodeHealthObservation)
      BY <1>1, <2>1 DEF NodeInv
    <3>3. NodeInv(NewStatus, history[n])
      BY <3>2, NewStatusAccounts, KnownIsNotAbsent DEF NodeInv
    <3>4. QED
      BY <1>1, <1>4, <3>1, <3>3 DEF Add
  <2>2. CASE statuses[n] # NoStatus
    BY <1>1, <1>4, <2>2 DEF Add, AddNode
  <2>3. QED
    BY <2>1, <2>2
<1>5. ASSUME NEW n \in Node, Remove(n)
      PROVE  <1>2!1
  <2>1. NodeInv(NoStatus, << >>)
    BY DEF NodeInv
  <2>2. QED
    BY <1>1, <1>5, <2>1 DEF Remove, RemoveNode
<1>6. ASSUME NEW p \in Prober, ProbeBegin(p)
      PROVE  <1>2!1
  BY <1>1, <1>6 DEF ProbeBegin, GetDownNodes, NodesByState
<1>7. ASSUME NEW p \in Prober, ProbeLookup(p)
      PROVE  <1>2!1
  <2>1. Least(todo[p]) \in Node
    <3>1. todo[p] \in SUBSET Nat /\ todo[p] # {} /\ todo[p] \subseteq Node
      BY <1>1, <1>7, NodeAssumption DEF ProbeLookup
    <3>2. QED
      BY <3>1, LeastIsMember
  <2>2. QED
    BY <1>1, <1>7, <2>1 DEF ProbeLookup
<1>8. ASSUME NEW p \in Prober, ProbeReport(p)
      PROVE  <1>2!1
  <2>1. target[p] \in Node
    BY <1>1, <1>8 DEF ProbeReport
  <2>2. PICK o \in NodeHealthObservation : ReportNodeResult(target[p], o)
    BY <1>8 DEF ProbeReport
  <2>3. QED
    BY <1>1, <1>8, <2>1, <2>2, ReportKeepsNodeInv DEF ProbeReport
<1>9. CASE UNCHANGED vars
  BY <1>1, <1>9 DEF vars
<1>10. QED
  BY <1>3, <1>4, <1>5, <1>6, <1>7, <1>8, <1>9 DEF Next

-----------------------------------------------------------------------------
(* The theorems.                                                           *)

(* The invariant holds in every reachable state.                           *)
THEOREM Invariance == Spec => []Inv
BY InitInv, StepInv, PTL DEF Spec

(* The store's map, the probers' locals and the report histories always    *)
(* have their types.                                                       *)
THEOREM TypeCorrect == Spec => []TypeOK
<1>1. Inv => TypeOK
  BY DEF Inv
<1>2. QED
  BY <1>1, Invariance, PTL

(* The counters of ReportNodeResult always agree with the state they led   *)
(* to: no node that is not Down has reached the error threshold.           *)
THEOREM CountersAlwaysMatch == Spec => []CountersMatchState
<1>1. Inv => CountersMatchState
  BY DEF Inv
<1>2. QED
  BY <1>1, Invariance, PTL

(* The accounts determine the state.                                       *)
LEMMA AccountsGivePromise ==
    ASSUME NEW s \in NodeHealthStatus, NEW h \in Seq(NodeHealthObservation),
           Accounts(s, h)
    PROVE  s.state = PromisedState(h)
<1>1. CASE s.state = "Active"
  BY <1>1 DEF Accounts, PromisedState
<1>2. CASE s.state = "Quarantined"
  BY <1>2 DEF Accounts, PromisedState, NoSuccessSince
<1>3. CASE s.state = "Down"
  <2>1. PICK d \in 1 .. Len(h) : MarksDown(h, d) /\ NoSuccessSince(h, d)
    BY <1>3 DEF Accounts
  <2>2. d \in Outstanding(h)
    BY <2>1, MarksAndPromotions DEF Outstanding, NoSuccessSince
  <2>3. QED
    BY <2>1, <2>2, <1>3 DEF PromisedState, NoSuccessSince
<1>4. QED
  BY <1>1, <1>2, <1>3 DEF NodeHealthStatus, NodeHealthState

(* For all thresholds and any interleaving, a node's state is the one its  *)
(* applied reports call for.                                               *)
THEOREM StateAlwaysFollowsReports == Spec => []StateFollowsReports
<1>1. ASSUME Inv
      PROVE  StateFollowsReports
  <2>. SUFFICES ASSUME NEW n \in Node, statuses[n] # NoStatus
                PROVE  statuses[n].state = PromisedState(history[n])
    BY DEF StateFollowsReports, Known
  <2>1. /\ statuses[n] \in NodeHealthStatus
        /\ history[n] \in Seq(NodeHealthObservation)
        /\ Accounts(statuses[n], history[n])
    BY <1>1 DEF Inv, TypeOK, StatusMap, ReportsAccounted
  <2>2. QED
    BY <2>1, AccountsGivePromise
<1>2. QED
  BY <1>1, Invariance, PTL

(* No step of any thread moves a node from Down to Active or from Active   *)
(* to Quarantined.                                                         *)
THEOREM TransitionsAreRigid == Spec => RigidTransitions
<1>. DEFINE Rigid ==
       \A n \in Node :
         /\ statuses[n].state = "Down" => statuses'[n].state # "Active"
         /\ statuses[n].state = "Active" => statuses'[n].state # "Quarantined"
<1>1. ASSUME Inv, NEW m \in Node, NEW o \in NodeHealthObservation,
             ReportNodeResult(m, o)
      PROVE  Rigid
  <2>1. CASE ~Listens(statuses, m)
    BY <1>1, <2>1 DEF ReportNodeResult, ReportResult
  <2>2. CASE Listens(statuses, m)
    <3>1. statuses' = [statuses EXCEPT ![m] = After(statuses[m], o)]
      BY <1>1, <2>2 DEF ReportNodeResult, ReportResult
    <3>2. statuses[m] \in NodeHealthStatus /\ CountersMatch(statuses[m])
      BY <1>1, <2>2 DEF Inv, TypeOK, StatusMap, Listens, CountersMatchState, Known,
                         CountersMatch
    <3>3. /\ statuses[m].state = "Down" => After(statuses[m], o).state # "Active"
          /\ statuses[m].state = "Active" => After(statuses[m], o).state # "Quarantined"
      BY <3>2, AfterIsSound
    <3>4. statuses = [n \in Node |-> statuses[n]]
      BY <1>1 DEF Inv, TypeOK, StatusMap
    <3>5. QED
      BY <3>1, <3>3, <3>4
  <2>3. QED
    BY <2>1, <2>2
<1>2. ASSUME Inv, [Next]_vars
      PROVE  Rigid
  <2>1. statuses = [n \in Node |-> statuses[n]]
    BY <1>2 DEF Inv, TypeOK, StatusMap
  <2>2. CASE \E n \in Node, o \in NodeHealthObservation : Report(n, o)
    BY <1>1, <1>2, <2>2 DEF Report
  <2>3. ASSUME NEW n \in Node, Add(n)
        PROVE  Rigid
    BY <2>1, <2>3 DEF Add, AddNode, NewStatus, NoStatus
  <2>4. ASSUME NEW n \in Node, Remove(n)
        PROVE  Rigid
    BY <2>1, <2>4 DEF Remove, RemoveNode, NoStatus
  <2>5. ASSUME NEW p \in Prober, ProbeReport(p)
        PROVE  Rigid
    <3>1. target[p] \in Node
      BY <1>2, <2>5 DEF Inv, TypeOK, ProbeReport
    <3>2. QED
      BY <1>1, <1>2, <2>5, <3>1 DEF ProbeReport
  <2>6. CASE \/ \E p \in Prober : ProbeBegin(p) \/ ProbeLookup(p)
             \/ UNCHANGED vars
    BY <2>6 DEF ProbeBegin, ProbeLookup, vars
  <2>7. QED
    BY <1>2, <2>2, <2>3, <2>4, <2>5, <2>6 DEF Next
<1>3. QED
  BY <1>2, Invariance, PTL DEF Spec, RigidTransitions
=============================================================================
