--------------------------- MODULE RefreshProofs ----------------------------
(***************************************************************************)
(* Theorems about Refresh, for any periods (enabled or not), any number of *)
(* requesting threads and any callers of Start: the types, that            *)
(* background_started_ tells the truth, and that refreshes keep their      *)
(* distance.                                                               *)
(***************************************************************************)
EXTENDS Refresh, TLAPS

-----------------------------------------------------------------------------
(* Time.                                                                   *)

(* The periods are times, and Never is beyond all of them.                 *)
LEMMA Periods ==
    /\ ActivePeriod \in Nat /\ IdlePeriod \in Nat /\ ProbePeriod \in Nat
    /\ Never \in Nat /\ SlowestPeriod \in Nat
    /\ Never > ActivePeriod /\ Never > IdlePeriod /\ Never > ProbePeriod
    /\ SlowestPeriod >= ActivePeriod /\ SlowestPeriod >= IdlePeriod
BY RefreshAssumption DEF Never, SlowestPeriod

(* Time that passes leaves a timer, never beyond the time it was.          *)
LEMMA ElapseType ==
    ASSUME NEW timer \in Timer
    PROVE  /\ Elapse(timer) \in Timer
           /\ timer \in {0, Never} => Elapse(timer) = timer
           /\ timer \notin {0, Never} => Elapse(timer) = timer - 1
BY Periods DEF Elapse, Timer

(* An age grows up to its bound.                                           *)
LEMMA OlderType ==
    ASSUME NEW age \in 0 .. SlowestPeriod
    PROVE  /\ Older(age) \in 0 .. SlowestPeriod
           /\ Older(age) = SlowestPeriod \/ Older(age) = age + 1
BY Periods DEF Older

(* The due time MarkActivity leaves is what it was, or an active period    *)
(* after the "now" it was computed from.                                   *)
LEMMA DueAfterActivityType ==
    ASSUME next_update \in Timer, NEW age \in 0 .. SlowestPeriod
    PROVE  /\ DueAfterActivity(age) \in Timer
           /\ \/ DueAfterActivity(age) = next_update
              \/ ActivePeriod > 0 /\ age + DueAfterActivity(age) >= ActivePeriod
           /\ ActivityAge(age) \in 0 .. IdlePeriod
BY Periods DEF DueAfterActivity, ActiveDue, ActivityAge, Timer

(* The due time after a refresh is one of the enabled periods, or never.   *)
LEMMA DueAfterRefreshType ==
    /\ DueAfterRefresh \in Timer
    /\ \/ DueAfterRefresh = Never
       \/ DueAfterRefresh > 0 /\ DueAfterRefresh \in {ActivePeriod, IdlePeriod}
BY Periods DEF DueAfterRefresh, RefreshIntervalForNow, Timer

-----------------------------------------------------------------------------
(* Types.                                                                  *)

(* A step of a request keeps the types.                                    *)
LEMMA MarkingType ==
    ASSUME TypeOK, NEW r \in Requester, MarkActivity(r) \/ MarkSection(r) \/ NotifyActivity(r)
    PROVE  TypeOK'
<1>. USE DEF TypeOK
<1>1. marking[r] \in Marking /\ 0 \in 0 .. SlowestPeriod
  BY Periods
<1>2. CASE MarkActivity(r)
  BY <1>1, <1>2 DEF MarkActivity, Marking
<1>3. CASE MarkSection(r)
  <2>1. marking[r].age \in 0 .. SlowestPeriod
    BY <1>1 DEF Marking
  <2>2. next_update' \in Timer /\ since_activity' \in 0 .. IdlePeriod
    BY <1>3, <2>1, DueAfterActivityType DEF MarkSection
  <2>3. marking' \in [Requester -> Marking]
    BY <1>1, <1>3 DEF MarkSection, Marking
  <2>4. QED
    BY <1>3, <2>2, <2>3 DEF MarkSection
<1>4. CASE NotifyActivity(r)
  BY ZenonT(40), <1>1, <1>4 DEF NotifyActivity, NotifyAll, Marking, Background
<1>5. QED
  BY <1>2, <1>3, <1>4

(* A new background thread has the type of one.                            *)
LEMMA NewBackgroundType == NoBackground \in Background /\ NoBackground.pc = "None"
BY Periods DEF NoBackground, Background, Timer

(* A step of Start or Stop keeps the types.                                *)
LEMMA ControlType ==
    ASSUME TypeOK, NEW c \in Controller,
           \/ Start(c) \/ StartFails(c)
           \/ StopBegin(c) \/ StopNotify(c) \/ StopJoin(c) \/ StopFinish(c)
    PROVE  TypeOK'
<1>. USE DEF TypeOK
<1>1. CASE Start(c)
  <2>1. [NoBackground EXCEPT !.pc = "Boot"] \in Background
    BY NewBackgroundType DEF Background
  <2>2. QED
    BY <1>1, <2>1 DEF Start
<1>2. CASE StopBegin(c)
  BY <1>2 DEF StopBegin
<1>3. CASE StopNotify(c)
  BY <1>3 DEF StopNotify, NotifyAll, Background
<1>4. CASE StopJoin(c)
  BY <1>4, NewBackgroundType DEF StopJoin
<1>5. CASE StopFinish(c)
  BY <1>5 DEF StopFinish
<1>6. CASE StartFails(c)
  BY <1>6 DEF StartFails
<1>7. QED
  BY <1>1, <1>2, <1>3, <1>4, <1>5, <1>6

(* A step of the background thread that only moves it keeps the types.     *)
LEMMA LoopType ==
    ASSUME TypeOK,
           \/ Boot \/ LoopTop \/ Block \/ WakeToStop \/ WakeEarly \/ WakeSpuriously
           \/ UpdateReturns \/ UpdateThrows \/ ProbeReturns \/ Relock
    PROVE  TypeOK'
<1>. USE DEF TypeOK, Shared
<1>1. CASE Boot
  <2>1. ProbePeriod \in Timer
    BY Periods DEF Timer
  <2>2. QED
    BY <1>1, <2>1 DEF Boot, Background
<1>2. CASE LoopTop
  BY <1>2 DEF LoopTop, Background
<1>3. CASE Block \/ WakeToStop \/ WakeEarly \/ WakeSpuriously
  BY ZenonT(40), <1>3 DEF Block, WakeToStop, WakeEarly, WakeSpuriously, Background
<1>4. CASE UpdateReturns \/ UpdateThrows \/ ProbeReturns \/ Relock
  BY ZenonT(40), <1>4 DEF UpdateReturns, UpdateThrows, ProbeReturns, Relock, Background
<1>5. QED
  BY <1>1, <1>2, <1>3, <1>4

(* So does the end of a timed wait, ...                                    *)
LEMMA WakeOnTimeType ==
    ASSUME TypeOK, WakeOnTime
    PROVE  TypeOK'
<1>. USE DEF TypeOK, Shared
<1>1. CASE stopping
  BY <1>1 DEF WakeOnTime, Background
<1>2. CASE ~stopping
  <2>1. next_update' \in Timer
    BY <1>2, DueAfterRefreshType DEF WakeOnTime
  <2>2. since_update' \in 0 .. SlowestPeriod /\ hurried' \in BOOLEAN
    BY <1>2, Periods DEF WakeOnTime
  <2> DEFINE update == next_update = 0
             probe == ProbePeriod > 0 /\ background.probe_in = 0
             pc == IF update THEN "Update" ELSE IF probe THEN "Probe" ELSE "Relock"
             probe_in == IF probe THEN ProbePeriod ELSE background.probe_in
  <2>3. background' = [background EXCEPT !.pc = pc, !.probe = probe, !.probe_in = probe_in]
    BY <1>2 DEF WakeOnTime
  <2>4. pc \in {"Update", "Probe", "Relock"} /\ probe \in BOOLEAN /\ probe_in \in Timer
    BY Periods DEF Background, Timer
  <2> HIDE DEF pc, probe, probe_in
  <2>5. background' \in Background
    BY <2>3, <2>4 DEF Background
  <2>6. QED
    BY <1>2, <2>1, <2>2, <2>5 DEF WakeOnTime
<1>3. QED
  BY <1>1, <1>2

(* ... a node's failure during a refresh, ...                              *)
LEMMA UpdateReportsNodeType ==
    ASSUME TypeOK, UpdateReportsNode
    PROVE  TypeOK'
<1>. USE DEF TypeOK, Shared
<1>1. 0 \in 0 .. SlowestPeriod
  BY Periods
<1>2. next_update' \in Timer /\ since_activity' \in 0 .. IdlePeriod
  BY <1>1, DueAfterActivityType DEF UpdateReportsNode
<1>3. background' \in Background
  BY DEF UpdateReportsNode, Background
<1>4. QED
  BY <1>2, <1>3 DEF UpdateReportsNode

(* ... and the time that passes.                                           *)
LEMMA TickType ==
    ASSUME TypeOK, Tick
    PROVE  TypeOK'
<1>. USE DEF TypeOK
<1>1. next_update' \in Timer /\ since_update' \in 0 .. SlowestPeriod
  BY ElapseType, OlderType DEF Tick
<1>2. background' \in Background
  <2>1. background.wake \in Timer /\ background.probe_in \in Timer
    BY DEF Background
  <2>2. Elapse(background.wake) \in Timer /\ Elapse(background.probe_in) \in Timer
    BY <2>1, ElapseType
  <2>3. background' = [background EXCEPT !.wake = Elapse(background.wake),
                                         !.probe_in = Elapse(background.probe_in)]
    BY DEF Tick
  <2>4. QED
    BY <2>2, <2>3 DEF Background
<1>3. since_activity' \in 0 .. IdlePeriod \cup {Never}
  BY Periods DEF Tick
<1>4. marking' \in [Requester -> Marking]
  <2>1. SUFFICES ASSUME NEW r \in Requester
                 PROVE  marking'[r] \in Marking
    BY DEF Tick
  <2>2. marking[r] \in Marking
    OBVIOUS
  <2>3. Older(marking[r].age) \in 0 .. SlowestPeriod
    BY <2>2, OlderType DEF Marking
  <2>4. [marking[r] EXCEPT !.age = Older(marking[r].age)] \in Marking
    BY <2>2, <2>3 DEF Marking
  <2>5. QED
    BY <2>2, <2>4 DEF Tick
<1>5. QED
  BY <1>1, <1>2, <1>3, <1>4 DEF Tick

(* Every variable has its type in the initial state.                       *)
LEMMA InitType == Init => TypeOK
<1>1. Init => next_update \in Timer /\ since_update \in 0 .. SlowestPeriod
  BY Periods DEF Init, Timer
<1>2. [pc |-> "Idle", age |-> 0] \in Marking
  BY Periods DEF Marking
<1>3. QED
  BY <1>1, <1>2, NewBackgroundType DEF Init, TypeOK

(* Every variable keeps its type in every step.                            *)
LEMMA NextType == TypeOK /\ [Next]_vars => TypeOK'
<1>1. ASSUME TypeOK, Next
      PROVE  TypeOK'
  BY <1>1, MarkingType, ControlType, LoopType, WakeOnTimeType, UpdateReportsNodeType, TickType
     DEF Next, BackgroundStep
<1>2. ASSUME TypeOK, UNCHANGED vars
      PROVE  TypeOK'
  BY <1>2 DEF TypeOK, vars
<1>3. QED
  BY <1>1, <1>2

(* Time points, flags and threads keep their types: no timer runs below    *)
(* zero or past Never.                                                     *)
THEOREM TypeCorrect == Spec => []TypeOK
BY InitType, NextType, PTL DEF Spec

-----------------------------------------------------------------------------
(* Start and Stop.                                                         *)

(* Stop is called by one thread at most, as by the destructor of the       *)
(* registry's owner.  Start may be called by any number of them, and that  *)
(* thread may call it too.                                                 *)
OneStopper ==
    \A c, d \in Controller : "Stop" \in Commands[c] /\ "Stop" \in Commands[d] => c = d

(* What Stop has done so far: the flag stays up until the thread is        *)
(* joined, and from then on nobody can start another one.                  *)
StopIsInOrder ==
    /\ \A c \in Controller : control[c] # "Idle" => "Stop" \in Commands[c] /\ started
    /\ \A c \in Controller : control[c] = "Finish" => ~joinable /\ background.pc = "None"
    /\ StoppedMeansJoined

(* The background thread, once there is none, does not come back by        *)
(* itself, and does not touch the flags.                                   *)
LEMMA BackgroundStaysGone ==
    ASSUME TypeOK, BackgroundStep \/ WakeSpuriously \/ UpdateReportsNode
    PROVE  /\ background.pc # "None"
           /\ started' = started /\ joinable' = joinable /\ control' = control
BY DEF BackgroundStep, Boot, LoopTop, Block, WakeToStop, WakeEarly, WakeSpuriously, WakeOnTime,
       UpdateReportsNode, UpdateReturns, UpdateThrows, ProbeReturns, Relock, Shared

(* Notifying and the passing of time leave it where it is.                 *)
LEMMA PlaceStays ==
    ASSUME TypeOK, NotifyAll \/ Tick
    PROVE  background'.pc = background.pc
BY DEF TypeOK, Background, NotifyAll, Tick

(* Every step keeps the order.                                             *)
LEMMA StopStaysInOrder ==
    ASSUME OneStopper, TypeOK, StopIsInOrder, [Next]_vars
    PROVE  StopIsInOrder'
<1>. USE DEF StopIsInOrder, StoppedMeansJoined
<1>1. ASSUME NEW r \in Requester, MarkActivity(r) \/ MarkSection(r)
      PROVE  StopIsInOrder'
  BY <1>1 DEF MarkActivity, MarkSection
<1>2. ASSUME NEW r \in Requester, NotifyActivity(r)
      PROVE  StopIsInOrder'
  BY <1>2, PlaceStays DEF NotifyActivity
<1>3. ASSUME NEW c \in Controller, Start(c) \/ StartFails(c)
      PROVE  StopIsInOrder'
  BY <1>3 DEF Start, StartFails
<1>4. ASSUME NEW c \in Controller, StopBegin(c)
      PROVE  StopIsInOrder'
  BY <1>4 DEF StopBegin, TypeOK
<1>5. ASSUME NEW c \in Controller, StopNotify(c)
      PROVE  StopIsInOrder'
  BY <1>5, PlaceStays DEF StopNotify, TypeOK
<1>6. ASSUME NEW c \in Controller, StopJoin(c)
      PROVE  StopIsInOrder'
  BY <1>6, NewBackgroundType DEF StopJoin, TypeOK
<1>7. ASSUME NEW c \in Controller, StopFinish(c)
      PROVE  StopIsInOrder'
  <2>1. \A d \in Controller : d # c => control[d] = "Idle"
    BY <1>7 DEF OneStopper, StopFinish
  <2>2. QED
    BY <1>7, <2>1 DEF StopFinish, TypeOK
<1>8. CASE BackgroundStep \/ WakeSpuriously \/ UpdateReportsNode
  BY <1>8, BackgroundStaysGone
<1>9. CASE Tick
  BY <1>9, PlaceStays DEF Tick
<1>10. CASE UNCHANGED vars
  BY <1>10 DEF vars
<1>11. QED
  BY <1>1, <1>2, <1>3, <1>4, <1>5, <1>6, <1>7, <1>8, <1>9, <1>10 DEF Next

(* background_started_ tells the truth, however Start and Stop overlap,    *)
(* for any number of threads that call Start and one that calls Stop.      *)
THEOREM StoppedIsJoined ==
    ASSUME OneStopper
    PROVE  Spec => []StoppedMeansJoined
<1>1. Init => StopIsInOrder
  BY NewBackgroundType DEF Init, StopIsInOrder, StoppedMeansJoined
<1>2. TypeOK /\ StopIsInOrder /\ [Next]_vars => StopIsInOrder'
  BY StopStaysInOrder
<1>3. StopIsInOrder => StoppedMeansJoined
  BY DEF StopIsInOrder
<1>4. QED
  BY <1>1, <1>2, <1>3, TypeCorrect, PTL DEF Spec

-----------------------------------------------------------------------------
(* The distance between refreshes.                                         *)

(* The time since the last refresh and the time to the next one make up an *)
(* enabled period, unless a stale "now" was used since or no refresh is to *)
(* come at all.                                                            *)
DueInTime ==
    \/ hurried
    \/ next_update = Never
    \/ ActivePeriod > 0 /\ since_update + next_update >= ActivePeriod
    \/ IdlePeriod > 0 /\ since_update + next_update >= IdlePeriod

(* Activity brings the refresh forward, but never closer than an active    *)
(* period after its own "now".                                             *)
LEMMA MarkSectionInTime ==
    ASSUME TypeOK, DueInTime, NEW r \in Requester, MarkSection(r)
    PROVE  DueInTime'
<1> DEFINE age == marking[r].age
<1>1. age \in 0 .. SlowestPeriod
  BY DEF TypeOK, Marking
<1>2. /\ next_update' = DueAfterActivity(age) /\ since_update' = since_update
      /\ hurried' = (hurried \/ age > since_update)
  BY DEF MarkSection
<1>3. \/ next_update' = next_update
      \/ ActivePeriod > 0 /\ age + next_update' >= ActivePeriod
  BY <1>1, <1>2, DueAfterActivityType DEF TypeOK
<1>4. next_update' \in Nat /\ since_update \in Nat /\ next_update \in Nat
  BY MarkingType, Periods DEF TypeOK, Timer
<1>5. CASE hurried'
  BY <1>5 DEF DueInTime
<1>6. CASE ~hurried'
  <2>1. ~hurried /\ ~(age > since_update)
    BY <1>2, <1>6
  <2>2. CASE next_update' = next_update
    BY <1>2, <2>1, <2>2 DEF DueInTime
  <2>3. CASE ActivePeriod > 0 /\ age + next_update' >= ActivePeriod
    <3>1. since_update + next_update' >= ActivePeriod
      BY <1>1, <1>4, <2>1, <2>3, Periods
    <3>2. QED
      BY <1>2, <2>3, <3>1 DEF DueInTime
  <2>4. QED
    BY <1>3, <2>2, <2>3
<1>7. QED
  BY <1>5, <1>6

(* So does a failing node during a refresh.                                *)
LEMMA UpdateReportsNodeInTime ==
    ASSUME TypeOK, DueInTime, UpdateReportsNode
    PROVE  DueInTime'
<1>1. 0 \in 0 .. SlowestPeriod
  BY Periods
<1>2. /\ next_update' = DueAfterActivity(0) /\ since_update' = since_update /\ hurried' = hurried
  BY DEF UpdateReportsNode
<1>3. \/ next_update' = next_update
      \/ ActivePeriod > 0 /\ 0 + next_update' >= ActivePeriod
  BY <1>1, <1>2, DueAfterActivityType DEF TypeOK
<1>4. next_update' \in Nat /\ since_update \in Nat /\ next_update \in Nat
  BY UpdateReportsNodeType, Periods DEF TypeOK, Timer
<1>5. QED
  BY <1>2, <1>3, <1>4, Periods DEF DueInTime

(* A refresh that begins is due, and schedules the next one.               *)
LEMMA WakeOnTimeInTime ==
    ASSUME TypeOK, DueInTime, WakeOnTime
    PROVE  DueInTime'
<1>1. CASE stopping \/ next_update # 0
  BY <1>1 DEF WakeOnTime, DueInTime
<1>2. CASE ~stopping /\ next_update = 0
  <2>1. next_update' = DueAfterRefresh /\ since_update' = 0
    BY <1>2 DEF WakeOnTime
  <2>2. QED
    BY <2>1, DueAfterRefreshType, Periods DEF DueInTime
<1>3. QED
  BY <1>1, <1>2

(* What the time to the next refresh loses, the time since the last gains. *)
LEMMA TickInTime ==
    ASSUME TypeOK, DueInTime, Tick
    PROVE  DueInTime'
<1>1. /\ next_update' = Elapse(next_update) /\ since_update' = Older(since_update)
      /\ hurried' = hurried
  BY DEF Tick
<1>2. /\ next_update \in {0, Never} => next_update' = next_update
      /\ next_update \notin {0, Never} => next_update' = next_update - 1
      /\ since_update' = SlowestPeriod \/ since_update' = since_update + 1
  BY <1>1, ElapseType, OlderType DEF TypeOK
<1>3. next_update \in Nat /\ since_update \in Nat /\ next_update' \in Nat
  BY <1>2, Periods DEF TypeOK, Timer
<1>4. QED
  BY <1>1, <1>2, <1>3, Periods DEF DueInTime

(* No other step touches either time.                                      *)
LEMMA NextInTime ==
    ASSUME TypeOK, DueInTime, [Next]_vars
    PROVE  DueInTime'
<1>1. CASE \/ \E r \in Requester : MarkActivity(r) \/ NotifyActivity(r)
           \/ \E c \in Controller : Start(c) \/ StartFails(c)
           \/ \E c \in Controller :
                StopBegin(c) \/ StopNotify(c) \/ StopJoin(c) \/ StopFinish(c)
           \/ Boot \/ LoopTop \/ Block \/ WakeToStop \/ WakeEarly \/ WakeSpuriously
           \/ UpdateReturns \/ UpdateThrows \/ ProbeReturns \/ Relock
  BY <1>1 DEF DueInTime, MarkActivity, NotifyActivity, Start, StartFails, StopBegin, StopNotify,
          StopJoin, StopFinish, Boot, LoopTop, Block, WakeToStop, WakeEarly, WakeSpuriously,
          UpdateReturns, UpdateThrows, ProbeReturns, Relock
<1>2. CASE UNCHANGED vars
  BY <1>2 DEF DueInTime, vars
<1>3. QED
  BY <1>1, <1>2, MarkSectionInTime, UpdateReportsNodeInTime, WakeOnTimeInTime, TickInTime
     DEF Next, BackgroundStep

(* Only the end of a timed wait begins a refresh, and only when it is due. *)
LEMMA RefreshIsDue ==
    ASSUME TypeOK, [Next]_vars, RefreshBegins
    PROVE  next_update = 0
<1>1. CASE WakeOnTime
  BY <1>1 DEF WakeOnTime, RefreshBegins, TypeOK, Background
<1>2. CASE \E r \in Requester : MarkActivity(r) \/ MarkSection(r) \/ NotifyActivity(r)
  BY <1>2, PlaceStays DEF MarkActivity, MarkSection, NotifyActivity, RefreshBegins
<1>3. ASSUME NEW c \in Controller,
             \/ Start(c) \/ StartFails(c)
             \/ StopBegin(c) \/ StopNotify(c) \/ StopJoin(c) \/ StopFinish(c)
      PROVE  FALSE
  BY <1>3, PlaceStays, NewBackgroundType
     DEF Start, StartFails, StopBegin, StopNotify, StopJoin, StopFinish, RefreshBegins, Background
<1>4. CASE \/ Boot \/ LoopTop \/ Block \/ WakeToStop \/ WakeEarly \/ WakeSpuriously
           \/ UpdateReturns \/ UpdateThrows \/ ProbeReturns \/ Relock
  BY <1>4 DEF Boot, LoopTop, Block, WakeToStop, WakeEarly, WakeSpuriously, UpdateReturns,
          UpdateThrows, ProbeReturns, Relock, RefreshBegins, TypeOK, Background
<1>5. CASE UpdateReportsNode \/ Tick \/ UNCHANGED vars
  BY <1>5, PlaceStays DEF UpdateReportsNode, RefreshBegins, vars
<1>6. QED
  BY <1>1, <1>2, <1>3, <1>4, <1>5 DEF Next, BackgroundStep

(* Refreshes keep their distance for any periods, whatever requests,       *)
(* failing nodes, restarts and late wake-ups do (ScheduleNextRefresh,      *)
(* MarkActivity).                                                          *)
THEOREM RefreshesSpaced == Spec => RefreshesAreSpaced
<1> DEFINE A == RefreshBegins =>
                  \/ ActivePeriod > 0 /\ since_update >= ActivePeriod
                  \/ IdlePeriod > 0 /\ since_update >= IdlePeriod
                  \/ hurried
<1>1. Init => DueInTime
  BY Periods DEF Init, DueInTime
<1>2. TypeOK /\ DueInTime /\ [Next]_vars => DueInTime'
  BY NextInTime
<1>3. TypeOK /\ DueInTime /\ [Next]_vars => A
  BY RefreshIsDue, Periods DEF DueInTime, TypeOK
<1>4. QED
  BY <1>1, <1>2, <1>3, TypeCorrect, PTL DEF Spec, RefreshesAreSpaced
=============================================================================
