------------------------------ MODULE Refresh -------------------------------
(***************************************************************************)
(* When AlternatorLiveNodes refreshes the node list and probes the Down    *)
(* nodes (live_nodes.cpp): MarkActivity on the request threads, the        *)
(* BackgroundLoop thread with its condition variable, and Start and Stop.  *)
(* What a refresh and a probe do is LiveNodes' matter.                     *)
(*                                                                         *)
(* Time points are kept as the time that remains until them (0: reached or *)
(* passed), which is all the code compares; a Tick lets time pass.         *)
(*                                                                         *)
(* background_mutex_ is held across steps by the background thread only,   *)
(* from the top of its loop until it waits, so every other section under   *)
(* it is one step that needs LockFree.  mutex_ protects single steps.      *)
(* MarkActivity reads the clock before it locks mutex_, and notifies       *)
(* without background_mutex_: three steps, and time may pass between them. *)
(***************************************************************************)
EXTENDS Naturals

CONSTANTS
    ActivePeriod,   \* nodes_list_update_period; 0 stands for "not positive"
    IdlePeriod,     \* idle_nodes_list_update_period, likewise
    ProbePeriod,    \* down_node_probe_period, likewise
    Requester,      \* threads that make requests
    Controller,     \* threads that call Start or Stop
    Commands        \* Commands[c]: which of the two c calls

ASSUME RefreshAssumption ==
    /\ ActivePeriod \in Nat /\ IdlePeriod \in Nat /\ ProbePeriod \in Nat
    /\ Commands \in [Controller -> SUBSET {"Start", "Stop"}]

(* time_point::max(), and for the age of last_activity_ time_point::min(). *)
Never == ActivePeriod + IdlePeriod + ProbePeriod + 1
Timer == 0 .. Never

VARIABLES
    next_update,     \* next_update_
    since_activity,  \* age of last_activity_, no longer counted past IdlePeriod
    started,         \* background_started_
    stopping,        \* stopping_
    joinable,        \* background_thread_.joinable()
    background,      \* the background thread and its locals
    marking,         \* marking[r]: where r is in MarkActivity, age of its "now"
    control,         \* control[c]: where c is in Stop
    since_update,    \* ghost: time since the last refresh began, up to SlowestPeriod
    hurried,         \* ghost: a "now" from before the last refresh was used since
    outcome          \* ghost: how the last piece of background work ended

vars == <<next_update, since_activity, started, stopping, joinable, background,
          marking, control, since_update, hurried, outcome>>

SlowestPeriod == IF ActivePeriod > IdlePeriod THEN ActivePeriod ELSE IdlePeriod

(* age: the time since the clock was read, no longer counted past          *)
(* SlowestPeriod.                                                          *)
Marking == [pc : {"Idle", "Section", "Notify"}, age : 0 .. SlowestPeriod]

(* wake: until wake_at, Never for the wait on stopping_ alone; probe_in:   *)
(* until next_down_probe; probe: should_probe_down; failed: last_error is  *)
(* set in FetchLiveNodes; notified: a notify_all reached the wait.         *)
Background ==
    [pc : {"None", "Boot", "Top", "AboutToWait", "Waiting", "Update", "Probe",
           "Relock", "Exited"},
     wake : Timer, probe_in : Timer, probe : BOOLEAN, failed : BOOLEAN,
     notified : BOOLEAN]

NoBackground ==
    [pc |-> "None", wake |-> 0, probe_in |-> 0, probe |-> FALSE, failed |-> FALSE,
     notified |-> FALSE]

TypeOK ==
    /\ next_update \in Timer
    /\ since_activity \in 0 .. IdlePeriod \cup {Never}
    /\ started \in BOOLEAN /\ stopping \in BOOLEAN /\ joinable \in BOOLEAN
    /\ background \in Background
    /\ marking \in [Requester -> Marking]
    /\ control \in [Controller -> {"Idle", "Notify", "Join", "Finish"}]
    /\ since_update \in 0 .. SlowestPeriod /\ hurried \in BOOLEAN
    /\ outcome \in {"None", "Updated", "Threw", "Probed"}

Init ==
    /\ next_update = IF IdlePeriod > 0 THEN IdlePeriod ELSE Never
    /\ since_activity = Never
    /\ started = FALSE /\ stopping = FALSE /\ joinable = FALSE
    /\ background = NoBackground
    /\ marking = [r \in Requester |-> [pc |-> "Idle", age |-> 0]]
    /\ control = [c \in Controller |-> "Idle"]
    /\ since_update = 0 /\ hurried = FALSE
    /\ outcome = "None"

LockFree == background.pc \notin {"Top", "AboutToWait"}

(* background_cv_.notify_all(): lost unless the thread is in its wait.     *)
NotifyAll ==
    background' = [background EXCEPT !.notified = @ \/ background.pc = "Waiting"]

-----------------------------------------------------------------------------
(* MarkActivity's section under mutex_, for a "now" of the given age: the  *)
(* due time it leaves, and whether a notification may follow.  With a due  *)
(* time that has passed, whether it had passed at that "now" is open.      *)
ActiveDue(age) == IF age < ActivePeriod THEN ActivePeriod - age ELSE 0

(* Mutant of DueAfterActivity: every request pushes the refresh out.       *)
DueAfterActivityPushes(age) == next_update + ActiveDue(age)

DueAfterActivity(age) ==
    IF ActivePeriod > 0 /\ next_update > ActiveDue(age) THEN ActiveDue(age) ELSE next_update

ActivityNotifies(age) ==
    IF ActivePeriod = 0 THEN {FALSE}
    ELSE IF next_update = 0 THEN IF age = 0 THEN {TRUE} ELSE BOOLEAN
    ELSE {next_update > ActiveDue(age)}

ActivityAge(age) == IF age < IdlePeriod THEN age ELSE IdlePeriod

(* A request (NextNode, ReportNodeResult) reads the clock ...              *)
MarkActivity(r) ==
    /\ marking[r].pc = "Idle"
    /\ marking' = [marking EXCEPT ![r].pc = "Section"]
    /\ UNCHANGED <<next_update, since_activity, started, stopping, joinable, background,
                   control, since_update, hurried, outcome>>

(* ... enters the section under mutex_ ...                                 *)
MarkSection(r) ==
    LET age == marking[r].age IN
    /\ marking[r].pc = "Section"
    /\ since_activity' = ActivityAge(age)
    /\ next_update' = DueAfterActivity(age)
    /\ \E notify \in ActivityNotifies(age) :
         marking' = [marking EXCEPT ![r] = [pc |-> IF notify THEN "Notify" ELSE "Idle",
                                            age |-> 0]]
    /\ hurried' = (hurried \/ age > since_update)
    /\ UNCHANGED <<started, stopping, joinable, background, control, since_update, outcome>>

(* ... and, with no lock held any more, notifies the background thread.    *)
NotifyActivity(r) ==
    /\ marking[r].pc = "Notify"
    /\ NotifyAll
    /\ marking' = [marking EXCEPT ![r].pc = "Idle"]
    /\ UNCHANGED <<next_update, since_activity, started, stopping, joinable, control,
                   since_update, hurried, outcome>>

-----------------------------------------------------------------------------
(* Mutant of Start: stopping_ is cleared before the early return.          *)
StartClearsFirst(c) ==
    /\ "Start" \in Commands[c] /\ control[c] = "Idle"
    /\ LockFree
    /\ started' = TRUE /\ stopping' = FALSE /\ joinable' = (joinable \/ ~started)
    /\ background' = IF started THEN background ELSE [NoBackground EXCEPT !.pc = "Boot"]
    /\ UNCHANGED <<next_update, since_activity, marking, control, since_update, hurried, outcome>>

Start(c) ==
    /\ "Start" \in Commands[c] /\ control[c] = "Idle"
    /\ LockFree
    /\ ~started
    /\ started' = TRUE /\ stopping' = FALSE /\ joinable' = TRUE
    /\ background' = [NoBackground EXCEPT !.pc = "Boot"]
    /\ UNCHANGED <<next_update, since_activity, marking, control, since_update, hurried, outcome>>

(* The thread cannot be created: Start throws with background_started_ up, *)
(* so that a later Start returns at once, until Stop takes it down.        *)
StartFails(c) ==
    /\ "Start" \in Commands[c] /\ control[c] = "Idle"
    /\ LockFree
    /\ ~started
    /\ started' = TRUE /\ stopping' = FALSE
    /\ UNCHANGED <<next_update, since_activity, joinable, background, marking, control,
                   since_update, hurried, outcome>>

(* Mutant of StopBegin: stopping_ is raised without background_mutex_.     *)
StopBeginUnlocked(c) ==
    /\ "Stop" \in Commands[c] /\ control[c] = "Idle"
    /\ started
    /\ stopping' = TRUE
    /\ control' = [control EXCEPT ![c] = "Notify"]
    /\ UNCHANGED <<next_update, since_activity, started, joinable, background, marking,
                   since_update, hurried, outcome>>

(* Stop: raise stopping_, notify, join, and reset the flags.               *)
StopBegin(c) ==
    /\ "Stop" \in Commands[c] /\ control[c] = "Idle"
    /\ LockFree
    /\ started
    /\ stopping' = TRUE
    /\ control' = [control EXCEPT ![c] = "Notify"]
    /\ UNCHANGED <<next_update, since_activity, started, joinable, background, marking,
                   since_update, hurried, outcome>>

StopNotify(c) ==
    /\ control[c] = "Notify"
    /\ NotifyAll
    /\ control' = [control EXCEPT ![c] = "Join"]
    /\ UNCHANGED <<next_update, since_activity, started, stopping, joinable, marking,
                   since_update, hurried, outcome>>

(* Mutant of StopJoin: the thread is not joined.                           *)
StopJoinSkips(c) ==
    /\ control[c] = "Join"
    /\ control' = [control EXCEPT ![c] = "Finish"]
    /\ UNCHANGED <<next_update, since_activity, started, stopping, joinable, background,
                   marking, since_update, hurried, outcome>>

StopJoin(c) ==
    /\ control[c] = "Join"
    /\ joinable => background.pc = "Exited"
    /\ joinable' = FALSE
    /\ background' = NoBackground
    /\ control' = [control EXCEPT ![c] = "Finish"]
    /\ UNCHANGED <<next_update, since_activity, started, stopping, marking,
                   since_update, hurried, outcome>>

StopFinish(c) ==
    /\ control[c] = "Finish"
    /\ LockFree
    /\ started' = FALSE /\ stopping' = FALSE
    /\ control' = [control EXCEPT ![c] = "Idle"]
    /\ UNCHANGED <<next_update, since_activity, joinable, background, marking,
                   since_update, hurried, outcome>>

-----------------------------------------------------------------------------
(* BackgroundLoop.                                                         *)

Shared == <<started, stopping, joinable, marking, control>>

Boot ==
    /\ background.pc = "Boot"
    /\ background' = [background EXCEPT !.pc = "Top", !.probe_in = ProbePeriod]
    /\ UNCHANGED <<next_update, since_activity, Shared, since_update, hurried, outcome>>

(* The loop condition, and the reading of next_update_ that wake_at is     *)
(* computed from.                                                          *)
LoopTop ==
    LET wake == IF ProbePeriod > 0 /\ background.probe_in < next_update
                THEN background.probe_in ELSE next_update IN
    /\ background.pc = "Top"
    /\ background' = IF stopping THEN [background EXCEPT !.pc = "Exited"]
                     ELSE [background EXCEPT !.pc = "AboutToWait", !.wake = wake]
    /\ UNCHANGED <<next_update, since_activity, Shared, since_update, hurried, outcome>>

(* wait and wait_until release background_mutex_ and block.                *)
Block ==
    /\ background.pc = "AboutToWait"
    /\ background' = [background EXCEPT !.pc = "Waiting", !.notified = FALSE]
    /\ UNCHANGED <<next_update, since_activity, Shared, since_update, hurried, outcome>>

(* The untimed wait: only stopping_ ends it.                               *)
WakeToStop ==
    /\ background.pc = "Waiting" /\ background.wake = Never /\ background.notified
    /\ background' = [background EXCEPT !.notified = FALSE,
                                        !.pc = IF stopping THEN "Top" ELSE "Waiting"]
    /\ UNCHANGED <<next_update, since_activity, Shared, since_update, hurried, outcome>>

(* The timed wait ends before its time: round the loop once more.          *)
WakeEarly ==
    /\ background.pc = "Waiting" /\ background.wake \notin {0, Never}
    /\ background.notified
    /\ background' = [background EXCEPT !.pc = "Top"]
    /\ UNCHANGED <<next_update, since_activity, Shared, since_update, hurried, outcome>>

(* ... or for no reason at all, which a condition variable may do.         *)
WakeSpuriously ==
    /\ background.pc = "Waiting" /\ background.wake \notin {0, Never}
    /\ ~background.notified
    /\ background' = [background EXCEPT !.pc = "Top"]
    /\ UNCHANGED <<next_update, since_activity, Shared, since_update, hurried, outcome>>

(* RefreshIntervalForNow, 0 for no refresh.                                *)
RefreshIntervalForNow ==
    IF /\ since_activity # Never /\ ActivePeriod > 0
       /\ IdlePeriod > 0 => since_activity < IdlePeriod
    THEN ActivePeriod ELSE IdlePeriod

(* Mutants of DueAfterRefresh: the refresh is not rescheduled; only recent *)
(* activity reschedules it.                                                *)
DueAfterRefreshNone == next_update
DueAfterRefreshActiveOnly ==
    IF RefreshIntervalForNow = ActivePeriod THEN ActivePeriod ELSE Never

(* ScheduleNextRefresh                                                     *)
DueAfterRefresh ==
    IF RefreshIntervalForNow > 0 THEN RefreshIntervalForNow ELSE Never

(* The timed wait has run out: decide what is due, schedule its next time, *)
(* and go to work with background_mutex_ released.                         *)
WakeOnTime ==
    LET update == next_update = 0
        probe == ProbePeriod > 0 /\ background.probe_in = 0 IN
    /\ background.pc = "Waiting" /\ background.wake = 0
    /\ IF stopping
         THEN /\ background' = [background EXCEPT !.pc = "Top"]
              /\ UNCHANGED <<next_update, since_update, hurried>>
         ELSE /\ next_update' = IF update THEN DueAfterRefresh ELSE next_update
              /\ since_update' = IF update THEN 0 ELSE since_update
              /\ hurried' = (hurried /\ ~update)
              /\ background' = [background EXCEPT
                     !.pc = IF update THEN "Update" ELSE IF probe THEN "Probe" ELSE "Relock",
                     !.probe = probe,
                     !.probe_in = IF probe THEN ProbePeriod ELSE @]
    /\ UNCHANGED <<since_activity, Shared, outcome>>

(* During UpdateLiveNodes a node fails to answer; its report goes through  *)
(* ReportNodeResult, which marks activity like that of a request.  The     *)
(* notification finds nobody waiting.                                      *)
UpdateReportsNode ==
    /\ background.pc = "Update"
    /\ since_activity' = ActivityAge(0)
    /\ next_update' = DueAfterActivity(0)
    /\ background' = [background EXCEPT !.failed = TRUE]
    /\ UNCHANGED <<Shared, since_update, hurried, outcome>>

(* UpdateLiveNodes returns, its trailing ProbeDownNodes included; a due    *)
(* probe follows.                                                          *)
UpdateReturns ==
    /\ background.pc = "Update"
    /\ background' = [background EXCEPT !.pc = IF background.probe
                                               THEN "Probe" ELSE "Relock"]
    /\ outcome' = "Updated"
    /\ UNCHANGED <<next_update, since_activity, Shared, since_update, hurried>>

(* A scope had no node to offer and an error to report, so UpdateLiveNodes *)
(* throws: the handler swallows the exception, and with it a due probe.    *)
UpdateThrows ==
    /\ background.pc = "Update" /\ background.failed
    /\ background' = [background EXCEPT !.pc = "Relock"]
    /\ outcome' = "Threw"
    /\ UNCHANGED <<next_update, since_activity, Shared, since_update, hurried>>

ProbeReturns ==
    /\ background.pc = "Probe"
    /\ background' = [background EXCEPT !.pc = "Relock"]
    /\ outcome' = "Probed"
    /\ UNCHANGED <<next_update, since_activity, Shared, since_update, hurried>>

Relock ==
    /\ background.pc = "Relock"
    /\ background' = [background EXCEPT !.pc = "Top", !.probe = FALSE, !.failed = FALSE]
    /\ UNCHANGED <<next_update, since_activity, Shared, since_update, hurried, outcome>>

-----------------------------------------------------------------------------
Elapse(timer) == IF timer \in {0, Never} THEN timer ELSE timer - 1
Older(age) == IF age = SlowestPeriod THEN age ELSE age + 1

(* One unit of time passes.                                                *)
Tick ==
    /\ next_update' = Elapse(next_update)
    /\ background' = [background EXCEPT !.wake = Elapse(@), !.probe_in = Elapse(@)]
    /\ since_activity' = IF since_activity \in {IdlePeriod, Never}
                         THEN since_activity ELSE since_activity + 1
    /\ marking' = [r \in Requester |-> IF marking[r].pc = "Section"
                                       THEN [marking[r] EXCEPT !.age = Older(@)]
                                       ELSE marking[r]]
    /\ since_update' = Older(since_update)
    /\ UNCHANGED <<started, stopping, joinable, control, hurried, outcome>>

BackgroundStep ==
    \/ Boot \/ LoopTop \/ Block \/ WakeToStop \/ WakeEarly \/ WakeOnTime
    \/ UpdateReturns \/ UpdateThrows \/ ProbeReturns \/ Relock

Next ==
    \/ \E r \in Requester : MarkActivity(r) \/ MarkSection(r) \/ NotifyActivity(r)
    \/ \E c \in Controller :
         \/ Start(c) \/ StartFails(c)
         \/ StopBegin(c) \/ StopNotify(c) \/ StopJoin(c) \/ StopFinish(c)
    \/ BackgroundStep
    \/ WakeSpuriously \/ UpdateReportsNode
    \/ Tick

(* The scheduler runs a thread that can run, time passes, and a refresh or *)
(* probe comes to an end (HTTP timeouts are configured).  Nobody has to    *)
(* make requests, call Start or Stop, wake spuriously or meet a failing    *)
(* node.                                                                   *)
Fairness ==
    /\ WF_vars(BackgroundStep)
    /\ WF_vars(Tick)
    /\ \A r \in Requester : WF_vars(MarkSection(r)) /\ WF_vars(NotifyActivity(r))
    /\ \A c \in Controller :
         WF_vars(StopNotify(c)) /\ WF_vars(StopJoin(c)) /\ WF_vars(StopFinish(c))

Spec == Init /\ [][Next]_vars /\ Fairness

-----------------------------------------------------------------------------
(* Properties.                                                             *)

Running == started /\ ~stopping

RefreshBegins == background.pc # "Update" /\ background'.pc = "Update"

(* background_started_ tells the truth: whenever it is down there is no    *)
(* background thread left, so that the thread Start creates is assigned to *)
(* a background_thread_ that is not joinable (std::terminate otherwise)    *)
(* and two loops never run side by side, however Start and Stop overlap.   *)
StoppedMeansJoined == ~started => ~joinable /\ background.pc = "None"

(* Refreshes keep their distance: whatever requests, failing nodes, probes,*)
(* restarts and late wake-ups do to next_update_, two refreshes begin at   *)
(* least the shorter of the enabled periods apart.  The one exception is a *)
(* request that read the clock before the last refresh began and entered   *)
(* its section after it.                                                   *)
RefreshesAreSpaced ==
    [][RefreshBegins =>
         \/ ActivePeriod > 0 /\ since_update >= ActivePeriod
         \/ IdlePeriod > 0 /\ since_update >= IdlePeriod
         \/ hurried]_vars

(* While the loop has a thread and is not stopped it refreshes again and   *)
(* again, whatever the refreshes' outcomes are and whatever notifications  *)
(* come or are lost.                                                       *)
RefreshRecurs == <>[](Running /\ joinable) => []<>(background.pc = "Update")

(* Stop returns: the notification reaches the background thread wherever   *)
(* it is in its loop, the thread exits and is joined; and without a thread *)
(* it does not wait for one.                                               *)
StopReturns == \A c \in Controller : control[c] = "Notify" ~> control[c] = "Idle"

(* The background thread does not sleep past next_update_: either its wait *)
(* ends by then, or a notification has reached it or is on its way.        *)
SleepEndsByNextUpdate ==
    background.pc = "Waiting" =>
        \/ background.wake <= next_update
        \/ background.notified
        \/ \E r \in Requester : marking[r].pc = "Notify"
=============================================================================
