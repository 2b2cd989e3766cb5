--------------------------- MODULE PartitionKeys ----------------------------
(***************************************************************************)
(* The partition key names of DynamoDBHelper and their background          *)
(* discovery (aws_dynamodb_helper.cpp, PartitionKeyMetadata of             *)
(* key_route_affinity.cpp).                                                *)
(*                                                                         *)
(* A write that may use key route affinity reads the name of its table     *)
(* several times, each time in a lock section of its own; if the name is   *)
(* missing it triggers a discovery and goes on without affinity.  A        *)
(* discovery is a thread that asks DescribeTable, a few times if need be,  *)
(* stores the name, and takes its table off in_progress.  The destructor   *)
(* joins these threads.  One step is one acquisition of a mutex, one call  *)
(* of DescribeTable, or one join.                                          *)
(***************************************************************************)
EXTENDS Naturals

CONSTANTS
    Table,        \* the tables of the application
    Name,         \* attribute names
    NoName,       \* the empty string GetPartitionKeyName returns for a gap
    Configured,   \* partition_key_by_table, as given
    Attempts,     \* partition_key_discovery_attempts
    Writes,       \* the writes the application makes
    Requester,    \* threads that send writes
    Worker        \* the threads discovery may ever start (a bound)

ASSUME PartitionKeysAssumption ==
    /\ Table # {} /\ NoName \notin Name
    /\ Configured \in [Table -> Name \cup {NoName}]
    /\ Attempts \in Nat \ {0}
    /\ Writes \subseteq [tables : (SUBSET Table) \ {{}}, batch : BOOLEAN, item : SUBSET Name]
    /\ \A write \in Writes : ~write.batch => \E t \in Table : write.tables = {t}

VARIABLES
    names,         \* PartitionKeyMetadata::partition_key_by_table_
    in_progress,   \* PartitionKeyDiscoveryState::in_progress
    workers,       \* PartitionKeyDiscoveryState::workers
    discovery,     \* discovery[w]: the thread w, where it is, its locals
    frame,         \* frame[r]: the write of r, where it is, its locals
    helper,        \* the destructor's progress
    witnessed      \* ghost: what happened during the write of r

discoveries == <<in_progress, workers, discovery>>
vars == <<names, discoveries, frame, helper, witnessed>>

-----------------------------------------------------------------------------
Plan == {"None", "Default", "Affinity"}

(* tables: the tables written to; batch: is it a BatchWriteItem; item: the *)
(* attributes with a hashable value; todo: tables a loop has yet to visit; *)
(* key: the names read first; missing: tables found without a name; table: *)
(* the table of the discovery being triggered; plan: the result.           *)
Frame ==
    [pc : {"Idle", "Read", "Recheck", "Next", "Check", "Claim", "Spawn", "Unclaim", "Hash", "Return"},
     tables : SUBSET Table, batch : BOOLEAN, item : SUBSET Name, todo : SUBSET Table,
     key : [Table -> Name \cup {NoName}], missing : SUBSET Table, table : Table, plan : Plan]

IdleFrame ==
    [pc |-> "Idle", tables |-> {}, batch |-> FALSE, item |-> {}, todo |-> {},
     key |-> [t \in Table |-> NoName], missing |-> {}, table |-> CHOOSE t \in Table : TRUE,
     plan |-> "None"]

(* A thread is Unborn, then asks (Describe), stores a name, erases its     *)
(* table from in_progress, has Exited, and is Joined.                      *)
Discovery ==
    [pc : {"Unborn", "Describe", "Store", "Erase", "Exited", "Joined"},
     table : Table, attempt : 1 .. Attempts, name : Name \cup {NoName}]

Unborn == [pc |-> "Unborn", table |-> IdleFrame.table, attempt |-> 1, name |-> NoName]

(* served: tables with a name, a discovery, or a thread that could not be  *)
(* created, at some moment since the write missed the name; changed:       *)
(* tables whose name has changed since the write began.                    *)
Witness == [served : SUBSET Table, changed : SUBSET Table]
NoWitness == [served |-> {}, changed |-> {}]

TypeOK ==
    /\ names \in [Table -> Name \cup {NoName}]
    /\ in_progress \subseteq Table
    /\ workers \subseteq Worker
    /\ discovery \in [Worker -> Discovery]
    /\ frame \in [Requester -> Frame]
    /\ helper \in {"Alive", "Joining", "Stopped"}
    /\ witnessed \in [Requester -> Witness]

Init ==
    /\ names = Configured
    /\ in_progress = {}
    /\ workers = {}
    /\ discovery = [w \in Worker |-> Unborn]
    /\ frame = [r \in Requester |-> IdleFrame]
    /\ helper = "Alive"
    /\ witnessed = [r \in Requester |-> NoWitness]

At(r, label) == frame[r].pc = label

Witnessing(failed) ==
    witnessed' = [r \in Requester |->
        IF frame'[r].pc = "Idle" THEN NoWitness
        ELSE [served |-> {t \in frame'[r].missing :
                            \/ t \in witnessed[r].served \cup failed \cup in_progress'
                            \/ names'[t] # NoName},
              changed |-> {t \in frame'[r].tables :
                            t \in witnessed[r].changed \/ names'[t] # names[t]}]]

-----------------------------------------------------------------------------
(* A write in AnyWrite mode: which tables (each with at least one put or   *)
(* delete), which attributes.  Nobody calls into a helper that is being    *)
(* destroyed.                                                              *)
BeginWrite(r) ==
    /\ At(r, "Idle") /\ helper = "Alive"
    /\ \E write \in Writes :
         frame' = [frame EXCEPT ![r] = [IdleFrame EXCEPT !.pc = "Read", !.tables = write.tables,
                     !.batch = write.batch, !.item = write.item, !.todo = write.tables]]
    /\ UNCHANGED <<names, discoveries, helper>>
    /\ Witnessing({})

(* GetPartitionKeyName, for the attribute the plan will be made from       *)
(* (PartitionKeyQueryPlanFor, BatchWriteOperationsFor).                    *)
ReadName(r) ==
    /\ At(r, "Read")
    /\ \E t \in frame[r].todo :
         LET rest == frame[r].todo \ {t} IN
         frame' = [frame EXCEPT ![r].key[t] = names[t],
                                ![r].todo = IF rest = {} THEN frame[r].tables ELSE rest,
                                ![r].pc = IF rest = {} THEN "Recheck" ELSE "Read"]
    /\ UNCHANGED <<names, discoveries, helper>>
    /\ Witnessing({})

(* The tables that have an operation in the plan: one that has no name,    *)
(* or one whose key is among the attributes; a single write always counts. *)
Operations(f) ==
    IF f.batch THEN {t \in f.tables : f.key[t] = NoName \/ f.key[t] \in f.item} ELSE f.tables

(* GetPartitionKeyName once more (NewPartitionKeyQueryPlan,                *)
(* TriggerPartitionKeyDiscoveryForMissingMetadata).  A batch without an    *)
(* operation gets the default plan at once.                                *)
RecheckName(r) ==
    LET f == frame[r]
        left == f.todo \cap Operations(f)
    IN
    /\ At(r, "Recheck")
    /\ \/ /\ Operations(f) = {}
          /\ frame' = [frame EXCEPT ![r].pc = "Return", ![r].plan = "Default"]
       \/ \E t \in left :
            frame' = [frame EXCEPT ![r].todo = left \ {t},
                        ![r].missing = IF names[t] = NoName THEN @ \cup {t} ELSE @,
                        ![r].pc = IF left = {t} THEN "Next" ELSE "Recheck"]
    /\ UNCHANGED <<names, discoveries, helper>>
    /\ Witnessing({})

(* Mutant: a single write without a name does not trigger a discovery.     *)
NextMissingSkips(r) ==
    LET f == frame[r] IN
    /\ At(r, "Next")
    /\ frame' = [frame EXCEPT ![r] = IF f.missing # {}
                                     THEN [f EXCEPT !.pc = "Return", !.plan = "Default"]
                                     ELSE [f EXCEPT !.pc = "Hash"]]
    /\ UNCHANGED <<names, discoveries, helper>>
    /\ Witnessing({})

(* The loop over the missing tables.  A single write without a name has    *)
(* the default plan once its discovery is triggered; a batch goes on with  *)
(* the tables that have one.                                               *)
NextMissing(r) ==
    LET f == frame[r] IN
    /\ At(r, "Next")
    /\ \/ \E t \in f.missing \ f.todo :
            frame' = [frame EXCEPT ![r].todo = @ \cup {t}, ![r].table = t, ![r].pc = "Check"]
       \/ /\ f.missing \subseteq f.todo
          /\ frame' = [frame EXCEPT ![r] = IF f.missing # {} /\ ~f.batch
                                           THEN [f EXCEPT !.pc = "Return", !.plan = "Default"]
                                           ELSE [f EXCEPT !.pc = "Hash"]]
    /\ UNCHANGED <<names, discoveries, helper>>
    /\ Witnessing({})

(* TriggerPartitionKeyDiscovery: the name is read again, ...               *)
TriggerCheck(r) ==
    /\ At(r, "Check")
    /\ frame' = [frame EXCEPT ![r].pc = IF names[frame[r].table] # NoName THEN "Next" ELSE "Claim"]
    /\ UNCHANGED <<names, discoveries, helper>>
    /\ Witnessing({})

(* Mutant: whether the table is in progress is not asked.                  *)
TriggerClaimUnchecked(r) ==
    /\ At(r, "Claim")
    /\ in_progress' = in_progress \cup {frame[r].table}
    /\ frame' = [frame EXCEPT ![r].pc = "Spawn"]
    /\ UNCHANGED <<names, workers, discovery, helper>>
    /\ Witnessing({})

(* ... the table is claimed, unless somebody else has it, ...              *)
TriggerClaim(r) ==
    LET t == frame[r].table IN
    /\ At(r, "Claim")
    /\ in_progress' = in_progress \cup {t}
    /\ frame' = [frame EXCEPT ![r].pc = IF t \in in_progress THEN "Next" ELSE "Spawn"]
    /\ UNCHANGED <<names, workers, discovery, helper>>
    /\ Witnessing({})

(* Mutant: the thread is not kept for the destructor.                      *)
TriggerSpawnDetached(r) ==
    /\ At(r, "Spawn")
    /\ \E w \in Worker :
         /\ discovery[w].pc = "Unborn"
         /\ discovery' = [discovery EXCEPT ![w].pc = "Describe", ![w].table = frame[r].table]
         /\ frame' = [frame EXCEPT ![r].pc = "Next"]
         /\ UNCHANGED workers
    /\ UNCHANGED <<names, in_progress, helper>>
    /\ Witnessing({})

(* ... and a thread is created and kept, or cannot be created.             *)
TriggerSpawn(r) ==
    /\ At(r, "Spawn")
    /\ \/ \E w \in Worker :
            /\ discovery[w].pc = "Unborn"
            /\ discovery' = [discovery EXCEPT ![w].pc = "Describe", ![w].table = frame[r].table]
            /\ workers' = workers \cup {w}
            /\ frame' = [frame EXCEPT ![r].pc = "Next"]
       \/ /\ frame' = [frame EXCEPT ![r].pc = "Unclaim"]
          /\ UNCHANGED <<workers, discovery>>
    /\ UNCHANGED <<names, in_progress, helper>>
    /\ Witnessing({})

TriggerUnclaim(r) ==
    /\ At(r, "Unclaim")
    /\ in_progress' = in_progress \ {frame[r].table}
    /\ frame' = [frame EXCEPT ![r].pc = "Next"]
    /\ UNCHANGED <<names, workers, discovery, helper>>
    /\ Witnessing({frame[r].table})

(* Mutant: one table without a name takes affinity from the whole batch.   *)
HashKeyAllOrNothing(r) ==
    LET f == frame[r] IN
    /\ At(r, "Hash")
    /\ frame' = [frame EXCEPT ![r].pc = "Return",
                   ![r].plan = IF \A t \in f.tables : f.key[t] \in f.item /\ names[t] = f.key[t]
                               THEN "Affinity" ELSE "Default"]
    /\ UNCHANGED <<names, discoveries, helper>>
    /\ Witnessing({})

(* HashPartitionKey and the votes of a batch read the name a last time: an *)
(* operation counts if the attribute taken for the key is still the key.   *)
(* Without any, invalid_argument makes it the default plan.                *)
HashKey(r) ==
    LET f == frame[r] IN
    /\ At(r, "Hash")
    /\ frame' = [frame EXCEPT ![r].pc = "Return",
                   ![r].plan = IF \E t \in f.tables : f.key[t] \in f.item /\ names[t] = f.key[t]
                               THEN "Affinity" ELSE "Default"]
    /\ UNCHANGED <<names, discoveries, helper>>
    /\ Witnessing({})

Return(r) ==
    /\ At(r, "Return")
    /\ frame' = [frame EXCEPT ![r] = IdleFrame]
    /\ UNCHANGED <<names, discoveries, helper>>
    /\ Witnessing({})

(* SetPartitionKeyName, called by the application; an explicit             *)
(* UpdatePartitionKeyName that succeeds has the same effect.               *)
SetPartitionKeyName ==
    /\ helper = "Alive"
    /\ \E t \in Table, n \in Name : names' = [names EXCEPT ![t] = n]
    /\ UNCHANGED <<discoveries, frame, helper>>
    /\ Witnessing({})

-----------------------------------------------------------------------------
(* DescribeTable has a HASH key, or it has none or fails.                  *)
DiscoverPartitionKeyName == Name \cup {NoName}

(* UpdatePartitionKeyName in a discovery thread: a name is found, or it is *)
(* asked for again, or that was the last attempt; an exception ends the    *)
(* thread's work as well.  The sleep before the next attempt is part of    *)
(* that attempt.                                                           *)
Describe(w) ==
    LET d == discovery[w] IN
    /\ d.pc = "Describe"
    /\ \/ \E n \in DiscoverPartitionKeyName :
            discovery' = [discovery EXCEPT ![w] =
                CASE n # NoName -> [d EXCEPT !.pc = "Store", !.name = n]
                  [] n = NoName /\ d.attempt < Attempts -> [d EXCEPT !.attempt = @ + 1]
                  [] OTHER -> [d EXCEPT !.pc = "Erase"]]
       \/ discovery' = [discovery EXCEPT ![w].pc = "Erase"]
    /\ UNCHANGED <<names, in_progress, workers, frame, helper>>
    /\ Witnessing({})

(* The name replaces whatever name the table has by now.                   *)
Store(w) ==
    /\ discovery[w].pc = "Store"
    /\ names' = [names EXCEPT ![discovery[w].table] = discovery[w].name]
    /\ discovery' = [discovery EXCEPT ![w].pc = "Erase"]
    /\ UNCHANGED <<in_progress, workers, frame, helper>>
    /\ Witnessing({})

(* Mutant: the destructor keeps the mutex while it joins.                  *)
EraseBehindDestructor(w) ==
    /\ discovery[w].pc = "Erase" /\ helper # "Joining"
    /\ in_progress' = in_progress \ {discovery[w].table}
    /\ discovery' = [discovery EXCEPT ![w] = [Unborn EXCEPT !.pc = "Exited"]]
    /\ UNCHANGED <<names, workers, frame, helper>>
    /\ Witnessing({})

Erase(w) ==
    /\ discovery[w].pc = "Erase"
    /\ in_progress' = in_progress \ {discovery[w].table}
    /\ discovery' = [discovery EXCEPT ![w] = [Unborn EXCEPT !.pc = "Exited"]]
    /\ UNCHANGED <<names, workers, frame, helper>>
    /\ Witnessing({})

-----------------------------------------------------------------------------
(* ~DynamoDBHelper.  The application has no call in progress, and makes    *)
(* none from now on.  WaitForPartitionKeyDiscovery takes the threads, ...  *)
DestructorSwap ==
    /\ helper = "Alive" /\ \A r \in Requester : At(r, "Idle")
    /\ helper' = "Joining"
    /\ UNCHANGED <<names, discoveries, frame>>
    /\ Witnessing({})

(* ... joins them one by one, ...                                          *)
DestructorJoin(w) ==
    /\ helper = "Joining" /\ w \in workers /\ discovery[w].pc = "Exited"
    /\ discovery' = [discovery EXCEPT ![w].pc = "Joined"]
    /\ workers' = workers \ {w}
    /\ UNCHANGED <<names, in_progress, frame, helper>>
    /\ Witnessing({})

(* ... and the destructor goes on to stop the registry and frees the rest. *)
DestructorStop ==
    /\ helper = "Joining" /\ workers = {}
    /\ helper' = "Stopped"
    /\ UNCHANGED <<names, discoveries, frame>>
    /\ Witnessing({})

-----------------------------------------------------------------------------
Write(r) ==
    \/ ReadName(r) \/ RecheckName(r) \/ NextMissing(r)
    \/ TriggerCheck(r) \/ TriggerClaim(r) \/ TriggerSpawn(r) \/ TriggerUnclaim(r)
    \/ HashKey(r) \/ Return(r)

Discover(w) == Describe(w) \/ Store(w) \/ Erase(w)

Destruct == DestructorSwap \/ (\E w \in Worker : DestructorJoin(w)) \/ DestructorStop

Next ==
    \/ \E r \in Requester : BeginWrite(r) \/ Write(r)
    \/ \E w \in Worker : Discover(w)
    \/ SetPartitionKeyName
    \/ Destruct

(* Threads run when they can, and DescribeTable returns (the SDK has       *)
(* timeouts).  Nobody has to write, or to destroy the helper; what         *)
(* DescribeTable answers is open.                                          *)
Fairness ==
    /\ \A r \in Requester : WF_vars(Write(r))
    /\ \A w \in Worker : WF_vars(Discover(w)) /\ WF_vars(DestructorJoin(w))
    /\ WF_vars(DestructorStop)

Spec == Init /\ [][Next]_vars /\ Fairness

-----------------------------------------------------------------------------
(* Properties.                                                             *)

Claims(t) ==
    {r \in Requester : frame[r].pc \in {"Spawn", "Unclaim"} /\ frame[r].table = t}

Searches(t) ==
    {w \in Worker : discovery[w].pc \in {"Describe", "Store", "Erase"} /\ discovery[w].table = t}

(* A table is in in_progress exactly while one write is about to create a  *)
(* thread for it or one thread discovers its key: no two discoveries of a  *)
(* table overlap, whatever order checks, claims, failures to create the    *)
(* thread and results come in, and no table stays claimed by nobody (which *)
(* would end its discovery for good).                                      *)
OneDiscoveryPerTable ==
    \A t \in Table :
        /\ Claims(t) \cup Searches(t) # {} <=> t \in in_progress
        /\ Claims(t) = {} \/ Searches(t) = {}
        /\ \A r1, r2 \in Claims(t) : r1 = r2
        /\ \A w1, w2 \in Searches(t) : w1 = w2

(* No discovery thread outlives the helper it works on: once the           *)
(* destructor has passed its wait, every thread ever created has exited    *)
(* and been joined.                                                        *)
NoThreadOutlivesHelper ==
    helper = "Stopped" => \A w \in Worker : discovery[w].pc \in {"Unborn", "Joined"}

(* A write that misses the name of a table does not leave it at that: by   *)
(* the time it returns the table has had a discovery in progress or a      *)
(* name, or the thread could not be created.                               *)
MissesAreServed ==
    \A r \in Requester : At(r, "Return") => frame[r].missing \subseteq witnessed[r].served

(* A write, or one table of a batch, whose key is known, present and       *)
(* unchanged throughout the call gets affinity, whatever happens to the    *)
(* other tables of a batch.                                                *)
KnownKeysAreUsed ==
    \A r \in Requester :
        At(r, "Return") /\ (\E t \in frame[r].tables \ witnessed[r].changed : names[t] \in frame[r].item)
            => frame[r].plan = "Affinity"

(* The destructor returns: no thread it joins waits for something the      *)
(* destructor holds, and none of them goes on for ever.                    *)
DestructorReturns == helper = "Joining" ~> helper = "Stopped"
=============================================================================
