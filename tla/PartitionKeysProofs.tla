------------------------ MODULE PartitionKeysProofs ------------------------
(***************************************************************************)
(* Theorems about PartitionKeys, for any tables, names, writes and         *)
(* attempts and any number of writers and discovery threads: the types,    *)
(* and the four safety properties of the module.                           *)
(***************************************************************************)
EXTENDS PartitionKeys, TLAPS

-----------------------------------------------------------------------------
(* What a step does to the frames.                                         *)

(* The frame of a thread outside a call is a frame.                        *)
LEMMA IdleFrameType ==
    /\ IdleFrame \in Frame /\ IdleFrame.pc = "Idle" /\ IdleFrame.table \in Table
    /\ Unborn \in Discovery
<1>1. (CHOOSE t \in Table : TRUE) \in Table
  BY PartitionKeysAssumption
<1>2. IdleFrame \in Frame /\ IdleFrame.pc = "Idle" /\ IdleFrame.table \in Table
  BY <1>1 DEF IdleFrame, Frame, Plan
<1>3. Unborn \in Discovery
  BY <1>2, PartitionKeysAssumption DEF Unborn, Discovery
<1>4. QED
  BY <1>2, <1>3

(* The frame of r becomes g, and the other frames stay.                    *)
Moves(r, g) == g \in Frame /\ frame' = [frame EXCEPT ![r] = g]

(* So r has the frame g, and nobody else's frame is another.               *)
LEMMA MovesOne ==
    ASSUME TypeOK, NEW r \in Requester, NEW g, Moves(r, g)
    PROVE  /\ frame' \in [Requester -> Frame] /\ frame'[r] = g
           /\ \A q \in Requester : q # r => frame'[q] = frame[q]
BY DEF TypeOK, Moves

(* The frame f of a write that goes on at pc, that ends with a plan, and   *)
(* that turns to the missing table t.                                      *)
GoneTo(f, pc) == [f EXCEPT !.pc = pc]
Planned(f, plan) == [f EXCEPT !.pc = "Return", !.plan = plan]
Visited(f, t) == [f EXCEPT !.todo = @ \cup {t}, !.table = t, !.pc = "Check"]

(* A step that only goes on in the code.                                   *)
LEMMA JumpEffect ==
    ASSUME TypeOK, NEW r \in Requester,
           NEW pc \in {"Next", "Claim", "Spawn", "Unclaim", "Hash"},
           frame' = [frame EXCEPT ![r].pc = pc]
    PROVE  Moves(r, GoneTo(frame[r], pc))
<1>1. frame[r] \in Frame
  BY DEF TypeOK
<1>2. GoneTo(frame[r], pc) \in Frame
  BY <1>1 DEF Frame, GoneTo
<1>3. QED
  BY <1>2 DEF TypeOK, Moves, GoneTo

(* A write that ends with a plan.                                          *)
LEMMA PlanEffect ==
    ASSUME TypeOK, NEW r \in Requester, NEW plan \in Plan,
           frame' = [frame EXCEPT ![r].pc = "Return", ![r].plan = plan]
    PROVE  Moves(r, Planned(frame[r], plan))
<1>1. frame[r] \in Frame
  BY DEF TypeOK
<1>2. Planned(frame[r], plan) \in Frame
  BY <1>1 DEF Frame, Planned
<1>3. QED
  BY <1>2 DEF TypeOK, Moves, Planned

(* A step of a write that keeps to its frame f but for the place in the    *)
(* code, the tables visited, the table at hand and the plan.               *)
Goes(f, g) ==
    /\ g.tables = f.tables /\ g.batch = f.batch /\ g.item = f.item
    /\ g.key = f.key /\ g.missing = f.missing

(* A step that only goes on keeps everything but its place.                *)
LEMMA JumpFields ==
    ASSUME NEW f \in Frame, NEW g, NEW pc, g = GoneTo(f, pc)
    PROVE  Goes(f, g) /\ g.todo = f.todo /\ g.table = f.table /\ g.pc = pc
BY DEF Frame, Goes, GoneTo

(* A write that ends has a plan, and keeps what it knows.                  *)
LEMMA PlanFields ==
    ASSUME NEW f \in Frame, NEW g, NEW plan, g = Planned(f, plan)
    PROVE  Goes(f, g) /\ g.pc = "Return" /\ g.plan = plan
BY DEF Frame, Goes, Planned

(* The loop over the missing tables has visited one more.                  *)
LEMMA VisitFields ==
    ASSUME NEW f \in Frame, NEW g, NEW t, g = Visited(f, t)
    PROVE  Goes(f, g) /\ g.todo = f.todo \cup {t} /\ g.table = t /\ g.pc = "Check"
BY DEF Frame, Goes, Visited

(* The frame of a write that has just begun.                               *)
Begun(write) ==
    [IdleFrame EXCEPT !.pc = "Read", !.tables = write.tables, !.batch = write.batch,
                      !.item = write.item, !.todo = write.tables]

(* BeginWrite sets up the frame of one of the writes.                      *)
LEMMA BeginWriteEffect ==
    ASSUME TypeOK, NEW r \in Requester, BeginWrite(r)
    PROVE  \E write \in Writes : Moves(r, Begun(write))
<1>1. PICK write \in Writes : frame' = [frame EXCEPT ![r] = Begun(write)]
  BY DEF BeginWrite, Begun
<1>2. /\ write.tables \subseteq Table /\ write.batch \in BOOLEAN /\ write.item \subseteq Name
  BY PartitionKeysAssumption
<1>3. Begun(write) \in Frame
  BY <1>2, IdleFrameType DEF Begun, Frame
<1>4. QED
  BY <1>1, <1>3 DEF Moves

(* The frame after the name of t was read first.                           *)
HasRead(f, t) ==
    [f EXCEPT !.key = [@ EXCEPT ![t] = names[t]],
              !.todo = IF f.todo \ {t} = {} THEN f.tables ELSE f.todo \ {t},
              !.pc = IF f.todo \ {t} = {} THEN "Recheck" ELSE "Read"]

(* ReadName reads the name of one table it has yet to visit.               *)
LEMMA ReadNameEffect ==
    ASSUME TypeOK, NEW r \in Requester, ReadName(r)
    PROVE  \E t \in frame[r].todo : Moves(r, HasRead(frame[r], t))
<1>1. PICK t \in frame[r].todo :
         frame' = [frame EXCEPT ![r].key[t] = names[t],
                     ![r].todo = IF frame[r].todo \ {t} = {} THEN frame[r].tables
                                                             ELSE frame[r].todo \ {t},
                     ![r].pc = IF frame[r].todo \ {t} = {} THEN "Recheck" ELSE "Read"]
  BY DEF ReadName
<1>2. frame' = [frame EXCEPT ![r] = HasRead(frame[r], t)]
  BY <1>1 DEF TypeOK, HasRead
<1>3. frame[r] \in Frame /\ names \in [Table -> Name \cup {NoName}]
  BY DEF TypeOK
<1>4. /\ frame[r].tables \subseteq Table /\ frame[r].todo \subseteq Table
      /\ frame[r].key \in [Table -> Name \cup {NoName}]
  BY <1>3 DEF Frame
<1> DEFINE key == [frame[r].key EXCEPT ![t] = names[t]]
           todo == IF frame[r].todo \ {t} = {} THEN frame[r].tables ELSE frame[r].todo \ {t}
           pc == IF frame[r].todo \ {t} = {} THEN "Recheck" ELSE "Read"
<1>5. key \in [Table -> Name \cup {NoName}] /\ todo \subseteq Table /\ pc \in {"Read", "Recheck"}
  BY <1>3, <1>4
<1>6. HasRead(frame[r], t) = [frame[r] EXCEPT !.key = key, !.todo = todo, !.pc = pc]
  BY DEF HasRead
<1> HIDE DEF key, todo, pc
<1>7. HasRead(frame[r], t) \in Frame
  BY <1>3, <1>5, <1>6 DEF Frame
<1>8. QED
  BY <1>2, <1>7 DEF Moves

(* The frame after the name of t was asked for again.                      *)
HasRechecked(f, t) ==
    [f EXCEPT !.todo = (f.todo \cap Operations(f)) \ {t},
              !.missing = IF names[t] = NoName THEN @ \cup {t} ELSE @,
              !.pc = IF f.todo \cap Operations(f) = {t} THEN "Next" ELSE "Recheck"]

(* RecheckName ends with the default plan, or rechecks one table.          *)
LEMMA RecheckNameEffect ==
    ASSUME TypeOK, NEW r \in Requester, RecheckName(r)
    PROVE  \/ /\ Operations(frame[r]) = {}
              /\ Moves(r, Planned(frame[r], "Default"))
           \/ \E t \in frame[r].todo \cap Operations(frame[r]) :
                Moves(r, HasRechecked(frame[r], t))
<1> DEFINE f == frame[r]
           left == f.todo \cap Operations(f)
<1>1. CASE /\ Operations(f) = {}
           /\ frame' = [frame EXCEPT ![r].pc = "Return", ![r].plan = "Default"]
  BY <1>1, PlanEffect DEF Plan
<1>2. ASSUME NEW t \in left,
             frame' = [frame EXCEPT ![r].todo = left \ {t},
                        ![r].missing = IF names[t] = NoName THEN @ \cup {t} ELSE @,
                        ![r].pc = IF left = {t} THEN "Next" ELSE "Recheck"]
      PROVE  Moves(r, HasRechecked(f, t))
  <2>1. frame' = [frame EXCEPT ![r] = HasRechecked(f, t)]
    BY <1>2 DEF TypeOK, HasRechecked
  <2>2. f \in Frame
    BY DEF TypeOK
  <2>3. f.todo \subseteq Table /\ f.missing \subseteq Table
    BY <2>2 DEF Frame
  <2> DEFINE todo == left \ {t}
             missing == IF names[t] = NoName THEN f.missing \cup {t} ELSE f.missing
             pc == IF left = {t} THEN "Next" ELSE "Recheck"
  <2>4. todo \subseteq Table /\ missing \subseteq Table /\ pc \in {"Next", "Recheck"}
    BY <2>3
  <2>5. HasRechecked(f, t) = [f EXCEPT !.todo = todo, !.missing = missing, !.pc = pc]
    BY DEF HasRechecked
  <2> HIDE DEF todo, missing, pc, f
  <2>6. HasRechecked(f, t) \in Frame
    BY <2>2, <2>4, <2>5 DEF Frame
  <2>7. QED
    BY <2>1, <2>6 DEF Moves, f
<1>3. QED
  BY <1>1, <1>2 DEF RecheckName

(* NextMissing goes to one more missing table, or the loop is over.        *)
LEMMA NextMissingEffect ==
    ASSUME TypeOK, NEW r \in Requester, NextMissing(r)
    PROVE  \/ \E t \in frame[r].missing \ frame[r].todo :
                Moves(r, Visited(frame[r], t))
           \/ /\ frame[r].missing \subseteq frame[r].todo
              /\ \/ /\ frame[r].missing # {} /\ ~frame[r].batch
                    /\ Moves(r, Planned(frame[r], "Default"))
                 \/ Moves(r, GoneTo(frame[r], "Hash"))
<1> DEFINE f == frame[r]
<1>1. f \in Frame
  BY DEF TypeOK
<1>2. ASSUME NEW t \in f.missing \ f.todo,
             frame' = [frame EXCEPT ![r].todo = @ \cup {t}, ![r].table = t, ![r].pc = "Check"]
      PROVE  Moves(r, Visited(f, t))
  <2>1. frame' = [frame EXCEPT ![r] = Visited(f, t)]
    BY <1>2 DEF TypeOK, Visited
  <2>2. f.todo \cup {t} \subseteq Table /\ t \in Table
    BY <1>1 DEF Frame
  <2>3. Visited(f, t) \in Frame
    BY <1>1, <2>2 DEF Frame, Visited
  <2>4. QED
    BY <2>1, <2>3 DEF Moves
<1>3. CASE /\ f.missing \subseteq f.todo
           /\ frame' = [frame EXCEPT ![r] = IF f.missing # {} /\ ~f.batch
                                            THEN [f EXCEPT !.pc = "Return", !.plan = "Default"]
                                            ELSE [f EXCEPT !.pc = "Hash"]]
  <2>1. Planned(f, "Default") \in Frame /\ GoneTo(f, "Hash") \in Frame
    BY <1>1 DEF Frame, Plan, Planned, GoneTo
  <2>2. QED
    BY <1>3, <2>1 DEF Moves, Planned, GoneTo
<1>4. QED
  BY <1>2, <1>3 DEF NextMissing

(* TriggerCheck, TriggerClaim, TriggerSpawn and TriggerUnclaim only go on. *)
LEMMA TriggerEffect ==
    ASSUME TypeOK, NEW r \in Requester
    PROVE  /\ TriggerCheck(r) =>
                \/ names[frame[r].table] # NoName /\ Moves(r, GoneTo(frame[r], "Next"))
                \/ names[frame[r].table] = NoName /\ Moves(r, GoneTo(frame[r], "Claim"))
           /\ TriggerClaim(r) =>
                \/ frame[r].table \in in_progress /\ Moves(r, GoneTo(frame[r], "Next"))
                \/ frame[r].table \notin in_progress /\ Moves(r, GoneTo(frame[r], "Spawn"))
           /\ TriggerSpawn(r) =>
                \/ /\ Moves(r, GoneTo(frame[r], "Next"))
                   /\ \E w \in Worker :
                        /\ discovery[w].pc = "Unborn"
                        /\ discovery' = [discovery EXCEPT ![w].pc = "Describe",
                                                          ![w].table = frame[r].table]
                        /\ workers' = workers \cup {w}
                \/ /\ Moves(r, GoneTo(frame[r], "Unclaim"))
                   /\ UNCHANGED <<workers, discovery>>
           /\ TriggerUnclaim(r) => Moves(r, GoneTo(frame[r], "Next"))
<1>1. TriggerCheck(r) => \/ /\ names[frame[r].table] # NoName
                            /\ frame' = [frame EXCEPT ![r].pc = "Next"]
                         \/ /\ names[frame[r].table] = NoName
                            /\ frame' = [frame EXCEPT ![r].pc = "Claim"]
  BY DEF TriggerCheck
<1>2. TriggerClaim(r) => \/ /\ frame[r].table \in in_progress
                            /\ frame' = [frame EXCEPT ![r].pc = "Next"]
                         \/ /\ frame[r].table \notin in_progress
                            /\ frame' = [frame EXCEPT ![r].pc = "Spawn"]
  BY DEF TriggerClaim
<1>3. TriggerUnclaim(r) => frame' = [frame EXCEPT ![r].pc = "Next"]
  BY DEF TriggerUnclaim
<1>4. \A pc \in {"Next", "Claim", "Spawn", "Unclaim", "Hash"} :
        frame' = [frame EXCEPT ![r].pc = pc] => Moves(r, GoneTo(frame[r], pc))
  BY JumpEffect
<1>5. /\ frame' = [frame EXCEPT ![r].pc = "Next"] => Moves(r, GoneTo(frame[r], "Next"))
      /\ frame' = [frame EXCEPT ![r].pc = "Claim"] => Moves(r, GoneTo(frame[r], "Claim"))
      /\ frame' = [frame EXCEPT ![r].pc = "Spawn"] => Moves(r, GoneTo(frame[r], "Spawn"))
      /\ frame' = [frame EXCEPT ![r].pc = "Unclaim"]
            => Moves(r, GoneTo(frame[r], "Unclaim"))
  BY <1>4
<1>6. TriggerSpawn(r) =>
        \/ /\ frame' = [frame EXCEPT ![r].pc = "Next"]
           /\ \E w \in Worker :
                /\ discovery[w].pc = "Unborn"
                /\ discovery' = [discovery EXCEPT ![w].pc = "Describe",
                                                  ![w].table = frame[r].table]
                /\ workers' = workers \cup {w}
        \/ frame' = [frame EXCEPT ![r].pc = "Unclaim"] /\ UNCHANGED <<workers, discovery>>
  BY DEF TriggerSpawn
<1>7. QED
  BY <1>1, <1>2, <1>3, <1>5, <1>6

(* HashKey ends with a plan with affinity if one table's key still counts. *)
LEMMA HashKeyEffect ==
    ASSUME TypeOK, NEW r \in Requester, HashKey(r)
    PROVE  \/ Moves(r, Planned(frame[r], "Affinity"))
           \/ /\ Moves(r, Planned(frame[r], "Default"))
              /\ \A t \in frame[r].tables :
                    frame[r].key[t] \notin frame[r].item \/ names[t] # frame[r].key[t]
<1>1. \/ frame' = [frame EXCEPT ![r].pc = "Return", ![r].plan = "Affinity"]
      \/ /\ frame' = [frame EXCEPT ![r].pc = "Return", ![r].plan = "Default"]
         /\ \A t \in frame[r].tables :
               frame[r].key[t] \notin frame[r].item \/ names[t] # frame[r].key[t]
  BY DEF HashKey
<1>2. QED
  BY <1>1, PlanEffect DEF Plan

(* What BeginWrite puts into the frame.                                    *)
LEMMA BeginWriteFields ==
    ASSUME TypeOK, NEW r \in Requester, BeginWrite(r)
    PROVE  /\ frame'[r].pc = "Read" /\ frame'[r].missing = {}
           /\ frame'[r].todo = frame'[r].tables
           /\ ~frame'[r].batch => \E t \in Table : frame'[r].tables = {t}
<1>1. PICK write \in Writes : frame'[r] = Begun(write)
  BY BeginWriteEffect, MovesOne
<1>2. /\ Begun(write).pc = "Read" /\ Begun(write).missing = {}
      /\ Begun(write).todo = write.tables /\ Begun(write).tables = write.tables
      /\ Begun(write).batch = write.batch
  BY IdleFrameType DEF Begun, IdleFrame
<1>3. QED
  BY <1>1, <1>2, PartitionKeysAssumption

(* What ReadName puts into the frame.                                      *)
LEMMA ReadNameFields ==
    ASSUME TypeOK, NEW r \in Requester, ReadName(r)
    PROVE  \E t \in frame[r].todo :
              /\ frame'[r].tables = frame[r].tables /\ frame'[r].batch = frame[r].batch
              /\ frame'[r].item = frame[r].item /\ frame'[r].missing = frame[r].missing
              /\ frame'[r].key = [frame[r].key EXCEPT ![t] = names[t]]
              /\ \/ frame[r].todo = {t} /\ frame'[r].pc = "Recheck"
                 \/ frame'[r].todo = frame[r].todo \ {t} /\ frame'[r].pc = "Read"
<1>1. PICK t \in frame[r].todo : frame'[r] = HasRead(frame[r], t)
  BY ReadNameEffect, MovesOne
<1>2. frame[r] \in Frame
  BY DEF TypeOK
<1>3. ASSUME NEW f \in Frame, NEW g, g = HasRead(f, t)
      PROVE  /\ g.tables = f.tables /\ g.batch = f.batch
             /\ g.item = f.item /\ g.missing = f.missing
             /\ g.key = [f.key EXCEPT ![t] = names[t]]
             /\ g.todo = IF f.todo \ {t} = {} THEN f.tables ELSE f.todo \ {t}
             /\ g.pc = IF f.todo \ {t} = {} THEN "Recheck" ELSE "Read"
  BY <1>3 DEF HasRead, Frame
<1>4. /\ frame'[r].todo = IF frame[r].todo \ {t} = {} THEN frame[r].tables ELSE frame[r].todo \ {t}
      /\ frame'[r].pc = IF frame[r].todo \ {t} = {} THEN "Recheck" ELSE "Read"
  BY <1>1, <1>2, <1>3
<1>5. \/ frame[r].todo = {t} /\ frame'[r].pc = "Recheck"
      \/ frame'[r].todo = frame[r].todo \ {t} /\ frame'[r].pc = "Read"
  BY <1>4
<1>6. /\ frame'[r].tables = frame[r].tables /\ frame'[r].batch = frame[r].batch
      /\ frame'[r].item = frame[r].item /\ frame'[r].missing = frame[r].missing
      /\ frame'[r].key = [frame[r].key EXCEPT ![t] = names[t]]
  BY <1>1, <1>2, <1>3
<1>7. QED
  BY <1>5, <1>6

(* What RecheckName puts into the frame.                                   *)
LEMMA RecheckNameFields ==
    ASSUME TypeOK, NEW r \in Requester, RecheckName(r)
    PROVE  \/ /\ Operations(frame[r]) = {} /\ Goes(frame[r], frame'[r])
              /\ frame'[r].pc = "Return" /\ frame'[r].plan = "Default"
           \/ \E t \in frame[r].todo \cap Operations(frame[r]) :
                /\ frame'[r].tables = frame[r].tables /\ frame'[r].batch = frame[r].batch
                /\ frame'[r].item = frame[r].item /\ frame'[r].key = frame[r].key
                /\ frame'[r].missing = IF names[t] = NoName THEN frame[r].missing \cup {t}
                                                            ELSE frame[r].missing
                /\ \/ frame'[r].todo = {} /\ frame'[r].pc = "Next"
                   \/ frame'[r].pc = "Recheck"
<1>1. frame[r] \in Frame
  BY DEF TypeOK
<1>2. CASE /\ Operations(frame[r]) = {}
           /\ Moves(r, Planned(frame[r], "Default"))
  BY <1>1, <1>2, MovesOne, PlanFields
<1>3. ASSUME NEW t \in frame[r].todo \cap Operations(frame[r]), Moves(r, HasRechecked(frame[r], t))
      PROVE  \E u \in frame[r].todo \cap Operations(frame[r]) :
                /\ frame'[r].tables = frame[r].tables /\ frame'[r].batch = frame[r].batch
                /\ frame'[r].item = frame[r].item /\ frame'[r].key = frame[r].key
                /\ frame'[r].missing = IF names[u] = NoName THEN frame[r].missing \cup {u}
                                                            ELSE frame[r].missing
                /\ \/ frame'[r].todo = {} /\ frame'[r].pc = "Next"
                   \/ frame'[r].pc = "Recheck"
  <2>1. ASSUME NEW f \in Frame, NEW g, g = HasRechecked(f, t)
        PROVE  /\ g.tables = f.tables /\ g.batch = f.batch /\ g.item = f.item /\ g.key = f.key
               /\ g.todo = (f.todo \cap Operations(f)) \ {t}
               /\ g.missing = IF names[t] = NoName THEN f.missing \cup {t} ELSE f.missing
               /\ g.pc = IF f.todo \cap Operations(f) = {t} THEN "Next" ELSE "Recheck"
    BY <2>1 DEF HasRechecked, Frame
  <2>2. frame'[r] = HasRechecked(frame[r], t)
    BY <1>3, MovesOne
  <2>3. /\ frame'[r].tables = frame[r].tables /\ frame'[r].batch = frame[r].batch
        /\ frame'[r].item = frame[r].item /\ frame'[r].key = frame[r].key
        /\ frame'[r].missing = IF names[t] = NoName THEN frame[r].missing \cup {t}
                                                    ELSE frame[r].missing
    BY <1>1, <2>1, <2>2
  <2>4. \/ frame'[r].todo = {} /\ frame'[r].pc = "Next"
        \/ frame'[r].pc = "Recheck"
    BY ZenonT(40), <1>1, <2>1, <2>2
  <2>5. QED
    BY <2>3, <2>4
<1>4. QED
  BY <1>2, <1>3, RecheckNameEffect

(* A write moves the frame of its thread, and none but the claims and the  *)
(* creation of a thread touches anything else.                             *)
LEMMA WriteMoves ==
    ASSUME TypeOK, NEW r \in Requester, BeginWrite(r) \/ Write(r)
    PROVE  /\ \E g : Moves(r, g)
           /\ names' = names /\ helper' = helper
           /\ ~TriggerClaim(r) /\ ~TriggerUnclaim(r) => in_progress' = in_progress
           /\ ~TriggerSpawn(r) => workers' = workers /\ discovery' = discovery
           /\ \E failed : Witnessing(failed)
<1>1. CASE BeginWrite(r)
  BY <1>1, BeginWriteEffect DEF BeginWrite, discoveries
<1>2. CASE ReadName(r)
  BY <1>2, ReadNameEffect DEF ReadName, discoveries
<1>3. CASE RecheckName(r)
  BY <1>3, RecheckNameEffect DEF RecheckName, discoveries
<1>4. CASE NextMissing(r)
  BY <1>4, NextMissingEffect DEF NextMissing, discoveries
<1>5. CASE TriggerCheck(r)
  BY <1>5, TriggerEffect DEF TriggerCheck, discoveries
<1>6. CASE TriggerClaim(r)
  BY <1>6, TriggerEffect DEF TriggerClaim
<1>7. CASE TriggerSpawn(r)
  BY <1>7, TriggerEffect DEF TriggerSpawn
<1>8. CASE TriggerUnclaim(r)
  BY <1>8, TriggerEffect DEF TriggerUnclaim
<1>9. CASE HashKey(r)
  BY <1>9, HashKeyEffect DEF HashKey, discoveries
<1>10. CASE Return(r)
  BY <1>10, IdleFrameType DEF Return, Moves, discoveries
<1>11. QED
  BY <1>1, <1>2, <1>3, <1>4, <1>5, <1>6, <1>7, <1>8, <1>9, <1>10 DEF Write

(* Every step that is not a write leaves the frames alone.                 *)
LEMMA OthersMoveNothing ==
    ASSUME \/ \E w \in Worker : Discover(w)
           \/ SetPartitionKeyName \/ Destruct
    PROVE  frame' = frame /\ Witnessing({})
BY DEF Discover, Describe, Store, Erase, SetPartitionKeyName, Destruct, DestructorSwap,
       DestructorJoin, DestructorStop

-----------------------------------------------------------------------------
(* Types.                                                                  *)

(* The ghost has its type after every step.                                *)
LEMMA WitnessingType ==
    ASSUME TypeOK, NEW failed, Witnessing(failed), frame' \in [Requester -> Frame]
    PROVE  witnessed' \in [Requester -> Witness]
<1>1. SUFFICES ASSUME NEW r \in Requester
      PROVE  witnessed'[r] \in Witness
  BY DEF Witnessing
<1>2. frame'[r].missing \subseteq Table /\ frame'[r].tables \subseteq Table
  BY DEF Frame
<1>3. QED
  BY <1>2 DEF Witnessing, Witness, NoWitness

(* A thread that is created searches for the table of the write.           *)
LEMMA SpawnEffect ==
    ASSUME TypeOK, NEW r \in Requester, NEW w \in Worker,
           discovery' = [discovery EXCEPT ![w].pc = "Describe", ![w].table = frame[r].table]
    PROVE  /\ discovery' \in [Worker -> Discovery]
           /\ discovery'[w].pc = "Describe" /\ discovery'[w].table = frame[r].table
           /\ \A v \in Worker : v # w => discovery'[v] = discovery[v]
<1> DEFINE t == frame[r].table
           g == [discovery[w] EXCEPT !.pc = "Describe", !.table = t]
<1>1. t \in Table
  BY DEF TypeOK, Frame
<1>2. discovery[w] \in Discovery /\ discovery' = [discovery EXCEPT ![w] = g]
  BY DEF TypeOK
<1> HIDE DEF t
<1>3. g \in Discovery /\ g.pc = "Describe" /\ g.table = t
  BY <1>1, <1>2 DEF Discovery
<1> HIDE DEF g
<1>4. QED
  BY <1>2, <1>3 DEF TypeOK, t

(* A step of a write keeps the types.                                      *)
LEMMA WriteType ==
    ASSUME TypeOK, NEW r \in Requester, BeginWrite(r) \/ Write(r)
    PROVE  TypeOK'
<1>1. frame' \in [Requester -> Frame] /\ witnessed' \in [Requester -> Witness]
  BY WriteMoves, MovesOne, WitnessingType
<1>2. names' \in [Table -> Name \cup {NoName}] /\ helper' \in {"Alive", "Joining", "Stopped"}
  BY WriteMoves DEF TypeOK
<1>3. in_progress' \subseteq Table
  <2>1. frame[r].table \in Table
    BY DEF TypeOK, Frame
  <2>2. QED
    BY <2>1, WriteMoves DEF TypeOK, TriggerClaim, TriggerUnclaim
<1>4. workers' \subseteq Worker /\ discovery' \in [Worker -> Discovery]
  <2>1. CASE TriggerSpawn(r)
    BY ZenonT(40), <2>1, TriggerEffect, SpawnEffect DEF TypeOK
  <2>2. CASE ~TriggerSpawn(r)
    BY <2>2, WriteMoves DEF TypeOK
  <2>3. QED
    BY <2>1, <2>2
<1>5. QED
  BY <1>1, <1>2, <1>3, <1>4 DEF TypeOK

(* Describe finds a name, asks again, or gives up.                         *)
LEMMA DescribeEffect ==
    ASSUME TypeOK, NEW w \in Worker, Describe(w)
    PROVE  \E d \in Discovery :
              /\ discovery' = [discovery EXCEPT ![w] = d]
              /\ d.pc \in {"Describe", "Store", "Erase"} /\ d.table = discovery[w].table
<1> DEFINE d == discovery[w]
<1>1. d \in Discovery /\ d.pc = "Describe"
  BY DEF TypeOK, Describe
<1>2. \/ \E n \in Name \cup {NoName} :
           discovery' = [discovery EXCEPT ![w] = [d EXCEPT !.pc = "Store", !.name = n]]
      \/ /\ d.attempt < Attempts
         /\ discovery' = [discovery EXCEPT ![w] = [d EXCEPT !.attempt = @ + 1]]
      \/ discovery' = [discovery EXCEPT ![w] = [d EXCEPT !.pc = "Erase"]]
  <2>1. CASE discovery' = [discovery EXCEPT ![w].pc = "Erase"]
    BY <2>1 DEF TypeOK
  <2>2. ASSUME NEW n \in Name \cup {NoName},
               discovery' = [discovery EXCEPT ![w] =
                  CASE n # NoName -> [d EXCEPT !.pc = "Store", !.name = n]
                    [] n = NoName /\ d.attempt < Attempts -> [d EXCEPT !.attempt = @ + 1]
                    [] OTHER -> [d EXCEPT !.pc = "Erase"]]
        PROVE  <1>2!1 \/ <1>2!2 \/ <1>2!3
    <3>1. CASE n # NoName
      BY <2>2, <3>1
    <3>2. CASE n = NoName /\ d.attempt < Attempts
      BY <2>2, <3>2
    <3>3. CASE n = NoName /\ ~(d.attempt < Attempts)
      BY <2>2, <3>3
    <3>4. QED
      BY <3>1, <3>2, <3>3
  <2>3. QED
    BY <2>1, <2>2 DEF Describe, DiscoverPartitionKeyName
<1>3. CASE discovery' = [discovery EXCEPT ![w] = [d EXCEPT !.pc = "Erase"]]
  <2> DEFINE e == [d EXCEPT !.pc = "Erase"]
  <2>1. e \in Discovery /\ e.pc = "Erase" /\ e.table = d.table
    BY <1>1 DEF Discovery
  <2>2. QED
    BY <1>3, <2>1
<1>4. CASE /\ d.attempt < Attempts
           /\ discovery' = [discovery EXCEPT ![w] = [d EXCEPT !.attempt = @ + 1]]
  <2> DEFINE e == [d EXCEPT !.attempt = @ + 1]
  <2>1. d.attempt + 1 \in 1 .. Attempts
    BY <1>1, <1>4, PartitionKeysAssumption DEF Discovery
  <2>2. e \in Discovery /\ e.pc = "Describe" /\ e.table = d.table
    BY <1>1, <2>1 DEF Discovery
  <2>3. QED
    BY <1>4, <2>2
<1>5. ASSUME NEW n \in Name \cup {NoName},
             discovery' = [discovery EXCEPT ![w] = [d EXCEPT !.pc = "Store", !.name = n]]
      PROVE  \E e \in Discovery :
                /\ discovery' = [discovery EXCEPT ![w] = e]
                /\ e.pc \in {"Describe", "Store", "Erase"} /\ e.table = discovery[w].table
  <2> DEFINE e == [d EXCEPT !.pc = "Store", !.name = n]
  <2>1. e \in Discovery /\ e.pc = "Store" /\ e.table = d.table
    BY <1>1 DEF Discovery
  <2>2. QED
    BY <1>5, <2>1
<1>6. QED
  BY <1>2, <1>3, <1>4, <1>5

(* A step of a discovery thread keeps the types.                           *)
LEMMA DiscoverType ==
    ASSUME TypeOK, NEW w \in Worker, Discover(w)
    PROVE  TypeOK'
<1>. USE DEF TypeOK
<1>1. discovery[w] \in Discovery
  OBVIOUS
<1>2. frame' = frame /\ workers' = workers /\ helper' = helper
  BY DEF Discover, Describe, Store, Erase
<1>3. witnessed' \in [Requester -> Witness]
  BY <1>2, OthersMoveNothing, WitnessingType
<1>4. CASE Describe(w)
  BY <1>2, <1>3, <1>4, DescribeEffect DEF Describe
<1>5. CASE Store(w)
  BY <1>1, <1>2, <1>3, <1>5 DEF Store, Discovery
<1>6. CASE Erase(w)
  BY <1>2, <1>3, <1>6, IdleFrameType DEF Erase, Discovery
<1>7. QED
  BY <1>4, <1>5, <1>6 DEF Discover

(* So do the application and the destructor.                               *)
LEMMA HelperType ==
    ASSUME TypeOK, SetPartitionKeyName \/ Destruct
    PROVE  TypeOK'
<1>. USE DEF TypeOK
<1>1. frame' = frame /\ in_progress' = in_progress
  BY DEF SetPartitionKeyName, Destruct, DestructorSwap, DestructorJoin, DestructorStop, discoveries
<1>2. witnessed' \in [Requester -> Witness]
  BY <1>1, OthersMoveNothing, WitnessingType
<1>3. CASE SetPartitionKeyName
  BY <1>1, <1>2, <1>3 DEF SetPartitionKeyName, discoveries
<1>4. CASE DestructorSwap \/ DestructorStop
  BY <1>1, <1>2, <1>4 DEF DestructorSwap, DestructorStop, discoveries
<1>5. ASSUME NEW w \in Worker, DestructorJoin(w)
      PROVE  TypeOK'
  BY <1>1, <1>2, <1>5 DEF DestructorJoin, Discovery
<1>6. QED
  BY <1>3, <1>4, <1>5 DEF Destruct

(* Every variable has its type in the initial state.                       *)
LEMMA InitType == Init => TypeOK
BY IdleFrameType, PartitionKeysAssumption DEF Init, TypeOK, Witness, NoWitness

(* Every variable keeps its type in every step.                            *)
LEMMA NextType == TypeOK /\ [Next]_vars => TypeOK'
<1>1. ASSUME TypeOK, Next
      PROVE  TypeOK'
  BY <1>1, WriteType, DiscoverType, HelperType DEF Next
<1>2. ASSUME TypeOK, UNCHANGED vars
      PROVE  TypeOK'
  BY <1>2 DEF TypeOK, vars, discoveries
<1>3. QED
  BY <1>1, <1>2

(* The names, the discoveries, the frames and the ghost keep their types.  *)
THEOREM TypeCorrect == Spec => []TypeOK
BY InitType, NextType, PTL DEF Spec

-----------------------------------------------------------------------------
(* One discovery per table.                                                *)

(* The claims of a table after a step of r.                                *)
LEMMA ClaimsMove ==
    ASSUME TypeOK, NEW r \in Requester, NEW g, Moves(r, g), NEW t
    PROVE  /\ g.pc \in {"Spawn", "Unclaim"} /\ g.table = t => Claims(t)' = Claims(t) \cup {r}
           /\ ~(g.pc \in {"Spawn", "Unclaim"} /\ g.table = t) => Claims(t)' = Claims(t) \ {r}
BY MovesOne DEF Claims

(* A step of a write that neither makes a claim nor gives one up.          *)
LEMMA ClaimsStay ==
    ASSUME TypeOK, NEW r \in Requester, NEW g, Moves(r, g), NEW t,
           frame[r].pc \notin {"Spawn", "Unclaim"}, g.pc \notin {"Spawn", "Unclaim"}
    PROVE  Claims(t)' = Claims(t)
<1>1. r \notin Claims(t)
  BY DEF Claims
<1>2. QED
  BY <1>1, ClaimsMove

(* The searches for a table after a step of the thread w.                  *)
LEMMA SearchesMove ==
    ASSUME TypeOK, NEW w \in Worker, NEW t, discovery' \in [Worker -> Discovery],
           \A v \in Worker : v # w => discovery'[v] = discovery[v]
    PROVE  /\ discovery'[w].pc \in {"Describe", "Store", "Erase"} /\ discovery'[w].table = t
                => Searches(t)' = Searches(t) \cup {w}
           /\ ~(discovery'[w].pc \in {"Describe", "Store", "Erase"} /\ discovery'[w].table = t)
                => Searches(t)' = Searches(t) \ {w}
BY DEF Searches

(* Nothing has to be shown where claims, searches and in_progress stay.    *)
LEMMA OneDiscoveryStays ==
    ASSUME OneDiscoveryPerTable, in_progress' = in_progress,
           \A t \in Table : Claims(t)' = Claims(t) /\ Searches(t)' = Searches(t)
    PROVE  OneDiscoveryPerTable'
BY DEF OneDiscoveryPerTable

(* Writes that are not at a claim have no part in it.                      *)
LEMMA QuietWritesKeepOneDiscovery ==
    ASSUME TypeOK, OneDiscoveryPerTable, NEW r \in Requester,
           \/ BeginWrite(r) \/ ReadName(r) \/ RecheckName(r) \/ NextMissing(r)
           \/ TriggerCheck(r) \/ HashKey(r) \/ Return(r)
    PROVE  OneDiscoveryPerTable'
<1>0. frame[r] \in Frame
  BY DEF TypeOK
<1>1. in_progress' = in_progress /\ discovery' = discovery
  BY DEF BeginWrite, ReadName, RecheckName, NextMissing, TriggerCheck, HashKey, Return, discoveries
<1>2. frame[r].pc \notin {"Spawn", "Unclaim"}
  BY DEF BeginWrite, ReadName, RecheckName, NextMissing, TriggerCheck, HashKey, Return, At
<1>3. \E g : Moves(r, g) /\ g.pc \notin {"Spawn", "Unclaim"}
  <2>1. CASE BeginWrite(r)
    BY <2>1, BeginWriteEffect, BeginWriteFields, MovesOne
  <2>2. CASE ReadName(r)
    <3>1. frame'[r].pc \in {"Read", "Recheck"}
      BY <2>2, ReadNameFields
    <3>2. QED
      BY <2>2, <3>1, ReadNameEffect, MovesOne
  <2>3. CASE RecheckName(r)
    <3>1. frame'[r].pc \in {"Return", "Next", "Recheck"}
      BY <2>3, RecheckNameFields
    <3>2. QED
      BY <2>3, <3>1, RecheckNameEffect, MovesOne
  <2>4. CASE NextMissing(r)
    BY <1>0, <2>4, NextMissingEffect, PlanFields, JumpFields, VisitFields
  <2>5. CASE TriggerCheck(r)
    BY <1>0, <2>5, TriggerEffect, JumpFields
  <2>6. CASE HashKey(r)
    BY <1>0, <2>6, HashKeyEffect, PlanFields
  <2>7. CASE Return(r)
    BY <2>7, IdleFrameType DEF Return, Moves
  <2>8. QED
    BY <2>1, <2>2, <2>3, <2>4, <2>5, <2>6, <2>7
<1>4. \A t \in Table : Claims(t)' = Claims(t)
  BY <1>2, <1>3, ClaimsStay
<1>5. \A t \in Table : Searches(t)' = Searches(t)
  BY <1>1 DEF Searches
<1>6. QED
  BY <1>1, <1>4, <1>5, OneDiscoveryStays

(* A claim is made only of a table that nobody has.                        *)
LEMMA ClaimKeepsOneDiscovery ==
    ASSUME TypeOK, OneDiscoveryPerTable, NEW r \in Requester, TriggerClaim(r)
    PROVE  OneDiscoveryPerTable'
<1> DEFINE u == frame[r].table
<1>1. frame[r] \in Frame /\ u \in Table /\ frame[r].pc = "Claim"
  BY DEF TypeOK, Frame, TriggerClaim, At
<1>2. \A t \in Table : Searches(t)' = Searches(t)
  BY DEF TriggerClaim, Searches
<1>3. in_progress' = in_progress \cup {u}
  BY DEF TriggerClaim
<1>4. CASE u \in in_progress /\ Moves(r, GoneTo(frame[r], "Next"))
  <2>1. GoneTo(frame[r], "Next").pc = "Next"
    BY <1>1, JumpFields
  <2>2. \A t \in Table : Claims(t)' = Claims(t)
    BY <1>1, <1>4, <2>1, ClaimsStay
  <2>3. QED
    BY <1>2, <1>3, <1>4, <2>2, OneDiscoveryStays
<1>5. CASE u \notin in_progress /\ Moves(r, GoneTo(frame[r], "Spawn"))
  <2>1. PICK g : Moves(r, g) /\ g.pc = "Spawn" /\ g.table = u
    BY <1>1, <1>5, JumpFields
  <2>2. \A t \in Table : r \notin Claims(t)
    BY <1>1 DEF Claims
  <2>3. \A t \in Table : Claims(t)' = IF t = u THEN Claims(t) \cup {r} ELSE Claims(t)
    BY <2>1, <2>2, ClaimsMove
  <2>4. Claims(u) = {} /\ Searches(u) = {}
    BY <1>1, <1>5 DEF OneDiscoveryPerTable
  <2>5. QED
    BY <1>1, <1>2, <1>3, <2>3, <2>4 DEF OneDiscoveryPerTable
<1>6. QED
  BY <1>4, <1>5, TriggerEffect

(* The claim passes from the write to the thread it creates.               *)
LEMMA SpawnKeepsOneDiscovery ==
    ASSUME TypeOK, OneDiscoveryPerTable, NEW r \in Requester, TriggerSpawn(r)
    PROVE  OneDiscoveryPerTable'
<1> DEFINE u == frame[r].table
<1>1. frame[r] \in Frame /\ u \in Table /\ r \in Claims(u)
  BY DEF TypeOK, Frame, TriggerSpawn, At, Claims
<1>2. in_progress' = in_progress
  BY DEF TriggerSpawn
<1>3. \A t \in Table : t # u => r \notin Claims(t)
  BY DEF Claims
<1>4. CASE Moves(r, GoneTo(frame[r], "Unclaim")) /\ UNCHANGED <<workers, discovery>>
  <2>1. PICK g : Moves(r, g) /\ g.pc = "Unclaim" /\ g.table = u
    BY <1>1, <1>4, JumpFields
  <2>2. \A t \in Table : Claims(t)' = Claims(t)
    <3>1. \A t \in Table : t = u => Claims(t)' = Claims(t) \cup {r} /\ Claims(t) \cup {r} = Claims(t)
      BY <1>1, <2>1, ClaimsMove
    <3>2. \A t \in Table : t # u => Claims(t)' = Claims(t) \ {r} /\ Claims(t) \ {r} = Claims(t)
      BY <1>3, <2>1, ClaimsMove
    <3>3. QED
      BY <3>1, <3>2
  <2>3. \A t \in Table : Searches(t)' = Searches(t)
    BY <1>4 DEF Searches
  <2>4. QED
    BY <1>2, <2>2, <2>3, OneDiscoveryStays
<1>5. ASSUME Moves(r, GoneTo(frame[r], "Next")), NEW w \in Worker,
             discovery[w].pc = "Unborn",
             discovery' = [discovery EXCEPT ![w].pc = "Describe", ![w].table = frame[r].table]
      PROVE  OneDiscoveryPerTable'
  <2>1. GoneTo(frame[r], "Next").pc = "Next"
    BY <1>1, JumpFields
  <2>2. \A t \in Table : Claims(t)' = Claims(t) \ {r}
    BY <1>5, <2>1, ClaimsMove
  <2>3. \A t \in Table : w \notin Searches(t)
    BY <1>5 DEF Searches
  <2>4. \A t \in Table : Searches(t)' = IF t = u THEN Searches(t) \cup {w} ELSE Searches(t)
    <3>1. /\ discovery' \in [Worker -> Discovery]
          /\ discovery'[w].pc = "Describe" /\ discovery'[w].table = u
          /\ \A v \in Worker : v # w => discovery'[v] = discovery[v]
      BY <1>5, SpawnEffect
    <3>2. \A t \in Table : t # u => Searches(t)' = Searches(t) \ {w}
                                 /\ Searches(t) \ {w} = Searches(t)
      BY <2>3, <3>1, SearchesMove
    <3>3. QED
      BY <3>1, <3>2, SearchesMove
  <2>5. Claims(u) = {r} /\ Searches(u) = {} /\ u \in in_progress
    BY <1>1 DEF OneDiscoveryPerTable
  <2>6. QED
    BY <1>1, <1>2, <1>3, <2>2, <2>4, <2>5 DEF OneDiscoveryPerTable
<1>6. QED
  BY <1>4, <1>5, TriggerEffect

(* A claim that came to nothing is given up, with its table.               *)
LEMMA UnclaimKeepsOneDiscovery ==
    ASSUME TypeOK, OneDiscoveryPerTable, NEW r \in Requester, TriggerUnclaim(r)
    PROVE  OneDiscoveryPerTable'
<1> DEFINE u == frame[r].table
<1>1. frame[r] \in Frame /\ u \in Table /\ r \in Claims(u)
  BY DEF TypeOK, Frame, TriggerUnclaim, At, Claims
<1>2. in_progress' = in_progress \ {u} /\ discovery' = discovery
  BY DEF TriggerUnclaim
<1>3. \A t \in Table : t # u => r \notin Claims(t)
  BY DEF Claims
<1>4. \A t \in Table : Searches(t)' = Searches(t)
  BY <1>2 DEF Searches
<1>5. GoneTo(frame[r], "Next").pc = "Next"
  BY <1>1, JumpFields
<1>6. \A t \in Table : Claims(t)' = Claims(t) \ {r}
  BY <1>5, TriggerEffect, ClaimsMove
<1>7. Claims(u) = {r} /\ Searches(u) = {}
  BY <1>1 DEF OneDiscoveryPerTable
<1>8. QED
  BY <1>1, <1>2, <1>3, <1>4, <1>6, <1>7 DEF OneDiscoveryPerTable

(* A thread keeps its table until it erases it.                            *)
LEMMA DiscoverKeepsOneDiscovery ==
    ASSUME TypeOK, OneDiscoveryPerTable, NEW w \in Worker, Discover(w)
    PROVE  OneDiscoveryPerTable'
<1> DEFINE u == discovery[w].table
<1>1. discovery[w] \in Discovery /\ u \in Table /\ w \in Searches(u)
  BY DEF TypeOK, Discovery, Discover, Describe, Store, Erase, Searches
<1>2. \A t \in Table : Claims(t)' = Claims(t)
  BY OthersMoveNothing DEF Claims
<1>3. \A t \in Table : t # u => w \notin Searches(t)
  BY DEF Searches
<1>4. ASSUME NEW d \in Discovery, discovery' = [discovery EXCEPT ![w] = d],
             d.pc \in {"Describe", "Store", "Erase"}, d.table = u, in_progress' = in_progress
      PROVE  OneDiscoveryPerTable'
  <2>1. \A t \in Table : Searches(t)' = Searches(t)
    <3>1. /\ discovery' \in [Worker -> Discovery] /\ discovery'[w] = d
          /\ \A v \in Worker : v # w => discovery'[v] = discovery[v]
      BY <1>4 DEF TypeOK
    <3>2. \A t \in Table : t = u => Searches(t)' = Searches(t) \cup {w}
                                 /\ Searches(t) \cup {w} = Searches(t)
      BY <1>1, <1>4, <3>1, SearchesMove
    <3>3. \A t \in Table : t # u => Searches(t)' = Searches(t) \ {w}
                                 /\ Searches(t) \ {w} = Searches(t)
      BY <1>3, <1>4, <3>1, SearchesMove
    <3>4. QED
      BY <3>2, <3>3
  <2>2. QED
    BY <1>2, <1>4, <2>1, OneDiscoveryStays
<1>5. CASE Describe(w)
  BY <1>4, <1>5, DescribeEffect DEF Describe
<1>6. CASE Store(w)
  <2> DEFINE d == [discovery[w] EXCEPT !.pc = "Erase"]
  <2>1. d \in Discovery /\ d.pc = "Erase" /\ d.table = u
    BY <1>1 DEF Discovery
  <2>2. discovery' = [discovery EXCEPT ![w] = d] /\ in_progress' = in_progress
    BY <1>6 DEF TypeOK, Store
  <2>3. QED
    BY <1>4, <2>1, <2>2
<1>7. CASE Erase(w)
  <2> DEFINE d == [Unborn EXCEPT !.pc = "Exited"]
  <2>1. d \in Discovery /\ d.pc = "Exited"
    BY IdleFrameType DEF Discovery
  <2>2. discovery' = [discovery EXCEPT ![w] = d] /\ in_progress' = in_progress \ {u}
    BY <1>7 DEF Erase
  <2>3. \A t \in Table : Searches(t)' = Searches(t) \ {w}
    BY <2>1, <2>2, SearchesMove DEF TypeOK
  <2>4. Searches(u) = {w} /\ Claims(u) = {}
    BY <1>1 DEF OneDiscoveryPerTable
  <2>5. QED
    BY <1>1, <1>2, <1>3, <2>2, <2>3, <2>4 DEF OneDiscoveryPerTable
<1>8. QED
  BY <1>5, <1>6, <1>7 DEF Discover

(* The application's names and the destructor have no part in it.          *)
LEMMA HelperKeepsOneDiscovery ==
    ASSUME TypeOK, OneDiscoveryPerTable, SetPartitionKeyName \/ Destruct
    PROVE  OneDiscoveryPerTable'
<1>1. \A t \in Table : Claims(t)' = Claims(t)
  BY OthersMoveNothing DEF Claims
<1>2. in_progress' = in_progress
  BY DEF SetPartitionKeyName, Destruct, DestructorSwap, DestructorJoin, DestructorStop, discoveries
<1>3. \A t \in Table : Searches(t)' = Searches(t)
  <2>1. CASE discovery' = discovery
    BY <2>1 DEF Searches
  <2>2. ASSUME NEW w \in Worker, DestructorJoin(w), NEW t \in Table
        PROVE  Searches(t)' = Searches(t)
    <3>1. /\ discovery' \in [Worker -> Discovery] /\ discovery'[w].pc = "Joined"
          /\ \A v \in Worker : v # w => discovery'[v] = discovery[v]
      BY <2>2 DEF TypeOK, DestructorJoin, Discovery
    <3>2. w \notin Searches(t)
      BY <2>2 DEF DestructorJoin, Searches
    <3>3. QED
      BY <3>1, <3>2, SearchesMove
  <2>3. QED
    BY <2>1, <2>2 DEF SetPartitionKeyName, Destruct, DestructorSwap, DestructorStop, discoveries
<1>4. QED
  BY <1>1, <1>2, <1>3, OneDiscoveryStays

(* No two discoveries of a table overlap, and none is claimed by nobody,   *)
(* whatever the order of checks, claims, failures and results of any       *)
(* number of writers and threads (TriggerPartitionKeyDiscovery).           *)
THEOREM OneDiscoveryHolds == Spec => []OneDiscoveryPerTable
<1>1. Init => OneDiscoveryPerTable
  BY IdleFrameType DEF Init, OneDiscoveryPerTable, Claims, Searches, Unborn
<1>2. ASSUME TypeOK, OneDiscoveryPerTable, Next
      PROVE  OneDiscoveryPerTable'
  BY <1>2, QuietWritesKeepOneDiscovery, ClaimKeepsOneDiscovery, SpawnKeepsOneDiscovery,
     UnclaimKeepsOneDiscovery, DiscoverKeepsOneDiscovery, HelperKeepsOneDiscovery
     DEF Next, Write
<1>3. ASSUME OneDiscoveryPerTable, UNCHANGED vars
      PROVE  OneDiscoveryPerTable'
  BY <1>3 DEF vars, discoveries, OneDiscoveryPerTable, Claims, Searches
<1>4. QED
  BY <1>1, <1>2, <1>3, TypeCorrect, PTL DEF Spec

-----------------------------------------------------------------------------
(* The destructor.                                                         *)

(* What the destructor relies on: every thread that is not done is among   *)
(* the workers to join, and from the moment it takes them no write can add *)
(* one.                                                                    *)
ThreadsAreKept ==
    /\ \A w \in Worker : discovery[w].pc \notin {"Unborn", "Joined"} => w \in workers
    /\ helper # "Alive" => \A r \in Requester : At(r, "Idle")
    /\ helper = "Stopped" => workers = {}

(* A step of a write keeps its thread, and none is taken after the end.    *)
LEMMA WriteKeepsThreads ==
    ASSUME TypeOK, ThreadsAreKept, NEW r \in Requester, BeginWrite(r) \/ Write(r)
    PROVE  ThreadsAreKept'
<1>1. helper = "Alive" /\ helper' = "Alive"
  <2>1. CASE BeginWrite(r)
    BY <2>1 DEF BeginWrite
  <2>2. CASE Write(r)
    BY <2>2, WriteMoves DEF Write, ReadName, RecheckName, NextMissing, TriggerCheck, TriggerClaim,
           TriggerSpawn, TriggerUnclaim, HashKey, Return, At, ThreadsAreKept
  <2>3. QED
    BY <2>1, <2>2, WriteMoves
<1>2. CASE ~TriggerSpawn(r)
  BY <1>1, <1>2, WriteMoves DEF ThreadsAreKept
<1>3. CASE TriggerSpawn(r) /\ UNCHANGED <<workers, discovery>>
  BY <1>1, <1>3 DEF ThreadsAreKept
<1>4. ASSUME NEW w \in Worker, workers' = workers \cup {w},
             discovery' = [discovery EXCEPT ![w].pc = "Describe", ![w].table = frame[r].table]
      PROVE  ThreadsAreKept'
  BY <1>1, <1>4, SpawnEffect DEF ThreadsAreKept
<1>5. QED
  BY <1>2, <1>3, <1>4, TriggerEffect

(* No thread outlives the helper, however many there are and however far   *)
(* they are when WaitForPartitionKeyDiscovery takes them.                  *)
THEOREM NoThreadOutlives == Spec => []NoThreadOutlivesHelper
<1>1. Init => ThreadsAreKept
  BY DEF Init, ThreadsAreKept, Unborn
<1>2. ASSUME TypeOK, ThreadsAreKept, Next
      PROVE  ThreadsAreKept'
  <2>1. ASSUME NEW r \in Requester, BeginWrite(r) \/ Write(r)
        PROVE  ThreadsAreKept'
    BY <1>2, <2>1, WriteKeepsThreads
  <2>2. ASSUME NEW w \in Worker, Discover(w)
        PROVE  ThreadsAreKept'
    <3>1. w \in workers /\ workers' = workers /\ frame' = frame /\ helper' = helper
      BY <1>2, <2>2 DEF ThreadsAreKept, Discover, Describe, Store, Erase
    <3>2. \A v \in Worker : v # w => discovery'[v] = discovery[v]
      <4>1. CASE Describe(w)
        BY <1>2, <4>1, DescribeEffect DEF TypeOK
      <4>2. CASE Store(w) \/ Erase(w)
        BY <1>2, <4>2 DEF TypeOK, Store, Erase
      <4>3. QED
        BY <2>2, <4>1, <4>2 DEF Discover
    <3>3. QED
      BY <1>2, <3>1, <3>2 DEF ThreadsAreKept, At
  <2>3. CASE SetPartitionKeyName
    BY <1>2, <2>3 DEF SetPartitionKeyName, discoveries, ThreadsAreKept, At
  <2>4. CASE DestructorSwap
    BY <1>2, <2>4 DEF DestructorSwap, discoveries, ThreadsAreKept, At
  <2>5. ASSUME NEW w \in Worker, DestructorJoin(w)
        PROVE  ThreadsAreKept'
    <3>1. /\ discovery'[w].pc = "Joined"
          /\ \A v \in Worker : v # w => discovery'[v] = discovery[v]
      BY <1>2, <2>5 DEF TypeOK, DestructorJoin, Discovery
    <3>2. QED
      BY <1>2, <2>5, <3>1 DEF DestructorJoin, ThreadsAreKept, At
  <2>6. CASE DestructorStop
    BY <1>2, <2>6 DEF DestructorStop, discoveries, ThreadsAreKept, At
  <2>7. QED
    BY <1>2, <2>1, <2>2, <2>3, <2>4, <2>5, <2>6 DEF Next, Destruct
<1>3. ASSUME ThreadsAreKept, UNCHANGED vars
      PROVE  ThreadsAreKept'
  BY <1>3 DEF vars, discoveries, ThreadsAreKept, At
<1>4. ThreadsAreKept => NoThreadOutlivesHelper
  BY DEF ThreadsAreKept, NoThreadOutlivesHelper
<1>5. QED
  BY <1>1, <1>2, <1>3, <1>4, TypeCorrect, PTL DEF Spec

-----------------------------------------------------------------------------
(* What a write has done so far.                                           *)

(* The missing tables that a write with the frame f has seen to, given     *)
(* what happened since (v): all of those the loop has visited, but for the *)
(* one it is about to check or to claim; and in the end all of them.       *)
SeesToMisses(f, v) ==
    /\ v.served \subseteq f.missing
    /\ f.pc = "Read" => f.missing = {}
    /\ f.pc = "Recheck" => f.missing \subseteq Operations(f)
    /\ f.pc \in {"Next", "Spawn", "Unclaim"} => f.todo \subseteq v.served
    /\ f.pc \in {"Check", "Claim"} => f.todo \ {f.table} \subseteq v.served
    /\ f.pc \in {"Check", "Claim", "Spawn", "Unclaim"} => f.table \in f.missing
    /\ f.pc \in {"Hash", "Return"} => f.missing \subseteq v.served

(* What a write with the frame f knows of the tables whose names n have    *)
(* not changed since it began: their keys are the ones it has read, the    *)
(* missing ones have no name still, and a default plan means that none has *)
(* its key among the attributes.                                           *)
KnowsKeys(f, v, n) ==
    /\ f.missing \subseteq f.tables
    /\ ~f.batch => \E t \in Table : f.tables = {t}
    /\ f.pc = "Read" => f.missing = {}
    /\ f.pc # "Return" =>
         \A t \in f.tables \ v.changed : f.key[t] = n[t] \/ (f.pc = "Read" /\ t \in f.todo)
    /\ \A t \in f.missing \ v.changed : n[t] = NoName
    /\ f.pc = "Return" /\ f.plan # "Affinity" =>
         \A t \in f.tables \ v.changed : n[t] \notin f.item

MissesAreSeenTo == \A r \in Requester : SeesToMisses(frame[r], witnessed[r])

KeysAreKnown ==
    \A r \in Requester : At(r, "Idle") \/ KnowsKeys(frame[r], witnessed[r], names)

(* What the ghost keeps and adds in a step.                                *)
LEMMA Witnessed ==
    ASSUME TypeOK, NEW failed, Witnessing(failed), frame' \in [Requester -> Frame],
           NEW q \in Requester
    PROVE  /\ witnessed'[q].served \subseteq frame'[q].missing
           /\ frame'[q].pc # "Idle" =>
                /\ \A t \in frame'[q].missing :
                      \/ t \in witnessed[q].served \/ t \in failed
                      \/ t \in in_progress' \/ names'[t] # NoName
                      => t \in witnessed'[q].served
                /\ \A t \in frame'[q].tables \ witnessed'[q].changed :
                      t \notin witnessed[q].changed /\ names'[t] = names[t]
<1>1. CASE frame'[q].pc = "Idle"
  <2>1. witnessed'[q] = NoWitness
    BY <1>1 DEF Witnessing
  <2>2. QED
    BY <1>1, <2>1 DEF NoWitness
<1>2. CASE frame'[q].pc # "Idle"
  <2>1. witnessed'[q] = [served |-> {t \in frame'[q].missing :
                            \/ t \in witnessed[q].served \cup failed \cup in_progress'
                            \/ names'[t] # NoName},
              changed |-> {t \in frame'[q].tables :
                            t \in witnessed[q].changed \/ names'[t] # names[t]}]
    BY <1>2 DEF Witnessing
  <2>2. QED
    BY <2>1
<1>3. QED
  BY <1>1, <1>2

(* A write that does not move loses nothing, whatever the others do.       *)
LEMMA StandsStill ==
    ASSUME TypeOK, NEW failed, Witnessing(failed), frame' \in [Requester -> Frame],
           NEW q \in Requester, frame'[q] = frame[q]
    PROVE  /\ SeesToMisses(frame[q], witnessed[q]) => SeesToMisses(frame'[q], witnessed'[q])
           /\ frame[q].pc # "Idle" /\ KnowsKeys(frame[q], witnessed[q], names)
                => KnowsKeys(frame'[q], witnessed'[q], names')
<1>1. CASE frame[q].pc = "Idle"
  BY <1>1, Witnessed DEF SeesToMisses
<1>2. ASSUME frame[q].pc # "Idle", SeesToMisses(frame[q], witnessed[q])
      PROVE  SeesToMisses(frame'[q], witnessed'[q])
  <2>1. witnessed[q].served \subseteq witnessed'[q].served
    BY <1>2, Witnessed DEF SeesToMisses
  <2>2. QED
    BY <1>2, <2>1, Witnessed DEF SeesToMisses
<1>3. ASSUME frame[q].pc # "Idle", KnowsKeys(frame[q], witnessed[q], names)
      PROVE  KnowsKeys(frame'[q], witnessed'[q], names')
  <2>1. \A t \in frame[q].tables \ witnessed'[q].changed :
            t \notin witnessed[q].changed /\ names'[t] = names[t]
    BY <1>3, Witnessed
  <2>2. QED
    BY <1>3, <2>1 DEF KnowsKeys
<1>4. QED
  BY <1>1, <1>2, <1>3

(* Each step of a write sees to the missing tables it has to.              *)
LEMMA WriteSeesToMisses ==
    ASSUME TypeOK, NEW r \in Requester, SeesToMisses(frame[r], witnessed[r]),
           BeginWrite(r) \/ Write(r)
    PROVE  SeesToMisses(frame'[r], witnessed'[r])
<1> DEFINE f == frame[r]
           g == frame'[r]
           v == witnessed[r]
           w == witnessed'[r]
<1>1. f \in Frame /\ g \in Frame /\ frame' \in [Requester -> Frame]
  BY WriteMoves, MovesOne DEF TypeOK
<1>2. w.served \subseteq g.missing
  BY <1>1, WriteMoves, Witnessed
<1>3. ASSUME g.pc # "Idle", NEW t \in g.missing, t \in v.served \/ names[t] # NoName
      PROVE  t \in w.served
  BY <1>1, <1>3, WriteMoves, Witnessed
<1>4. CASE BeginWrite(r)
  <2>1. g.pc = "Read" /\ g.missing = {}
    BY <1>4, BeginWriteFields
  <2>2. QED
    BY <1>2, <2>1 DEF SeesToMisses
<1>5. CASE ReadName(r)
  <2>1. g.pc \in {"Read", "Recheck"} /\ g.missing = f.missing
    BY <1>5, ReadNameFields
  <2>2. f.missing = {}
    BY <1>5 DEF ReadName, At, SeesToMisses
  <2>3. QED
    BY <1>2, <2>1, <2>2 DEF SeesToMisses
<1>6. CASE RecheckName(r)
  <2>1. f.missing \subseteq Operations(f)
    BY <1>6 DEF RecheckName, At, SeesToMisses
  <2>2. CASE Operations(f) = {} /\ Goes(f, g) /\ g.pc = "Return"
    BY <1>2, <2>1, <2>2 DEF SeesToMisses, Goes
  <2>3. ASSUME NEW t \in f.todo \cap Operations(f),
               /\ g.tables = f.tables /\ g.batch = f.batch /\ g.item = f.item /\ g.key = f.key
               /\ g.missing = IF names[t] = NoName THEN f.missing \cup {t} ELSE f.missing
               /\ \/ g.todo = {} /\ g.pc = "Next"
                  \/ g.pc = "Recheck"
        PROVE  SeesToMisses(g, w)
    <3>1. Operations(g) = Operations(f)
      BY <2>3 DEF Operations
    <3>2. QED
      BY <1>2, <2>1, <2>3, <3>1 DEF SeesToMisses
  <2>4. QED
    BY <1>6, <2>2, <2>3, RecheckNameFields
<1>7. CASE NextMissing(r)
  <2>1. f.todo \subseteq v.served /\ v.served \subseteq f.missing
    BY <1>7 DEF NextMissing, At, SeesToMisses
  <2>2. ASSUME NEW t \in f.missing \ f.todo,
               Moves(r, Visited(f, t))
        PROVE  SeesToMisses(g, w)
    <3>1. g.missing = f.missing /\ g.todo = f.todo \cup {t} /\ g.table = t /\ g.pc = "Check"
      BY <1>1, <2>2, MovesOne, VisitFields DEF Goes
    <3>2. QED
      BY <1>2, <1>3, <2>1, <2>2, <3>1 DEF SeesToMisses
  <2>3. ASSUME f.missing \subseteq f.todo,
               \/ Moves(r, Planned(f, "Default"))
               \/ Moves(r, GoneTo(f, "Hash"))
        PROVE  SeesToMisses(g, w)
    <3>1. g.missing = f.missing /\ g.pc \in {"Return", "Hash"}
      BY <1>1, <2>3, MovesOne, PlanFields, JumpFields DEF Goes
    <3>2. QED
      BY <1>2, <1>3, <2>1, <2>3, <3>1 DEF SeesToMisses
  <2>4. QED
    BY <1>7, <2>2, <2>3, NextMissingEffect
<1>8. CASE TriggerCheck(r)
  <2>1. f.todo \ {f.table} \subseteq v.served /\ f.table \in f.missing /\ v.served \subseteq f.missing
    BY <1>8 DEF TriggerCheck, At, SeesToMisses
  <2>2. /\ g.missing = f.missing /\ g.todo = f.todo /\ g.table = f.table
        /\ \/ g.pc = "Next" /\ names[f.table] # NoName
           \/ g.pc = "Claim"
    BY <1>1, <1>8, TriggerEffect, MovesOne, JumpFields DEF Goes
  <2>3. QED
    BY <1>2, <1>3, <2>1, <2>2 DEF SeesToMisses
<1>9. CASE TriggerClaim(r)
  <2>1. f.todo \ {f.table} \subseteq v.served /\ f.table \in f.missing /\ v.served \subseteq f.missing
    BY <1>9 DEF TriggerClaim, At, SeesToMisses
  <2>2. g.missing = f.missing /\ g.todo = f.todo /\ g.table = f.table /\ g.pc \in {"Next", "Spawn"}
    BY <1>1, <1>9, TriggerEffect, MovesOne, JumpFields DEF Goes
  <2>3. f.table \in in_progress'
    BY <1>9 DEF TriggerClaim
  <2>4. f.table \in w.served
    BY <1>1, <2>1, <2>2, <2>3, WriteMoves, Witnessed
  <2>5. QED
    BY <1>2, <1>3, <2>1, <2>2, <2>4 DEF SeesToMisses
<1>10. CASE TriggerSpawn(r)
  <2>1. f.todo \subseteq v.served /\ f.table \in f.missing /\ v.served \subseteq f.missing
    BY <1>10 DEF TriggerSpawn, At, SeesToMisses
  <2>2. g.missing = f.missing /\ g.todo = f.todo /\ g.table = f.table /\ g.pc \in {"Next", "Unclaim"}
    BY <1>1, <1>10, TriggerEffect, MovesOne, JumpFields DEF Goes
  <2>3. QED
    BY <1>2, <1>3, <2>1, <2>2 DEF SeesToMisses
<1>11. CASE TriggerUnclaim(r)
  <2>1. f.todo \subseteq v.served /\ f.table \in f.missing /\ v.served \subseteq f.missing
    BY <1>11 DEF TriggerUnclaim, At, SeesToMisses
  <2>2. g.missing = f.missing /\ g.todo = f.todo /\ g.pc = "Next"
    BY <1>1, <1>11, TriggerEffect, MovesOne, JumpFields DEF Goes
  <2>3. QED
    BY <1>2, <1>3, <2>1, <2>2 DEF SeesToMisses
<1>12. CASE HashKey(r)
  <2>1. f.missing \subseteq v.served
    BY <1>12 DEF HashKey, At, SeesToMisses
  <2>2. g.missing = f.missing /\ g.pc = "Return"
    BY <1>1, <1>12, HashKeyEffect, MovesOne, PlanFields DEF Goes
  <2>3. QED
    BY <1>2, <1>3, <2>1, <2>2 DEF SeesToMisses
<1>13. CASE Return(r)
  <2>1. g.pc = "Idle"
    BY <1>1, <1>13, IdleFrameType DEF Return, TypeOK
  <2>2. QED
    BY <1>2, <2>1 DEF SeesToMisses
<1>14. QED
  BY <1>4, <1>5, <1>6, <1>7, <1>8, <1>9, <1>10, <1>11, <1>12, <1>13 DEF Write

(* No write returns with a missing name that nothing was done about, for   *)
(* any number of tables in a batch and any interleaving of the writers     *)
(* (TriggerPartitionKeyDiscoveryForMissingMetadata).                       *)
THEOREM MissesServed == Spec => []MissesAreServed
<1>1. Init => MissesAreSeenTo
  BY IdleFrameType DEF Init, MissesAreSeenTo, SeesToMisses, NoWitness
<1>2. ASSUME TypeOK, MissesAreSeenTo, Next
      PROVE  MissesAreSeenTo'
  <2>1. SUFFICES ASSUME NEW q \in Requester
                 PROVE  SeesToMisses(frame'[q], witnessed'[q])
    BY DEF MissesAreSeenTo
  <2>2. SeesToMisses(frame[q], witnessed[q])
    BY <1>2 DEF MissesAreSeenTo
  <2>3. ASSUME NEW r \in Requester, BeginWrite(r) \/ Write(r)
        PROVE  SeesToMisses(frame'[q], witnessed'[q])
    <3>1. CASE q = r
      BY <1>2, <2>2, <2>3, <3>1, WriteSeesToMisses
    <3>2. CASE q # r
      BY <1>2, <2>2, <2>3, <3>2, WriteMoves, MovesOne, StandsStill
    <3>3. QED
      BY <3>1, <3>2
  <2>4. CASE (\E w \in Worker : Discover(w)) \/ SetPartitionKeyName \/ Destruct
    <3>1. frame' = frame /\ Witnessing({}) /\ frame' \in [Requester -> Frame]
      BY <1>2, <2>4, OthersMoveNothing DEF TypeOK
    <3>2. QED
      BY <1>2, <2>2, <3>1, StandsStill
  <2>5. QED
    BY <1>2, <2>3, <2>4 DEF Next
<1>3. ASSUME MissesAreSeenTo, UNCHANGED vars
      PROVE  MissesAreSeenTo'
  BY <1>3 DEF vars, MissesAreSeenTo, SeesToMisses, Operations
<1>4. MissesAreSeenTo => MissesAreServed
  BY DEF MissesAreSeenTo, SeesToMisses, MissesAreServed, At
<1>5. QED
  BY <1>1, <1>2, <1>3, <1>4, TypeCorrect, PTL DEF Spec

-----------------------------------------------------------------------------
(* Known keys are used.                                                    *)

(* Each step of a write keeps what it knows of the keys.                   *)
LEMMA WriteKnowsKeys ==
    ASSUME TypeOK, NEW r \in Requester, BeginWrite(r) \/ Write(r),
           frame[r].pc = "Idle" \/ KnowsKeys(frame[r], witnessed[r], names)
    PROVE  frame'[r].pc = "Idle" \/ KnowsKeys(frame'[r], witnessed'[r], names')
<1> DEFINE f == frame[r]
           g == frame'[r]
           v == witnessed[r]
           w == witnessed'[r]
<1>1. f \in Frame /\ g \in Frame /\ frame' \in [Requester -> Frame] /\ names' = names
  BY WriteMoves, MovesOne DEF TypeOK
<1>2. ASSUME g.pc # "Idle"
      PROVE  \A t \in g.tables \ w.changed : t \notin v.changed
  BY <1>1, <1>2, WriteMoves, Witnessed
<1>3. NoName \notin f.item /\ f.key \in [Table -> Name \cup {NoName}] /\ f.tables \subseteq Table
  BY <1>1, PartitionKeysAssumption DEF Frame
<1>4. CASE BeginWrite(r)
  <2>1. /\ g.pc = "Read" /\ g.missing = {} /\ g.todo = g.tables
        /\ ~g.batch => \E t \in Table : g.tables = {t}
    BY <1>4, BeginWriteFields
  <2>2. QED
    BY <2>1 DEF KnowsKeys
<1>5. ASSUME KnowsKeys(f, v, names), Goes(f, g), g.pc \notin {"Read", "Idle", "Return"},
             f.pc \notin {"Read", "Idle", "Return"}
      PROVE  KnowsKeys(g, w, names')
  BY <1>1, <1>2, <1>5 DEF KnowsKeys, Goes
<1>6. ASSUME KnowsKeys(f, v, names), Goes(f, g), g.pc = "Return",
             \A t \in f.tables \ v.changed : names[t] \notin f.item \/ g.plan = "Affinity"
      PROVE  KnowsKeys(g, w, names')
  BY <1>1, <1>2, <1>6 DEF KnowsKeys, Goes
<1>7. CASE ReadName(r) /\ KnowsKeys(f, v, names)
  <2>1. f.pc = "Read"
    BY <1>7 DEF ReadName, At
  <2>2. PICK t \in f.todo :
          /\ g.tables = f.tables /\ g.batch = f.batch /\ g.item = f.item /\ g.missing = f.missing
          /\ g.key = [f.key EXCEPT ![t] = names[t]]
          /\ \/ f.todo = {t} /\ g.pc = "Recheck"
             \/ g.todo = f.todo \ {t} /\ g.pc = "Read"
    BY <1>7, ReadNameFields
  <2>3. \A u \in g.tables \ w.changed : g.key[u] = names'[u] \/ (g.pc = "Read" /\ u \in g.todo)
    <3>1. SUFFICES ASSUME NEW u \in g.tables \ w.changed
                   PROVE  g.key[u] = names'[u] \/ (g.pc = "Read" /\ u \in g.todo)
      OBVIOUS
    <3>2. u \in f.tables \ v.changed /\ u \in Table
      BY <1>2, <1>3, <2>2
    <3>3. f.key[u] = names[u] \/ u \in f.todo
      BY <1>7, <2>1, <3>2 DEF KnowsKeys
    <3>4. CASE u = t
      BY <1>1, <1>3, <2>2, <3>2, <3>4
    <3>5. CASE u # t
      BY <1>1, <1>3, <2>2, <3>2, <3>3, <3>5
    <3>6. QED
      BY <3>4, <3>5
  <2>4. QED
    BY <1>7, <2>1, <2>2, <2>3 DEF KnowsKeys
<1>8. CASE RecheckName(r) /\ KnowsKeys(f, v, names)
  <2>1. f.pc = "Recheck"
    BY <1>8 DEF RecheckName, At
  <2>2. CASE Operations(f) = {} /\ Goes(f, g) /\ g.pc = "Return" /\ g.plan = "Default"
    <3>1. \A t \in f.tables : f.batch /\ f.key[t] \notin f.item
      BY <2>2 DEF Operations
    <3>2. \A t \in f.tables \ v.changed : names[t] \notin f.item
      BY <1>8, <2>1, <3>1 DEF KnowsKeys
    <3>3. QED
      BY <1>6, <1>8, <2>2, <3>2
  <2>3. ASSUME NEW t \in f.todo \cap Operations(f),
               /\ g.tables = f.tables /\ g.batch = f.batch /\ g.item = f.item /\ g.key = f.key
               /\ g.missing = IF names[t] = NoName THEN f.missing \cup {t} ELSE f.missing
               /\ \/ g.todo = {} /\ g.pc = "Next"
                  \/ g.pc = "Recheck"
        PROVE  KnowsKeys(g, w, names')
    <3>1. t \in f.tables
      BY DEF Operations
    <3>2. g.missing \subseteq g.tables /\ \A u \in g.missing : u \in f.missing \/ names[u] = NoName
      BY <1>8, <2>3, <3>1 DEF KnowsKeys
    <3>3. QED
      BY <1>1, <1>2, <1>8, <2>1, <2>3, <3>2 DEF KnowsKeys
  <2>4. QED
    BY <1>8, <2>2, <2>3, RecheckNameFields
<1>9. CASE NextMissing(r) /\ KnowsKeys(f, v, names)
  <2>1. f.pc = "Next"
    BY <1>9 DEF NextMissing, At
  <2>2. CASE f.missing # {} /\ ~f.batch /\ Moves(r, Planned(f, "Default"))
    <3>1. Goes(f, g) /\ g.pc = "Return"
      BY <1>1, <2>2, MovesOne, PlanFields
    <3>2. f.missing = f.tables
      BY <1>9, <2>2 DEF KnowsKeys
    <3>3. \A t \in f.tables \ v.changed : names[t] \notin f.item
      BY <1>3, <1>9, <3>2 DEF KnowsKeys
    <3>4. QED
      BY <1>6, <1>9, <3>1, <3>3
  <2>3. CASE Moves(r, GoneTo(f, "Hash")) \/ \E t : Moves(r, Visited(f, t))
    <3>1. Goes(f, g) /\ g.pc \in {"Hash", "Check"}
      BY <1>1, <2>3, MovesOne, JumpFields, VisitFields
    <3>2. QED
      BY <1>5, <1>9, <2>1, <3>1
  <2>4. QED
    BY <1>9, <2>2, <2>3, NextMissingEffect
<1>10. CASE /\ TriggerCheck(r) \/ TriggerClaim(r) \/ TriggerSpawn(r) \/ TriggerUnclaim(r)
            /\ KnowsKeys(f, v, names)
  <2>1. f.pc \in {"Check", "Claim", "Spawn", "Unclaim"}
    BY <1>10 DEF TriggerCheck, TriggerClaim, TriggerSpawn, TriggerUnclaim, At
  <2>2. Goes(f, g) /\ g.pc \in {"Next", "Claim", "Spawn", "Unclaim"}
    BY <1>1, <1>10, TriggerEffect, MovesOne, JumpFields
  <2>3. QED
    BY <1>5, <1>10, <2>1, <2>2
<1>11. CASE HashKey(r) /\ KnowsKeys(f, v, names)
  <2>1. f.pc = "Hash"
    BY <1>11 DEF HashKey, At
  <2>2. Goes(f, g) /\ g.pc = "Return"
    BY <1>1, <1>11, HashKeyEffect, MovesOne, PlanFields
  <2>3. \/ g.plan = "Affinity"
        \/ \A t \in f.tables : f.key[t] \notin f.item \/ names[t] # f.key[t]
    BY <1>1, <1>11, HashKeyEffect, MovesOne, PlanFields
  <2>4. \A t \in f.tables \ v.changed : names[t] \notin f.item \/ g.plan = "Affinity"
    BY <1>11, <2>1, <2>3 DEF KnowsKeys
  <2>5. QED
    BY <1>6, <1>11, <2>2, <2>4
<1>12. CASE Return(r)
  BY <1>1, <1>12, IdleFrameType DEF Return, TypeOK
<1>13. CASE frame[r].pc = "Idle" /\ ~BeginWrite(r)
  BY <1>13 DEF Write, ReadName, RecheckName, NextMissing, TriggerCheck, TriggerClaim,
           TriggerSpawn, TriggerUnclaim, HashKey, Return, At
<1>14. QED
  BY <1>4, <1>7, <1>8, <1>9, <1>10, <1>11, <1>12, <1>13 DEF Write

(* A key that is known and unchanged throughout a write gives it affinity, *)
(* whatever becomes of the other tables and names, for any number of       *)
(* tables, writers and discoveries (NewPartitionKeyQueryPlan).             *)
THEOREM KnownKeysUsed == Spec => []KnownKeysAreUsed
<1>1. Init => KeysAreKnown
  BY IdleFrameType DEF Init, KeysAreKnown, At
<1>2. ASSUME TypeOK, KeysAreKnown, Next
      PROVE  KeysAreKnown'
  <2>1. SUFFICES ASSUME NEW q \in Requester
                 PROVE  frame'[q].pc = "Idle" \/ KnowsKeys(frame'[q], witnessed'[q], names')
    BY DEF KeysAreKnown, At
  <2>2. frame[q].pc = "Idle" \/ KnowsKeys(frame[q], witnessed[q], names)
    BY <1>2 DEF KeysAreKnown, At
  <2>3. ASSUME NEW r \in Requester, BeginWrite(r) \/ Write(r)
        PROVE  frame'[q].pc = "Idle" \/ KnowsKeys(frame'[q], witnessed'[q], names')
    <3>1. CASE q = r
      BY <1>2, <2>2, <2>3, <3>1, WriteKnowsKeys
    <3>2. CASE q # r
      BY <1>2, <2>2, <2>3, <3>2, WriteMoves, MovesOne, StandsStill
    <3>3. QED
      BY <3>1, <3>2
  <2>4. CASE (\E w \in Worker : Discover(w)) \/ SetPartitionKeyName \/ Destruct
    <3>1. frame' = frame /\ Witnessing({}) /\ frame' \in [Requester -> Frame]
      BY <1>2, <2>4, OthersMoveNothing DEF TypeOK
    <3>2. QED
      BY <1>2, <2>2, <3>1, StandsStill
  <2>5. QED
    BY <1>2, <2>3, <2>4 DEF Next
<1>3. ASSUME KeysAreKnown, UNCHANGED vars
      PROVE  KeysAreKnown'
  BY <1>3 DEF vars, KeysAreKnown, KnowsKeys, At
<1>4. KeysAreKnown => KnownKeysAreUsed
  BY DEF KeysAreKnown, KnowsKeys, KnownKeysAreUsed, At
<1>5. QED
  BY <1>1, <1>2, <1>3, <1>4, TypeCorrect, PTL DEF Spec
=============================================================================
