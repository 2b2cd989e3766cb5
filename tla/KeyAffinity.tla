---------------------------- MODULE KeyAffinity ----------------------------
(***************************************************************************)
(* Which writes are routed by their partition key, and in which order      *)
(* they ask the nodes: src/key_route_affinity.cpp and the translation of   *)
(* SDK requests in src/aws_dynamodb_helper.cpp.                            *)
(*                                                                         *)
(* A plan is made from two reads of the node registry, GetActiveNodes and  *)
(* then GetQueryPlanNodesForHash, with other threads' reports between      *)
(* them.  A source is what those reads return: source.active, the first    *)
(* list, source.for_hash[h], the later list for hash h (a sampled          *)
(* quarantined node, if any, in front of the nodes that are active then),  *)
(* and source.any, what GetQueryPlanNodes returns.  A hash is a number and *)
(* Draws(h) the random stream it seeds.                                    *)
(***************************************************************************)
EXTENDS QueryPlan

CONSTANT Draws(_)

ReturnValue == {"NotSet", "None", "AllOld", "UpdatedOld", "AllNew", "UpdatedNew"}

(***************************************************************************)
(* An AttributeValueUpdate of the SDK; the action may be left unset.       *)
(***************************************************************************)
SdkUpdate == [action : {"NotSet", "Put", "Add", "Delete"}, has_value : BOOLEAN]

ToAttributeAction(action) == IF action \in {"Add", "Delete"} THEN action ELSE "Put"

(***************************************************************************)
(* PutItemOptions, DeleteItemOptions and UpdateItemOptions: what of an SDK *)
(* request decides whether it reads before it writes.  The first two leave *)
(* the fields only UpdateItem has at their defaults.                       *)
(***************************************************************************)
WriteOptions(request) ==
    LET updates == request.kind = "UpdateItem"
    IN  [has_condition_expression |-> request.condition,
         has_expected |-> request.expected,
         return_values |-> request.return_values,
         has_update_expression |-> updates /\ request.update_expression,
         attribute_updates |->
            IF updates
            THEN [i \in DOMAIN request.updates |->
                    [action |-> ToAttributeAction(request.updates[i].action),
                     has_value |-> request.updates[i].has_value]]
            ELSE <<>>]

(***************************************************************************)
(* Mutant: an attribute update that adds to the old value is forgotten.    *)
(***************************************************************************)
DoesWriteNeedReadBeforeWriteNoAdd(kind, options) ==
    \/ options.has_expected
    \/ options.has_condition_expression
    \/ options.return_values = "AllOld"
    \/ /\ kind = "UpdateItem"
       /\ \/ options.has_update_expression
          \/ options.return_values \in {"UpdatedOld", "AllNew"}
          \/ \E i \in DOMAIN options.attribute_updates :
                LET update == options.attribute_updates[i]
                IN  update.action = "Delete" /\ update.has_value

DoesWriteNeedReadBeforeWrite(kind, options) ==
    \/ options.has_expected
    \/ options.has_condition_expression
    \/ options.return_values = "AllOld"
    \/ /\ kind = "UpdateItem"
       /\ \/ options.has_update_expression
          \/ options.return_values \in {"UpdatedOld", "AllNew"}
          \/ \E i \in DOMAIN options.attribute_updates :
                LET update == options.attribute_updates[i]
                IN  update.action = "Add" \/ (update.action = "Delete" /\ update.has_value)

ShouldUseKeyRouteAffinity(mode, kind, options) ==
    \/ mode = "AnyWrite"
    \/ mode = "ReadBeforeWrite" /\ DoesWriteNeedReadBeforeWrite(kind, options)

(***************************************************************************)
(* Batch writes follow the rule of a PutItem with default options.         *)
(***************************************************************************)
ShouldUseKeyRouteAffinityForBatch(mode) ==
    ShouldUseKeyRouteAffinity(mode, "PutItem",
        [has_condition_expression |-> FALSE, has_expected |-> FALSE,
         return_values |-> "NotSet", has_update_expression |-> FALSE,
         attribute_updates |-> <<>>])

-----------------------------------------------------------------------------
NodesMissingFrom(nodes, present) == AppendNodes(<<>>, nodes, present)

(***************************************************************************)
(* Mutant: the sampled node is put behind the nodes the key prefers.       *)
(***************************************************************************)
QueryPlanForPartitionKeySampledLast(source, seed) ==
    LET active == SortAndDedupeNodes(source.active)
    IN  IF source.active = <<>> THEN WithSortedSeed(source.for_hash[seed], Draws(seed))
        ELSE FromOrderedNodes(AppendMissing(DrainPlan(WithSortedSeed(active, Draws(seed))),
                                            source.for_hash[seed]))

(***************************************************************************)
(* QueryPlanForPartitionKey, for a key whose hash is seed: nodes of the    *)
(* later list that the earlier one lacks (a sampled node) come first, then *)
(* the active nodes in the order the seed draws.                           *)
(***************************************************************************)
QueryPlanForPartitionKey(source, seed) ==
    LET active == SortAndDedupeNodes(source.active)
        ordered == AppendMissing(NodesMissingFrom(source.for_hash[seed], active),
                                 DrainPlan(WithSortedSeed(active, Draws(seed))))
    IN  IF source.active = <<>> THEN WithSortedSeed(source.for_hash[seed], Draws(seed))
        ELSE FromOrderedNodes(ordered)

-----------------------------------------------------------------------------
(***************************************************************************)
(* A batch is a sequence of writes [first, second].  The name of a table's *)
(* partition key is looked up once for the hashes and once more for the    *)
(* votes; first and second are the hashes of the write's value under the   *)
(* name that is found, NoHash if there is no name or no such value.  The   *)
(* name may become known or be replaced in between.                        *)
(***************************************************************************)
NoHash == -1

BatchWriteHashes(writes) ==
    FoldLeft(LAMBDA hashes, w : IF w.first # NoHash THEN Append(hashes, w.first) ELSE hashes,
             <<>>, writes)

QueryPlanNodesForHashes(source, hashes) ==
    LET out == FoldLeft(LAMBDA acc, h : AppendMissing(acc, source.for_hash[h]), <<>>, hashes)
    IN  IF out = <<>> THEN source.any ELSE out

(***************************************************************************)
(* Mutant: equal keys vote once.                                           *)
(***************************************************************************)
VotesOfDistinctKeys(candidates, writes) ==
    [n \in ToSet(candidates) |->
        Cardinality({h \in {w.second : w \in ToSet(writes)} \ {NoHash} :
                        FirstNodeWithSeed(candidates, Draws(h)) = n})]

(***************************************************************************)
(* One vote per write with a key for the node it would go to alone.        *)
(***************************************************************************)
Votes(candidates, writes) ==
    [n \in ToSet(candidates) |->
        Cardinality({i \in DOMAIN writes :
                        /\ writes[i].second # NoHash
                        /\ FirstNodeWithSeed(candidates, Draws(writes[i].second)) = n})]

(***************************************************************************)
(* The nodes voted for, most votes first and equal ones by URL; the        *)
(* function throws when there are no candidates or no votes.               *)
(***************************************************************************)
SelectBatchWritePreferredNodes(candidates, writes) ==
    LET votes == Votes(candidates, writes)
        voted == {n \in ToSet(candidates) : votes[n] > 0}
    IN  [throws |-> voted = {},
         nodes |-> InOrder(voted, LAMBDA a, b :
                      votes[a] > votes[b] \/ (votes[a] = votes[b] /\ a < b))]

QueryPlanForBatchWrite(source, writes) ==
    LET planned == QueryPlanNodesForHashes(source, BatchWriteHashes(writes))
        active == SortAndDedupeNodes(source.active)
        candidates == IF source.active = <<>> THEN planned ELSE active
        preferred == SelectBatchWritePreferredNodes(candidates, writes)
    IN  [throws |-> preferred.throws,
         plan |->
            IF source.active = <<>> THEN WithPreferredNodes(candidates, preferred.nodes)
            ELSE FromOrderedNodes(
                    AppendMissing(AppendMissing(NodesMissingFrom(planned, active),
                                                preferred.nodes),
                                  active))]
=============================================================================
