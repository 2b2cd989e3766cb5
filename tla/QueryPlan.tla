----------------------------- MODULE QueryPlan -----------------------------
(***************************************************************************)
(* The order in which one operation asks nodes: class QueryPlan and the    *)
(* free functions of src/query_plan.cpp, as functions on values.           *)
(*                                                                         *)
(* A node is a positive number; the order of the numbers is the order      *)
(* operator< puts on URLs (that of their spelling), and 0 is the empty     *)
(* URL, which Next returns when nothing is left.  Of the generator of      *)
(* random numbers a plan sees only the values its calls of Int31n return:  *)
(* they are the plan's draws, a sequence the seed determines.              *)
(***************************************************************************)
EXTENDS Integers, Sequences, SequencesExt, FiniteSets

EmptyUrl == 0

Url == Nat \ {EmptyUrl}

(***************************************************************************)
(* go_rng_->Int31n(n) for a draw v of the stream.                          *)
(***************************************************************************)
DrawBelow(v, n) == v % n

Plan == [nodes : Seq(Url), draws : Seq(Nat), deterministic_order : BOOLEAN,
         sort_nodes : BOOLEAN, preferred_nodes : Seq(Nat), prepared : BOOLEAN]

(***************************************************************************)
(* A plan as the private constructor leaves it.                            *)
(***************************************************************************)
Constructed(nodes, draws, deterministic_order, sort_nodes, preferred_nodes) ==
    [nodes |-> nodes, draws |-> draws,
     deterministic_order |-> deterministic_order, sort_nodes |-> sort_nodes,
     preferred_nodes |-> preferred_nodes, prepared |-> FALSE]

(***************************************************************************)
(* Appends to out, one after the other, the nodes that are not empty, not  *)
(* present elsewhere and not yet in out.                                   *)
(***************************************************************************)
AppendNode(out, node, present) ==
    IF node = EmptyUrl \/ Contains(present, node) \/ Contains(out, node) THEN out
    ELSE Append(out, node)

AppendNodes(out, nodes, present) ==
    FoldLeft(LAMBDA acc, node : AppendNode(acc, node, present), out, nodes)

AppendMissing(out, nodes) == AppendNodes(out, nodes, <<>>)

DedupePreservingOrder(nodes) == AppendNodes(<<>>, nodes, <<>>)

(***************************************************************************)
(* std::sort: the elements of S one behind the other.                      *)
(***************************************************************************)
InOrder(S, Before(_, _)) ==
    CHOOSE s \in [1 .. Cardinality(S) -> S] :
        \A i, j \in 1 .. Cardinality(S) : i < j => Before(s[i], s[j])

SortNodes(nodes) ==
    LET order == InOrder(DOMAIN nodes, LAMBDA a, b :
                    nodes[a] < nodes[b] \/ (nodes[a] = nodes[b] /\ a < b))
    IN  [i \in DOMAIN nodes |-> nodes[order[i]]]

SortAndDedupeNodes(nodes) == InOrder(ToSet(nodes), LAMBDA a, b : a < b)

WithSeed(nodes, draws) == Constructed(nodes, draws, FALSE, FALSE, <<>>)

WithSortedSeed(nodes, draws) == Constructed(nodes, draws, FALSE, TRUE, <<>>)

WithPreferredNodes(nodes, preferred) == Constructed(nodes, <<>>, TRUE, TRUE, preferred)

FromOrderedNodes(nodes) == Constructed(DedupePreservingOrder(nodes), <<>>, TRUE, FALSE, <<>>)

Prepare(plan) ==
    [plan EXCEPT !.prepared = TRUE,
                 !.nodes = IF plan.sort_nodes /\ ~plan.prepared THEN SortNodes(@) ELSE @]

(***************************************************************************)
(* Mutant: pop_back without the move of the last entry into the hole.      *)
(***************************************************************************)
PickAndRemoveNoMove(plan) ==
    LET idx == IF plan.deterministic_order THEN 1
               ELSE DrawBelow(Head(plan.draws), Len(plan.nodes)) + 1
    IN  [node |-> plan.nodes[idx],
         plan |-> IF plan.deterministic_order
                  THEN [plan EXCEPT !.nodes = Tail(@)]
                  ELSE [plan EXCEPT !.draws = Tail(@), !.nodes = Front(@)]]

(***************************************************************************)
(* Takes the first entry, or a drawn one, whose place the last entry       *)
(* takes over.                                                             *)
(***************************************************************************)
PickAndRemove(plan) ==
    LET idx == IF plan.deterministic_order THEN 1
               ELSE DrawBelow(Head(plan.draws), Len(plan.nodes)) + 1
    IN  [node |-> plan.nodes[idx],
         plan |-> IF plan.deterministic_order
                  THEN [plan EXCEPT !.nodes = Tail(@)]
                  ELSE [plan EXCEPT !.draws = Tail(@),
                                    !.nodes = Front([@ EXCEPT ![idx] = Last(plan.nodes)])]]

(***************************************************************************)
(* QueryPlan::Next: the first preferred node that is still in the list     *)
(* (PopNode removes its first entry), else a picked one, else the empty    *)
(* URL.                                                                    *)
(***************************************************************************)
NextInPlan(unprepared) ==
    LET plan == Prepare(unprepared)
        hit == SelectInSeq(plan.preferred_nodes,
                           LAMBDA n : n # EmptyUrl /\ Contains(plan.nodes, n))
        left == [plan EXCEPT !.preferred_nodes =
                    IF hit = 0 THEN <<>> ELSE SubSeq(@, hit + 1, Len(@))]
    IN  CASE hit # 0 ->
               [node |-> plan.preferred_nodes[hit],
                plan |-> [left EXCEPT !.nodes = RemoveFirst(@, plan.preferred_nodes[hit])]]
          [] hit = 0 /\ plan.nodes # <<>> -> PickAndRemove(left)
          [] OTHER -> [node |-> EmptyUrl, plan |-> left]

(***************************************************************************)
(* Next until it returns the empty URL: an operation whose attempts all    *)
(* fail, and DrainPlan of key_route_affinity.cpp.                          *)
(***************************************************************************)
DrainStep(acc) ==
    LET next == NextInPlan(acc.plan)
    IN  IF acc.ended \/ next.node = EmptyUrl THEN [acc EXCEPT !.ended = TRUE]
        ELSE [acc EXCEPT !.plan = next.plan, !.out = Append(@, next.node)]

DrainPlan(start) ==
    FoldLeft(LAMBDA acc, i : DrainStep(acc), [plan |-> start, out |-> <<>>, ended |-> FALSE],
             [i \in 1 .. Len(start.nodes) + 1 |-> i]).out

FirstNodeWithSeed(nodes, draws) ==
    LET sorted == SortAndDedupeNodes(nodes)
    IN  IF sorted = <<>> THEN EmptyUrl
        ELSE sorted[DrawBelow(Head(draws), Len(sorted)) + 1]
=============================================================================
