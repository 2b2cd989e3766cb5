--------------------------- MODULE MCAlgorithms ----------------------------
(***************************************************************************)
(* The inputs for which TLC evaluates the functions of Algorithms.         *)
(***************************************************************************)
EXTENDS Algorithms

Node == 1 .. 3

(***************************************************************************)
(* Twelve streams: all outcomes of the draws for three nodes and for two.  *)
(***************************************************************************)
MCDraws(hash) == <<hash % 6, hash \div 6, 0>>

Sorted(S) == InOrder(S, LAMBDA a, b : a < b)
Lists == {Sorted(S) : S \in SUBSET Node}

Plans ==
    {WithSeed(nodes, MCDraws(h)) : nodes \in BoundedSeq(Node, 3), h \in 0 .. 11}
    \cup {WithSortedSeed(nodes, MCDraws(h)) : nodes \in BoundedSeq(Node, 3), h \in 0 .. 11}
    \cup {WithPreferredNodes(nodes, preferred) :
            nodes \in BoundedSeq(Node, 3), preferred \in BoundedSeq(0 .. 3, 3)}
    \cup {FromOrderedNodes(nodes) : nodes \in BoundedSeq(0 .. 3, 3)}

(***************************************************************************)
(* Two reads of the registry, the second of which may sample a node: for   *)
(* the even hashes.                                                        *)
(***************************************************************************)
Source(hashes) ==
    {[active |-> first, any |-> DedupePreservingOrder(<<sampled>> \o second),
      for_hash |-> [h \in hashes |->
        AppendMissing(IF h % 2 = 0 /\ sampled # 0 THEN <<sampled>> ELSE <<>>, second)]] :
        first \in Lists, second \in Lists, sampled \in 0 .. 3}

Hash == {NoHash} \cup 0 .. 2
Write == [first : Hash, second : Hash]
Batches == BoundedSeq(Write, 2) \cup TupleOf({[first |-> h, second |-> h] : h \in 0 .. 2}, 3)

(***************************************************************************)
(* All actions but DELETE need a value.                                    *)
(***************************************************************************)
Updates == {u \in SdkUpdate : u.action # "Delete" => u.has_value}
Requests ==
    {r \in [kind : {"PutItem", "DeleteItem", "UpdateItem", "BatchWriteItem"}, condition : BOOLEAN,
            expected : BOOLEAN, return_values : ReturnValue, update_expression : BOOLEAN,
            updates : BoundedSeq(Updates, 2)] : Accepted(r)}

-----------------------------------------------------------------------------
Codings == BoundedSeq({"gzip", "deflate", "identity", "br"}, 2)

Coded(codings) ==
    LET Layers(c) == IF c = "identity" THEN {<<>>} ELSE {<<f>> : f \in Formats(c)}
    IN  CASE codings = <<>> -> {<<>>}
          [] Len(codings) = 1 -> Layers(codings[1])
          [] OTHER -> {a \o b : a \in Layers(codings[1]), b \in Layers(codings[2])}

Spelled(coding) ==
    {<<coding>>, <<"blank", coding, "blank">>,
     <<CASE coding = "gzip" -> "GZIP" [] coding = "deflate" -> "DEFLATE" [] OTHER -> coding>>}

Headers(codings) ==
    CASE codings = <<>> -> {<<>>, <<"blank">>, <<"comma">>}
      [] Len(codings) = 1 -> Spelled(codings[1]) \cup {<<"comma", codings[1]>>, <<codings[1], "comma", "blank">>}
      [] OTHER -> {a \o <<"comma">> \o b : a \in Spelled(codings[1]), b \in Spelled(codings[2])}

Configured ==
    {<<>>, << << <<"gzip">> >> >>, << << <<"GZIP">>, <<"blank", "deflate">> >> >>,
     << << <<"deflate">> >>, << <<"gzip">> >> >>}

EarlierHeads ==
    {<<>>, <<StatusLine>>,
     <<StatusLine, [name |-> "Content-Encoding", value |-> <<"gzip">>], StatusLine>>}

Responses ==
    UNION {{[of |-> "Response", codings |-> codings, body |-> body, decoders |-> decoders,
             lines |-> heads \o (IF header = <<>> THEN <<>> ELSE
                                 <<[name |-> name, value |-> header],
                                   [name |-> "server", value |-> <<"br">>]>>)] :
                body \in Coded(codings), header \in Headers(codings), decoders \in Configured,
                heads \in EarlierHeads, name \in {"content-encoding", "Content-Encoding"}} :
           codings \in Codings}

CodingName ==
    {<<"gzip">>, <<"GZIP">>, <<"blank", "deflate">>, <<"br", "blank", "br">>, <<"blank">>,
     <<"gzip", "comma", "br">>}

Announcements ==
    [of : {"Codings"}, decoders : BoundedSeq(BoundedSeq(CodingName, 2) \cup {NullDecoder}, 2),
     advertised : {<<"gzip">>}]
    \cup [of : {"Codings"}, decoders : Configured, advertised : BoundedSeq({"gzip", "GZIP", "blank", "comma"}, 3)]

-----------------------------------------------------------------------------
(***************************************************************************)
(* Longer arrays: strings with at most k characters, as they are written,  *)
(* with blanks between the tokens.                                         *)
(***************************************************************************)
Piece ==
    {<<ch>> : ch \in Character \ {"quote", "backslash"}}
    \cup {<<"backslash", code>> : code \in {"n", "quote", "backslash"}}

Strings(k) == {<<"quote">> \o FlattenSeq(ps) \o <<"quote">> : ps \in BoundedSeq(Piece, k)}

Blanks(n) == [i \in 1 .. n |-> "blank"]
Gaps(slots, most) ==
    {g \in [1 .. slots -> 0 .. most] : FoldFunction(LAMBDA a, b : a + b, 0, g) <= most}
Spaced(tokens, g) ==
    FlattenSeq([i \in DOMAIN tokens |-> Blanks(g[i]) \o tokens[i]]) \o Blanks(g[Len(tokens) + 1])

Arrays ==
    {Spaced(<< <<"[">>, <<"]">> >>, g) : g \in Gaps(3, 3)}
    \cup {Spaced(<< <<"[">>, s, <<"]">> >>, g) : s \in Strings(2), g \in Gaps(4, 1)}
    \cup {Spaced(<< <<"[">>, s, <<"comma">>, t, <<"]">> >>, g) :
             s \in Strings(1), t \in Strings(1), g \in Gaps(6, 1)}

Answers == [of : {"LocalNodes"}, body : BoundedSeq(Character, 5) \cup Arrays]

-----------------------------------------------------------------------------
Seeds ==
    UNION {{a + b, -(a + b)} : a \in {0, 44488, 2 * 44488, 46341 * 46340, int32_max - 40},
                               b \in 0 .. 40}

MCInput ==
    [of : {"Plan"}, plan : Plans]
    \cup UNION {[of : {"Key"}, seed : {h}, source : Source({h})] : h \in 0 .. 11}
    \cup [of : {"Batch"}, writes : Batches, source : Source(0 .. 2)]
    \cup [of : {"Write"}, mode : {"None", "ReadBeforeWrite", "AnyWrite"}, request : Requests]
    \cup Responses
    \cup Announcements
    \cup Answers
    \cup [of : {"Seed"}, seed : Seeds]
    \cup [of : {"Words"}, calls : {3 * rng_len}, words : [0 .. rng_len - 1 -> 0 .. WordSize - 1]]
    \cup [of : {"Below"}, n : 1 .. IntSize - 1]
=============================================================================
