---------------------------- MODULE Algorithms -----------------------------
(***************************************************************************)
(* One call of one of the client's sequential functions: an input out of a *)
(* set of inputs, and the output the function returns for it.  The loops   *)
(* around zlib take a step per turn, the other functions one step.  The    *)
(* properties compare outputs with definitions that do not share the       *)
(* functions' algorithms.                                                  *)
(***************************************************************************)
EXTENDS KeyAffinity, Compression, ZlibStreams, LocalNodes, GoRandom

CONSTANT Input  \* the calls: records whose field "of" names the function

(***************************************************************************)
(* What the registry returns: nodes with a URL, and from the reads that    *)
(* put a sampled node in front each node once.  A generator has a draw for *)
(* every node it is asked to order.                                        *)
(***************************************************************************)
IsRead(nodes) == nodes \in Seq(Url) /\ IsInjective(nodes)

IsSource(source, hashes) ==
    /\ source.active \in Seq(Url) /\ IsRead(source.any)
    /\ \A h \in hashes :
          /\ IsRead(source.for_hash[h])
          /\ Draws(h) \in Seq(Nat) /\ Draws(h) # <<>>
          /\ Len(source.active) <= Len(Draws(h)) /\ Len(source.for_hash[h]) <= Len(Draws(h))

(***************************************************************************)
(* The requests DynamoDB accepts: PutItem and DeleteItem return the old    *)
(* item or nothing, and an UpdateItem has an update expression, attribute  *)
(* updates or neither.                                                     *)
(***************************************************************************)
Accepted(request) ==
    /\ request \in [kind : {"PutItem", "DeleteItem", "UpdateItem", "BatchWriteItem"},
                    condition : BOOLEAN, expected : BOOLEAN, return_values : ReturnValue,
                    update_expression : BOOLEAN, updates : Seq(SdkUpdate)]
    /\ request.update_expression => request.updates = <<>>
    /\ request.kind # "UpdateItem" =>
          /\ ~request.update_expression /\ request.updates = <<>>
          /\ request.return_values \in {"NotSet", "None", "AllOld"}

(***************************************************************************)
(* The codings the decoders of a configuration name, by their places.  The *)
(* configuration is refused when a decoder is null or has none, one is     *)
(* blank or two are the same.                                              *)
(***************************************************************************)
Decoders == Seq(Seq(Seq(HeaderCharacter)) \cup {NullDecoder})

Places(decoders) == UNION {{d} \X DOMAIN decoders[d] : d \in DOMAIN decoders}

NameAt(decoders, place) == NormalizeResponseEncoding(decoders[place[1]][place[2]])

Named(decoders) == {NameAt(decoders, p) : p \in Places(decoders)}

IsUsable(decoders) ==
    /\ \A d \in DOMAIN decoders : decoders[d] \notin {NullDecoder, <<>>}
    /\ \A p \in Places(decoders) : NameAt(decoders, p) # <<>>
    /\ \A p, q \in Places(decoders) : NameAt(decoders, p) = NameAt(decoders, q) => p = q

HasNoComma(decoders) ==
    \A p \in Places(decoders) : ~Contains(decoders[p[1]][p[2]], "comma")

(***************************************************************************)
(* A value spells codings: the codings are its letters, whatever their     *)
(* case, with a comma between any two.                                     *)
(***************************************************************************)
Spells(value, codings) ==
    \E at \in [DOMAIN codings -> DOMAIN value] :
        /\ Range(at) = {k \in DOMAIN value : value[k] \in Letter}
        /\ \A i \in DOMAIN at : ToLowerLetter(value[at[i]]) = codings[i]
        /\ \A i, j \in DOMAIN at : i < j => \E k \in at[i] .. at[j] : value[k] = "comma"

(***************************************************************************)
(* The last head of a response says what the codings of its body are: in   *)
(* one line, or without a line there are none.                             *)
(***************************************************************************)
HeadLine ==
    {StatusLine} \cup [name : {"Content-Encoding", "content-encoding", "server"},
                       value : Seq(HeaderCharacter)]

Says(lines, codings) ==
    LET named == {k \in DOMAIN lines : /\ ToLowerLetter(lines[k].name) = "content-encoding"
                                       /\ \A j \in k .. Len(lines) : lines[j] # StatusLine}
    IN  \/ named = {} /\ codings = <<>>
        \/ \E k \in named : named = {k} /\ Spells(lines[k].value, codings)

(***************************************************************************)
(* The formats a coding may leave a body in, and a body that was coded     *)
(* with one coding after the other.                                        *)
(***************************************************************************)
Formats(coding) == IF coding = "deflate" THEN {"zlib", "raw"} ELSE {coding}

IsCoded(body, codings) ==
    \E by \in [DOMAIN body -> DOMAIN codings] :
        /\ Range(by) = {i \in DOMAIN codings : codings[i] # "identity"}
        /\ \A l \in DOMAIN body : body[l] \in Formats(codings[by[l]])
        /\ \A l, m \in DOMAIN body : l < m => by[l] < by[m]

IsResponse(response) ==
    /\ response.decoders \in Decoders /\ IsUsable(response.decoders)
    /\ Named(response.decoders) \subseteq {<<"gzip">>, <<"deflate">>}
    /\ response.codings \in Seq({"gzip", "deflate", "identity", "br"})
    /\ response.lines \in Seq(HeadLine) /\ Says(response.lines, response.codings)
    /\ response.body \in Seq({"gzip", "zlib", "raw", "br"})
    /\ IsCoded(response.body, response.codings)

(***************************************************************************)
(* What the types, the registry, DynamoDB and the checks of the            *)
(* generator's functions leave of their arguments.                         *)
(***************************************************************************)
ASSUME InputAssumption ==
    \A i \in Input :
        /\ i.of = "Plan" =>
              /\ i.plan \in Plan
              /\ i.plan.deterministic_order \/ Len(i.plan.nodes) <= Len(i.plan.draws)
        /\ i.of = "Key" => IsSource(i.source, {i.seed})
        /\ i.of = "Batch" =>
              /\ i.writes \in Seq([first : Nat \cup {NoHash}, second : Nat \cup {NoHash}])
              /\ IsSource(i.source, ({w.first : w \in ToSet(i.writes)}
                                       \cup {w.second : w \in ToSet(i.writes)}) \ {NoHash})
        /\ i.of = "Write" => Accepted(i.request)
        /\ i.of = "Response" => IsResponse(i)
        /\ i.of = "Codings" => i.decoders \in Decoders /\ i.advertised \in Seq(HeaderCharacter)
        /\ i.of = "LocalNodes" => i.body \in Seq(Character)
        /\ i.of = "Seed" => i.seed \in Int
        /\ i.of = "Words" => i.words \in [0 .. rng_len - 1 -> 0 .. WordSize - 1]
        /\ i.of = "Below" => i.n \in 1 .. IntSize - 1

VARIABLES input, output

vars == <<input, output, stream>>

Pending == [of |-> "None"]

NoStream == [InflateBody(0, "Mark") EXCEPT !.pc = "Returned"]

Init ==
    /\ output = Pending
    /\ \/ input \in Input /\ stream = NoStream
       \/ /\ input = Pending
          /\ stream \in {DeflateBody(n) : n \in 0 .. MaxBody}
                        \cup {InflateBody(n, end) : n \in 0 .. MaxBody,
                                                    end \in Ending}

Returns(of, result) ==
    /\ input.of = of /\ output = Pending
    /\ output' = result
    /\ UNCHANGED <<input, stream>>

Drain == Returns("Plan", [of |-> "Plan", nodes |-> DrainPlan(input.plan)])

RouteKey ==
    Returns("Key", [of |-> "Key",
                    nodes |-> DrainPlan(QueryPlanForPartitionKey(input.source, input.seed))])

RouteBatch ==
    LET result == QueryPlanForBatchWrite(input.source, input.writes)
    IN  Returns("Batch", [of |-> "Batch", throws |-> result.throws,
                          nodes |-> IF result.throws THEN <<>> ELSE DrainPlan(result.plan)])

RouteWrite ==
    Returns("Write", [of |-> "Write",
        affine |-> IF input.request.kind = "BatchWriteItem"
                   THEN ShouldUseKeyRouteAffinityForBatch(input.mode)
                   ELSE ShouldUseKeyRouteAffinity(input.mode, input.request.kind,
                                                  WriteOptions(input.request))])

DecodeBody ==
    Returns("Response", [of |-> "Response",
                         body |-> ResponseBody(input.lines, input.body, input.decoders)])

Announce ==
    Returns("Codings", [of |-> "Codings",
                        accept |-> BuildAcceptEncodingValue(input.decoders),
                        content |-> BuildRequestContentEncodingValue(input.advertised)])

ParseAnswer ==
    Returns("LocalNodes", [of |-> "LocalNodes", parsed |-> ParseJsonStringArray(input.body)])

SeedOnce ==
    Returns("Seed", [of |-> "Seed", value |-> SeedValue(input.seed),
                     next |-> SeedRand(SeedValue(input.seed))])

(***************************************************************************)
(* One call of the generator after the other.                              *)
(***************************************************************************)
Generate ==
    LET rng == IF output.of = "Words" THEN output.rng ELSE Seeded(input.words)
    IN  /\ input.of = "Words" /\ Len(rng.out) < input.calls
        /\ output' = [of |-> "Words", rng |-> Uint64(rng)]
        /\ UNCHANGED <<input, stream>>

DrawAll ==
    Returns("Below", [of |-> "Below",
                      drawn |-> [v \in 0 .. IntSize - 1 |-> Int31n(v, input.n)]])

Loop == (Initialize \/ Read \/ Deflate \/ StreamFails \/ Inflate) /\ UNCHANGED <<input, output>>

Next ==
    \/ Drain \/ RouteKey \/ RouteBatch \/ RouteWrite
    \/ DecodeBody \/ Announce \/ ParseAnswer
    \/ SeedOnce \/ Generate \/ DrawAll
    \/ Loop

(***************************************************************************)
(* A thread in a loop around zlib goes on with it.                         *)
(***************************************************************************)
Spec == Init /\ [][Next]_vars /\ WF_vars(Loop)

-----------------------------------------------------------------------------
(***************************************************************************)
(* Property.  However a plan is made (at random, seeded, with preferred    *)
(* nodes, ordered), the nodes an operation is given until Next returns the *)
(* empty URL are the entries of the plan's list, each once; and before a   *)
(* preferred node that is in the list it is only given nodes that are      *)
(* preferred to it.                                                        *)
(***************************************************************************)
PlansVisitEveryEntryOnce ==
    output.of = "Plan" =>
        LET nodes == output.nodes
            preferred == input.plan.preferred_nodes
        IN  /\ ToBag(nodes) = ToBag(input.plan.nodes)
            /\ IsInjective(input.plan.nodes) =>
                  \A i, j \in DOMAIN nodes : \A k \in DOMAIN preferred :
                      i < j /\ preferred[k] = nodes[j] => \E l \in 1 .. k - 1 : preferred[l] = nodes[i]

(***************************************************************************)
(* The first of the nodes that is in S.                                    *)
(***************************************************************************)
FirstIn(nodes, S) == nodes[SelectInSeq(nodes, LAMBDA n : n \in S)]

(***************************************************************************)
(* Property.  A keyed plan is made of two reads of the registry that other *)
(* threads' reports may separate.  Every node of either read is in the     *)
(* plan, once; nodes the first read lacks (sampled ones) come before the   *)
(* others; and of the others the first is the one FirstNodeWithSeed names, *)
(* so that clients with the same active nodes agree.                       *)
(***************************************************************************)
KeyedPlansKeepEveryNode ==
    output.of = "Key" =>
        LET active == ToSet(input.source.active)
            nodes == output.nodes
        IN  /\ IsInjective(nodes)
            /\ ToSet(nodes) = active \cup ToSet(input.source.for_hash[input.seed])
            /\ \A i, j \in DOMAIN nodes : nodes[i] \notin active /\ nodes[j] \in active => i < j
            /\ active # {} =>
                  FirstIn(nodes, active) = FirstNodeWithSeed(input.source.active, Draws(input.seed))

(***************************************************************************)
(* The node the single write with this hash would be sent to, sampled      *)
(* nodes aside.                                                            *)
(***************************************************************************)
NodeOfKey(source, hash) ==
    FirstIn(DrainPlan(QueryPlanForPartitionKey(source, hash)), ToSet(source.active))

(***************************************************************************)
(* Property.  A batch is given up only when no write has a usable key at   *)
(* the second lookup or no node is known.  Otherwise its plan has every    *)
(* node once, and its active nodes are in the order of the number of the   *)
(* batch's writes that would go there on their own by the second lookup,   *)
(* whatever the first one found, and then of the URLs.                     *)
(***************************************************************************)
BatchPlansFollowTheirKeys ==
    output.of = "Batch" =>
        LET source == input.source
            active == ToSet(source.active)
            keyed == {i \in DOMAIN input.writes : input.writes[i].second # NoHash}
            listed == active \cup UNION {ToSet(source.for_hash[input.writes[i].first]) :
                         i \in {j \in DOMAIN input.writes : input.writes[j].first # NoHash}}
            candidates == IF listed = {} THEN ToSet(source.any) ELSE listed
            Share(n) == Cardinality({i \in keyed : NodeOfKey(source, input.writes[i].second) = n})
            nodes == output.nodes
        IN  /\ output.throws <=> (keyed = {} \/ candidates = {})
            /\ IsInjective(nodes)
            /\ ~output.throws => candidates \subseteq ToSet(nodes)
            /\ \A i, j \in {k \in DOMAIN nodes : nodes[k] \in active} :
                  i < j => \/ Share(nodes[i]) > Share(nodes[j])
                           \/ Share(nodes[i]) = Share(nodes[j]) /\ nodes[i] < nodes[j]

(***************************************************************************)
(* What a write does and answers, for an item whose attributes are sets:   *)
(* the ones the write names (attribute 1 stands for what a condition or an *)
(* expression names) and 0, one that it does not.  The answer is whether   *)
(* it is carried out, the values it stores and the attributes it returns.  *)
(* An update expression may be any, so it is taken for one that uses the   *)
(* old value.                                                              *)
(***************************************************************************)
Items(request) == [{0, 1} \cup DOMAIN request.updates -> {{}, {1}, {2}}]

Targets(request) ==
    IF request.kind = "UpdateItem" /\ ~request.update_expression THEN DOMAIN request.updates
    ELSE {1}

StoredValue(update, old) ==
    CASE update.action \in {"NotSet", "Put"} -> {1}
      [] update.action = "Add" -> old \cup {1}
      [] OTHER -> IF update.has_value THEN old \ {1} ELSE {}

Stored(request, item) ==
    [i \in Targets(request) |->
        CASE request.kind = "PutItem" -> {1}
          [] request.kind = "DeleteItem" -> {}
          [] request.kind = "UpdateItem" /\ ~request.update_expression ->
               StoredValue(request.updates[i], item[i])
          [] OTHER -> item[i] \cup {1}]

Returned(request, item) ==
    CASE request.return_values \in {"NotSet", "None"} -> <<>>
      [] request.return_values = "AllOld" -> <<item>>
      [] request.return_values = "UpdatedOld" -> <<[i \in Targets(request) |-> item[i]]>>
      [] request.return_values = "AllNew" -> <<Stored(request, item), item[0]>>
      [] OTHER -> <<Stored(request, item)>>

WriteOutcome(request, item) ==
    [carried_out |-> (request.condition \/ request.expected) => item[1] # {},
     stored |-> Stored(request, item),
     returned |-> Returned(request, item)]

(***************************************************************************)
(* An UpdateItem that updates nothing and asks for the old values of what  *)
(* it updated.                                                             *)
(***************************************************************************)
UpdatesNothing(request) ==
    /\ request.kind = "UpdateItem" /\ ~request.update_expression /\ request.updates = <<>>
    /\ request.return_values = "UpdatedOld"

(***************************************************************************)
(* Property.  In ReadBeforeWrite mode exactly those writes are routed by   *)
(* key whose outcome (effect or answer) differs for two states of the item *)
(* they write to; batches, which have neither conditions nor return        *)
(* values, are not.  The one write that is routed without need is the      *)
(* UpdateItem that updates nothing and asks for UPDATED_OLD.               *)
(***************************************************************************)
ReadsBeforeWritesAreRouted ==
    output.of = "Write" /\ input.mode = "ReadBeforeWrite" =>
        (output.affine <=>
            /\ input.request.kind # "BatchWriteItem"
            /\ \/ UpdatesNothing(input.request)
               \/ \E a, b \in Items(input.request) :
                     WriteOutcome(input.request, a) # WriteOutcome(input.request, b))

(***************************************************************************)
(* Property.  A body that was coded as its own head says, whatever the     *)
(* heads before it said and however the codings are spelled, is returned   *)
(* as it was before; when a decoder for one of the codings is missing the  *)
(* call throws.                                                            *)
(***************************************************************************)
BodiesAreDecoded ==
    output.of = "Response" =>
        output.body = IF \A c \in ToSet(input.codings) :
                             c = "identity" \/ <<c>> \in Named(input.decoders)
                      THEN <<>> ELSE Failure

(***************************************************************************)
(* Property.  What a server reads in the headers the client sends is what  *)
(* the client means: Accept-Encoding lists the codings its decoders take,  *)
(* each once, as long as no decoder names a coding with a comma in it,     *)
(* which nothing refuses; and decoders are refused exactly when one is     *)
(* null or has no coding, or a coding is blank or taken twice.  A          *)
(* Content-Encoding is a single coding.                                    *)
(***************************************************************************)
AnnouncedCodingsAreMeant ==
    output.of = "Codings" =>
        LET read == ParseContentEncodings(output.accept)
        IN  /\ output.accept = Failure <=> ~IsUsable(input.decoders)
            /\ output.accept # Failure /\ HasNoComma(input.decoders) =>
                  IsInjective(read) /\ ToSet(read) = Named(input.decoders)
            /\ output.content # Failure => ParseContentEncodings(output.content) = <<output.content>>

(***************************************************************************)
(* The JSON arrays of strings, by where their characters are.  A character *)
(* is escaped when an odd number of backslashes is right before it.  A     *)
(* string is what is between a quote that is not escaped and the next one; *)
(* the marks are these quotes and all that is not blank outside strings.   *)
(***************************************************************************)
UpTo(S, k) == Cardinality({j \in S : j <= k})

IsEscaped(body, k) ==
    (k - 1 - Max({0} \cup {j \in 1 .. k - 1 : body[j] # "backslash"})) % 2 = 1

Quotes(body) == {k \in DOMAIN body : body[k] = "quote" /\ ~IsEscaped(body, k)}

Text(body) == {k \in DOMAIN body \ Quotes(body) : UpTo(Quotes(body), k) % 2 = 1}

Marks(body) == {k \in DOMAIN body \ Text(body) : body[k] \notin Blank}

(***************************************************************************)
(* The marks are a bracket, a pair of quotes and a comma for each string   *)
(* (for the last one no comma), and a bracket.                             *)
(***************************************************************************)
MarksAt(place) ==
    CASE place = 1 -> {"["}
      [] place = 2 -> {"quote", "]"}
      [] place > 2 /\ place % 3 = 1 -> {"comma", "]"}
      [] place > 2 /\ place % 3 # 1 -> {"quote"}

IsArrayButForControls(body) ==
    /\ \A k \in Marks(body) : body[k] \in MarksAt(UpTo(Marks(body), k))
    /\ \A j, k \in Marks(body) : body[k] = "]" => j <= k
    /\ \E k \in Marks(body) : body[k] = "]"
    /\ \A k \in Text(body) : IsEscaped(body, k) => body[k] \in {"quote", "backslash", "n"}

(***************************************************************************)
(* JSON has no line breaks and other control characters in strings, and no *)
(* form feeds between tokens.                                              *)
(***************************************************************************)
IsArray(body) ==
    /\ IsArrayButForControls(body)
    /\ \A k \in DOMAIN body : body[k] # "formfeed"
    /\ \A k \in Text(body) : body[k] # "newline"

(***************************************************************************)
(* String number s without the backslashes that escape, and what it means. *)
(***************************************************************************)
KeptIn(body, s) ==
    {k \in Text(body) : /\ UpTo(Quotes(body), k) = 2 * s - 1
                        /\ body[k] = "backslash" => IsEscaped(body, k)}

Meant(body, k) == IF IsEscaped(body, k) /\ body[k] = "n" THEN "newline" ELSE body[k]

StringsOf(body) ==
    [s \in 1 .. Cardinality(Quotes(body)) \div 2 |->
        LET kept == KeptIn(body, s)
        IN  [i \in 1 .. Cardinality(kept) |->
                Meant(body, CHOOSE k \in kept : UpTo(kept, k) = i)]]

(***************************************************************************)
(* Property.  The parser of /localnodes takes every body that is a JSON    *)
(* array of strings, but for the escape \u, which it refuses, and gives    *)
(* the array's strings.  Beyond JSON it takes control characters in        *)
(* strings, as they are, and any white space of isspace between tokens; on *)
(* every body that is not an array even so it throws.                      *)
(***************************************************************************)
AnswersAreReadExactly ==
    output.of = "LocalNodes" =>
        /\ IsArray(input.body) => ~output.parsed.throws
        /\ output.parsed.throws <=> ~IsArrayButForControls(input.body)
        /\ ~output.parsed.throws => output.parsed.nodes = StringsOf(input.body)

(***************************************************************************)
(* a + b modulo int32_max without leaving 32 bits.                         *)
(***************************************************************************)
SumMod(a, b) == IF a >= int32_max - b THEN a - (int32_max - b) ELSE a + b

(***************************************************************************)
(* 48271 * x modulo int32_max, by the binary digits of 48271.              *)
(***************************************************************************)
Lehmer(x) ==
    LET twice == [a \in Nat |-> SumMod(a, a)]
        x8 == twice[twice[twice[x]]]
        x128 == twice[twice[twice[twice[x8]]]]
        x1024 == twice[twice[twice[x128]]]
        x8192 == twice[twice[twice[x1024]]]
        x15 == SumMod(twice[x8], int32_max - x)                \* 16 - 1
        x15360 == SumMod(twice[x8192], int32_max - x1024)      \* 16384 - 1024
    IN  SumMod(SumMod(twice[twice[x8192]], x15360), SumMod(x128, x15))

(***************************************************************************)
(* For every seed, negative ones and multiples of int32_max too, the       *)
(* seeding generator starts where it does not stick (not at 0) and its     *)
(* step is multiplication by 48271 modulo int32_max.                       *)
(***************************************************************************)
SeedsDoNotStick ==
    output.of = "Seed" =>
        /\ output.value \in 1 .. int32_max - 1
        /\ output.next = Lehmer(output.value)
        /\ output.next # 0

(***************************************************************************)
(* Each value of the generator is the sum of those rng_len and rng_tap     *)
(* calls before it, across the wrap of both positions.                     *)
(***************************************************************************)
WordsAreLagged ==
    output.of = "Words" =>
        LET words == output.rng.out
        IN  \A k \in rng_len + 1 .. Len(words) :
                words[k] = (words[k - rng_len] + words[k - rng_tap]) % WordSize

(***************************************************************************)
(* Int31n is fair: every value below n is drawn by the same number of      *)
(* values of Int31, and by at least one.                                   *)
(***************************************************************************)
DrawsAreFair ==
    output.of = "Below" =>
        LET Ways(r) == Cardinality({v \in DOMAIN output.drawn : output.drawn[v] = r})
        IN  \A r \in 0 .. input.n - 1 : Ways(r) = Ways(0) /\ Ways(r) > 0

(***************************************************************************)
(* Property.  The generator behind every keyed plan is sound from the seed *)
(* to the draw: no seed leaves it stuck, its words follow its recurrence,  *)
(* and what is drawn from them is fair.                                    *)
(***************************************************************************)
GeneratorIsSound == SeedsDoNotStick /\ WordsAreLagged /\ DrawsAreFair

(***************************************************************************)
(* Property.  Compressing gives the whole stream, also when a buffer ends  *)
(* where the body does, and fails only with the streams it works on or     *)
(* when zlib cannot be initialized.  Decompressing gives the whole body up *)
(* to the first end mark, whatever is behind it, or throws; it throws only *)
(* when the stream is cut off, damaged or larger than zlib can be told or  *)
(* zlib cannot be initialized.                                             *)
(***************************************************************************)
StreamsAreComplete ==
    /\ stream.deflates =>
         /\ stream.pc = "Returned" => stream.written = stream.body + 1
         /\ stream.pc = "Threw" => stream.broken
    /\ ~stream.deflates =>
         /\ stream.pc = "Returned" =>
              stream.end \in {"Mark", "More"} /\ stream.written = stream.body * Ratio
         /\ stream.pc = "Threw" =>
              stream.end \in {"CutOff", "Damage"} \/ stream.broken \/ stream.body > SizeLimit

(***************************************************************************)
(* Property.  The loops around zlib end.                                   *)
(***************************************************************************)
LoopsEnd == <>(stream.pc \in {"Returned", "Threw"})
=============================================================================
