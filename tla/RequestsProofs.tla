--------------------------- MODULE RequestsProofs ---------------------------
(***************************************************************************)
(* Theorems about Requests, for any nodes, any thresholds, any number of   *)
(* attempts the retry strategy allows and any number of operations at      *)
(* once: the types, and the five safety properties of the module.          *)
(***************************************************************************)
EXTENDS Requests, HealthRulesProofs, TLAPS

-----------------------------------------------------------------------------
(* What a step does to the requests.                                       *)

(* The request of r becomes g, and the other requests stay.                *)
Moves(r, g) == g \in Request /\ request' = [request EXCEPT ![r] = g]

(* So r has the request g, and nobody else's request is another.           *)
LEMMA MovesOne ==
    ASSUME TypeOK, NEW r \in Requester, NEW g, Moves(r, g)
    PROVE  /\ request' \in [Requester -> Request] /\ request'[r] = g
           /\ \A o \in Requester : o # r => request'[o] = request[o]
BY DEF TypeOK, Moves

(* The request q of an operation that goes on at pc, begins with a plan,   *)
(* has read the active nodes, has a plan or a client, has its endpoint,    *)
(* starts an attempt, keeps its node, is sent to the next one, and is      *)
(* answered.                                                               *)
GoneTo(q, pc) == [q EXCEPT !.pc = pc]
Begun(q) == [q EXCEPT !.pc = "Plan", !.reporter = TRUE]
Asked(q, nodes) == [q EXCEPT !.asked = TRUE, !.candidates = nodes]
Planned(q, n) == [q EXCEPT !.pc = "Client", !.plan = n, !.asked = FALSE, !.candidates = {}]
Given(q, c) == [q EXCEPT !.pc = "Resolve", !.client = c]
Resolved(q, e) ==
    [q EXCEPT !.endpoint = e, !.pc = "Start", !.asked = FALSE, !.candidates = {}]
Started(q) ==
    [q EXCEPT !.pc = IF config.wrapped THEN "Select" ELSE "Send",
              !.attempt = @ + 1, !.uri = q.endpoint, !.node = NoNode,
              !.headers = {"amz-sdk-request", "content-length"}, !.compressed = FALSE,
              !.response = "None",
              !.last_node = IF q.reporter THEN q.endpoint ELSE @]
Kept(q) == [q EXCEPT !.pc = "Send", !.node = q.uri]
Sent(q, n) ==
    [RewriteRequestEndpoint(q, n) EXCEPT !.pc = "Send", !.asked = FALSE, !.candidates = {}]
Answered(q, compresses, answer) ==
    [Prepared(q, compresses) EXCEPT !.response = answer, !.pc = "Answered"]

(* What stays of an operation, and of the message of an attempt.           *)
SameOperation(q, g) ==
    /\ g.plan = q.plan /\ g.client = q.client /\ g.reporter = q.reporter
    /\ g.endpoint = q.endpoint /\ g.attempt = q.attempt

SameMessage(q, g) ==
    /\ g.uri = q.uri /\ g.node = q.node /\ g.asked = q.asked
    /\ g.headers = q.headers /\ g.compressed = q.compressed

(* An operation that only goes on.                                         *)
LEMMA GoneToFields ==
    ASSUME NEW q \in Request, NEW g,
           NEW pc \in {"Start", "Send", "NextNode", "Decide"}, g = GoneTo(q, pc)
    PROVE  g \in Request /\ g.pc = pc /\ SameOperation(q, g) /\ SameMessage(q, g)
BY DEF Request, GoneTo, SameOperation, SameMessage

(* An operation that begins with a plan.                                   *)
LEMMA BegunFields ==
    ASSUME NEW q \in Request, NEW g, g = Begun(q)
    PROVE  g \in Request /\ g.pc = "Plan" /\ g.attempt = q.attempt
BY DEF Request, Begun

(* An operation that has read the active nodes.                            *)
LEMMA AskedFields ==
    ASSUME NEW q \in Request, NEW g, NEW nodes \in SUBSET Node, g = Asked(q, nodes)
    PROVE  /\ g \in Request /\ g.pc = q.pc /\ SameOperation(q, g)
           /\ g.uri = q.uri /\ g.node = q.node /\ g.asked /\ g.candidates = nodes
           /\ g.headers = q.headers /\ g.compressed = q.compressed
BY DEF Request, Asked, SameOperation

(* An operation that has its query plan.                                   *)
LEMMA PlannedFields ==
    ASSUME NEW q \in Request, NEW g, NEW n \in Node \cup {NoNode}, g = Planned(q, n)
    PROVE  g \in Request /\ g.pc = "Client" /\ g.attempt = q.attempt /\ ~g.asked
BY DEF Request, Planned

(* An operation that has its client.                                       *)
LEMMA GivenFields ==
    ASSUME NEW q \in Request, NEW g, NEW c \in Client, g = Given(q, c)
    PROVE  /\ g \in Request /\ g.pc = "Resolve" /\ g.client = c
           /\ g.plan = q.plan /\ g.reporter = q.reporter /\ g.attempt = q.attempt
BY DEF Request, Given

(* An operation that has its endpoint.                                     *)
LEMMA ResolvedFields ==
    ASSUME NEW q \in Request, NEW g, NEW e \in Node \cup {NoNode, Override}, g = Resolved(q, e)
    PROVE  /\ g \in Request /\ g.pc = "Start" /\ g.endpoint = e /\ ~g.asked
           /\ g.plan = q.plan /\ g.reporter = q.reporter /\ g.attempt = q.attempt
BY DEF Request, Resolved

(* An attempt the SDK starts.                                              *)
LEMMA StartedFields ==
    ASSUME NEW q \in Request, NEW g, q.attempt < MaxAttempts,
           q.reporter => q.endpoint \in Node, config \in Config, g = Started(q)
    PROVE  /\ g \in Request
           /\ g.pc = IF config.wrapped THEN "Select" ELSE "Send"
           /\ g.attempt = q.attempt + 1 /\ g.uri = q.endpoint /\ g.node = NoNode
           /\ ~g.compressed /\ "content-encoding" \notin g.headers
           /\ g.endpoint = q.endpoint /\ g.plan = q.plan /\ g.reporter = q.reporter
           /\ g.asked = q.asked
<1>1. q.attempt + 1 \in 0 .. MaxAttempts
  BY RequestsAssumption DEF Request
<1> DEFINE last == IF q.reporter THEN q.endpoint ELSE q.last_node
           place == IF config.wrapped THEN "Select" ELSE "Send"
           sent == {"amz-sdk-request", "content-length"}
<1>2. last \in Node \cup {NoNode} /\ place \in {"Select", "Send"}
  BY DEF Request
<1>3. sent \subseteq Header /\ "content-encoding" \notin sent
  BY DEF Header
<1>4. g = [q EXCEPT !.pc = place, !.attempt = q.attempt + 1, !.uri = q.endpoint, !.node = NoNode,
                    !.headers = sent, !.compressed = FALSE,
                    !.response = "None", !.last_node = last]
  BY DEF Started
<1> HIDE DEF last, place, sent
<1>5. g \in Request
  BY ZenonT(40), <1>1, <1>2, <1>3, <1>4 DEF Request, Response
<1>6. /\ g.pc = place /\ g.attempt = q.attempt + 1 /\ g.uri = q.endpoint /\ g.node = NoNode
      /\ g.headers = sent /\ g.compressed = FALSE
      /\ g.endpoint = q.endpoint /\ g.plan = q.plan /\ g.reporter = q.reporter
      /\ g.asked = q.asked
  BY <1>4 DEF Request
<1>7. QED
  BY <1>3, <1>5, <1>6 DEF place

(* What is read from the store are nodes.                                  *)
LEMMA ReadsAreNodes ==
    ASSUME NEW st
    PROVE  GetActiveNodes(st) \subseteq Node /\ GetQuarantinedNodes(st) \subseteq Node
BY DEF GetActiveNodes, GetQuarantinedNodes, Known, NodesByState

(* What a choice can come to.                                              *)
LEMMA NextNodeIsNode ==
    ASSUME NEW q \in Request, NEW n \in NextNode(q)
    PROVE  /\ n \in Node \cup {NoNode}
           /\ n = NoNode => q.candidates = {} /\ GetQuarantinedNodes(statuses) = {}
           /\ n # NoNode => n \in q.candidates \cup GetQuarantinedNodes(statuses)
<1>1. q.candidates \subseteq Node
  BY DEF Request
<1>2. QED
  BY <1>1, ReadsAreNodes, RequestsAssumption DEF NextNode

(* A first attempt that keeps the node it was signed for.                  *)
LEMMA KeptFields ==
    ASSUME NEW q \in Request, NEW g, q.uri \in Node, g = Kept(q)
    PROVE  /\ g \in Request /\ g.pc = "Send" /\ SameOperation(q, g)
           /\ g.uri = q.uri /\ g.node = q.uri /\ g.asked = q.asked
           /\ g.headers = q.headers /\ g.compressed = q.compressed
BY DEF Request, Kept, SameOperation

(* An attempt that is sent to another node, or where it was if there is    *)
(* none.                                                                   *)
LEMMA SentFields ==
    ASSUME NEW q \in Request, NEW g, NEW n \in Node \cup {NoNode}, g = Sent(q, n)
    PROVE  /\ g \in Request /\ g.pc = "Send" /\ SameOperation(q, g)
           /\ g.node = n /\ ~g.asked
           /\ n # NoNode => g.uri = n
           /\ g.headers = q.headers /\ g.compressed = q.compressed
<1> DEFINE uri == IF n = NoNode THEN q.uri ELSE n
<1>1. uri \in Node \cup {NoNode, Override} /\ (n # NoNode => uri = n)
  BY DEF Request
<1>2. RewriteRequestEndpoint(q, n) = [q EXCEPT !.node = n, !.uri = uri]
  BY DEF RewriteRequestEndpoint
<1> HIDE DEF uri
<1>3. g = [q EXCEPT !.node = n, !.uri = uri, !.pc = "Send", !.asked = FALSE, !.candidates = {}]
  BY <1>2 DEF Sent, Request
<1>4. g \in Request
  BY <1>1, <1>3 DEF Request
<1>5. /\ g.pc = "Send" /\ SameOperation(q, g) /\ g.node = n /\ ~g.asked /\ g.uri = uri
      /\ g.headers = q.headers /\ g.compressed = q.compressed
  BY <1>3 DEF Request, SameOperation
<1>6. QED
  BY <1>1, <1>4, <1>5

(* A compressor's header is allowed by every policy that goes with it.     *)
LEMMA AllowedHeadersCoverCompression ==
    ASSUME config \in Config, config.compressor
    PROVE  "content-encoding" \in AllowedHeaders
BY DEF Config, AllowedHeaders, Header

(* What the wrapper does to a message it sends to a node of its own: it    *)
(* compresses if it can, says so, and changes nothing but the headers.     *)
LEMMA PreparedFields ==
    ASSUME NEW q \in Request, NEW g, NEW compresses \in {FALSE, config.compressor},
           config \in Config, ~q.compressed, "content-encoding" \notin q.headers,
           g = Prepared(q, compresses)
    PROVE  /\ g \in Request /\ SameOperation(q, g) /\ g.uri = q.uri /\ g.node = q.node
           /\ g.asked = q.asked
           /\ g.compressed <=> "content-encoding" \in g.headers
<1>1. CASE q.node = NoNode
  BY <1>1 DEF Prepared, SameOperation
<1>2. CASE q.node # NoNode
  <2> DEFINE c == IF compresses THEN TRUE ELSE q.compressed
             offered == q.headers \cup {"accept-encoding"}
             said == IF compresses THEN offered \cup {"content-encoding"} ELSE offered
             h == said \cap AllowedHeaders
  <2>1. g = [q EXCEPT !.headers = h, !.compressed = c]
    <3>1. CASE compresses
      BY <1>2, <3>1 DEF Prepared, OptimizeRequestHeaders, CompressAwsRequestBody, Request
    <3>2. CASE ~compresses
      BY <1>2, <3>2 DEF Prepared, OptimizeRequestHeaders, CompressAwsRequestBody, Request
    <3>3. QED
      BY <3>1, <3>2
  <2>2. c \in BOOLEAN /\ h \subseteq Header
    BY DEF Request, Header
  <2>3. c <=> "content-encoding" \in h
    <3>1. CASE compresses
      BY <3>1, AllowedHeadersCoverCompression DEF Config
    <3>2. CASE ~compresses
      BY <3>2 DEF Config
    <3>3. QED
      BY <3>1, <3>2
  <2> HIDE DEF c, h
  <2>4. QED
    BY ZenonT(40), <2>1, <2>2, <2>3 DEF Request, SameOperation
<1>3. QED
  BY <1>1, <1>2

(* An attempt that has been answered.                                      *)
LEMMA AnsweredFields ==
    ASSUME NEW q \in Request, NEW g, NEW compresses \in {FALSE, config.compressor},
           NEW answer \in Response, config \in Config, ~q.compressed,
           "content-encoding" \notin q.headers, g = Answered(q, compresses, answer)
    PROVE  /\ g \in Request /\ g.pc = "Answered" /\ SameOperation(q, g)
           /\ g.uri = q.uri /\ g.node = q.node /\ g.asked = q.asked
           /\ g.compressed <=> "content-encoding" \in g.headers
<1> DEFINE p == Prepared(q, compresses)
<1>1. /\ p \in Request /\ SameOperation(q, p) /\ p.uri = q.uri /\ p.node = q.node
      /\ p.asked = q.asked
      /\ p.compressed <=> "content-encoding" \in p.headers
  BY PreparedFields
<1>2. g = [p EXCEPT !.response = answer, !.pc = "Answered"]
  BY DEF Answered
<1> HIDE DEF p
<1>3. QED
  BY ZenonT(40), <1>1, <1>2 DEF Request, SameOperation

-----------------------------------------------------------------------------
(* What holds of one request.                                              *)

(* Up to its endpoint an operation has made no attempt, has the client its *)
(* plan calls for, and a client without a plan reports nothing; only the   *)
(* choice of a node reads the active nodes.                                *)
Begins(q) ==
    /\ q.pc = "Idle" => q = IdleRequest
    /\ q.pc \in {"Plan", "Client", "Resolve"} => q.attempt = 0
    /\ q.pc \notin {"Plan", "Resolve", "NextNode"} => ~q.asked
    /\ q.pc = "Resolve" =>
         /\ q.client \in {"Fixed", "Dynamic", "Override"}
         /\ q.client = "Fixed" <=> q.plan # NoNode
         /\ q.client = "Override" => ~q.reporter

(* From then on its endpoint is that of its plan, if it has one, and the   *)
(* attempts are counted.                                                   *)
Addressed(q) ==
    q.pc \notin {"Idle", "Plan", "Client", "Resolve"} =>
        /\ q.reporter => q.endpoint \in Node
        /\ q.plan # NoNode => q.endpoint = q.plan
        /\ q.attempt <= MaxAttempts
        /\ q.pc = "Start" => q.attempt < MaxAttempts
        /\ q.pc # "Start" => q.attempt >= 1

(* What the choice of a node leaves for the attempt to come.               *)
Routed(q) ==
    /\ q.pc \in {"Select", "NextNode"} => q.node = NoNode
    /\ q.pc = "NextNode" => ~KeepsEndpoint(q)
    /\ q.pc \in {"Select", "NextNode", "Send", "Answered"} /\ q.attempt = 1 /\ q.plan # NoNode
         => q.uri = q.plan
    /\ q.pc \in {"Send", "Answered"} /\ q.node # NoNode => q.uri = q.node

(* A message is plain until it is sent, and then says what it is.          *)
Announced(q) ==
    /\ q.pc \in {"Select", "NextNode", "Send"} =>
         ~q.compressed /\ "content-encoding" \notin q.headers
    /\ q.pc = "Answered" => (q.compressed <=> "content-encoding" \in q.headers)

(* What the ghost w has seen of a choice: the present state of the store,  *)
(* ...                                                                     *)
Watched(q, w, st) ==
    q.pc \in {"Select", "NextNode"} =>
        /\ GetActiveNodes(st) \cup GetQuarantinedNodes(st) \subseteq w.usable
        /\ GetActiveNodes(st) = {} => w.inactive
        /\ w.inactive /\ GetQuarantinedNodes(st) = {} => w.drained

(* ... the active nodes that were read, and the node that was chosen; the  *)
(* override host is left only by a choice that came to nothing.            *)
Chosen(q, w) ==
    /\ q.pc = "NextNode" /\ q.asked =>
         /\ q.candidates \subseteq w.usable
         /\ q.candidates = {} => w.inactive
    /\ q.pc = "Send" /\ config.wrapped =>
         /\ q.attempt \in 2 .. 9 /\ q.node # NoNode => q.uri \in w.usable
         /\ q.uri = Override => w.drained

Sound(q) == Begins(q) /\ Addressed(q) /\ Routed(q) /\ Announced(q)

(* The inductive invariant.                                                *)
RequestsAreSound ==
    /\ TypeOK
    /\ \A r \in Requester :
         /\ Sound(request[r])
         /\ Watched(request[r], witnessed[r], statuses)
         /\ Chosen(request[r], witnessed[r])

(* An operation that is over is sound.                                     *)
LEMMA IdleIsSound ==
    ASSUME NEW w
    PROVE  IdleRequest \in Request /\ Sound(IdleRequest) /\ Chosen(IdleRequest, w)
<1>1. IdleRequest \in Request /\ IdleRequest.pc = "Idle" /\ ~IdleRequest.asked
  BY RequestsAssumption DEF IdleRequest, Request, Client, Response
<1>2. QED
  BY <1>1 DEF Sound, Begins, Addressed, Routed, Announced, Chosen, Chosen

(* Goes on as g: the request of r becomes g, which is sound.               *)
GoesOn(r) == \E g : Moves(r, g) /\ Sound(g) /\ Chosen(g, witnessed'[r])

(* The ghost v that comes after w: it loses nothing while a node is        *)
(* chosen, and stays until the request has been sent.                      *)
Follows(q, w, v) ==
    /\ q.pc \in {"Select", "NextNode"} =>
         w.usable \subseteq v.usable /\ (w.inactive => v.inactive) /\ (w.drained => v.drained)
    /\ q.pc = "Send" => v = w

(* What the ghost has seen after a step, whatever the step did.            *)
LEMMA WitnessingSees ==
    ASSUME TypeOK, Witnessing, NEW r \in Requester
    PROVE  /\ witnessed' \in [Requester -> Witness]
           /\ Watched(request'[r], witnessed'[r], statuses')
           /\ Follows(request'[r], witnessed[r], witnessed'[r])
<1> DEFINE active == GetActiveNodes(statuses')
           quarantined == GetQuarantinedNodes(statuses')
           inactive(w) == w.inactive \/ active = {}
           grown(w) == [usable |-> w.usable \cup active \cup quarantined,
                        inactive |-> inactive(w),
                        drained |-> w.drained \/ (inactive(w) /\ quarantined = {})]
           after(o) == CASE request'[o].pc \in {"Select", "NextNode"} -> grown(witnessed[o])
                         [] request'[o].pc = "Send" -> witnessed[o]
                         [] OTHER -> NoWitness
<1>1. witnessed' = [o \in Requester |-> after(o)]
  BY Zenon DEF Witnessing
<1>2. ASSUME NEW o \in Requester
      PROVE  /\ after(o) \in Witness
             /\ Watched(request'[o], after(o), statuses')
             /\ Follows(request'[o], witnessed[o], after(o))
  <2> DEFINE w == witnessed[o]
  <2>1. w \in Witness /\ active \subseteq Node /\ quarantined \subseteq Node
    BY ReadsAreNodes DEF TypeOK
  <2>2. CASE request'[o].pc \in {"Select", "NextNode"}
    <3>1. after(o) = grown(w)
      BY <2>2
    <3>2. grown(w) \in Witness
      BY <2>1 DEF Witness
    <3>3. /\ grown(w).usable = w.usable \cup active \cup quarantined
          /\ grown(w).inactive = inactive(w)
          /\ grown(w).drained = (w.drained \/ (inactive(w) /\ quarantined = {}))
      OBVIOUS
    <3> HIDE DEF grown, after
    <3>4. QED
      BY <2>2, <3>1, <3>2, <3>3 DEF Watched, Follows
  <2>3. CASE request'[o].pc = "Send"
    BY <2>1, <2>3 DEF Watched, Follows
  <2>4. CASE request'[o].pc \notin {"Select", "NextNode", "Send"}
    BY <2>4 DEF Watched, Follows, NoWitness, Witness
  <2>5. QED
    BY <2>2, <2>3, <2>4
<1> HIDE DEF after
<1>3. QED
  BY <1>1, <1>2

(* The reading of the active nodes.                                        *)
LEMMA ReadingIsSound ==
    ASSUME TypeOK, NEW r \in Requester, Sound(request[r]), ReadActive(r)
    PROVE  GoesOn(r)
<1> DEFINE q == request[r]
           nodes == GetActiveNodes(statuses)
<1>1. q \in Request /\ nodes \in SUBSET Node
  BY ReadsAreNodes DEF TypeOK
<1>2. request' = [request EXCEPT ![r] = Asked(q, nodes)] /\ statuses' = statuses
  BY DEF TypeOK, ReadActive, Asked
<1>3. PICK g : g = Asked(q, nodes)
  OBVIOUS
<1> HIDE DEF nodes
<1>4. /\ g \in Request /\ g.pc = q.pc /\ SameOperation(q, g)
      /\ g.uri = q.uri /\ g.node = q.node /\ g.asked /\ g.candidates = nodes
      /\ g.headers = q.headers /\ g.compressed = q.compressed
  BY <1>1, <1>3, AskedFields
<1>5. q.pc \in {"Plan", "NextNode", "Resolve"}
  BY DEF ReadActive, Chooses
<1>6. Sound(g)
  <2>1. Begins(g)
    BY <1>4, <1>5 DEF Sound, Begins, SameOperation
  <2>2. Addressed(g)
    BY <1>4, <1>5 DEF Sound, Addressed, SameOperation
  <2>3. Routed(g)
    BY <1>4, <1>5 DEF Sound, Routed, KeepsEndpoint, SameOperation
  <2>4. Announced(g)
    BY <1>4, <1>5 DEF Sound, Announced
  <2>5. QED
    BY <2>1, <2>2, <2>3, <2>4 DEF Sound
<1>7. Chosen(g, witnessed'[r])
  <2>1. request'[r] = g
    BY <1>2, <1>3 DEF TypeOK
  <2>2. Watched(g, witnessed'[r], statuses)
    BY <1>2, <2>1, WitnessingSees DEF ReadActive
  <2>3. QED
    BY <1>4, <1>5, <2>2 DEF Chosen, Watched, nodes
<1>8. QED
  BY <1>2, <1>3, <1>4, <1>6, <1>7 DEF GoesOn, Moves

(* The plan, the client and the endpoint of an operation.                  *)
LEMMA BeginningIsSound ==
    ASSUME TypeOK, NEW r \in Requester, Sound(request[r]),
           \/ BeginOperation(r) \/ MakePlan(r) \/ NewDynamoDBForQueryPlan(r)
           \/ ResolveEndpoint(r)
    PROVE  GoesOn(r)
<1> DEFINE q == request[r]
<1>1. q \in Request
  BY DEF TypeOK
<1>2. NextNode(q) \subseteq Node \cup {NoNode}
  BY <1>1, NextNodeIsNode
<1>3. CASE BeginOperation(r)
  <2>1. q = IdleRequest /\ q.attempt = 0 /\ q.plan = NoNode /\ ~q.reporter
    <3>1. q = IdleRequest
      BY <1>3 DEF BeginOperation, At, Sound, Begins
    <3>2. IdleRequest.attempt = 0 /\ IdleRequest.plan = NoNode /\ ~IdleRequest.reporter
      BY DEF IdleRequest
    <3>3. QED
      BY <3>1, <3>2
  <2>2. ASSUME request' = [request EXCEPT ![r].pc = "Plan", ![r].reporter = TRUE]
        PROVE  GoesOn(r)
    <3>1. request' = [request EXCEPT ![r] = Begun(q)]
      BY <2>2 DEF TypeOK, Begun
    <3>2. PICK g : g = Begun(q)
      OBVIOUS
    <3>3. g \in Request /\ g.pc = "Plan" /\ g.attempt = 0
      BY <1>1, <2>1, <3>2, BegunFields
    <3>4. Sound(g) /\ Chosen(g, witnessed'[r])
      BY <3>3 DEF Sound, Begins, Addressed, Routed, Announced, Chosen
    <3>5. QED
      BY <3>1, <3>2, <3>3, <3>4 DEF GoesOn, Moves
  <2>3. ASSUME NEW c \in {"Dynamic", "Override"},
               request' = [request EXCEPT ![r].pc = "Resolve", ![r].client = c]
        PROVE  GoesOn(r)
    <3>1. request' = [request EXCEPT ![r] = Given(q, c)]
      BY <2>3 DEF TypeOK, Given
    <3>2. PICK g : g = Given(q, c)
      OBVIOUS
    <3>3. /\ g \in Request /\ g.pc = "Resolve" /\ g.client = c /\ g.attempt = 0
          /\ g.plan = NoNode /\ ~g.reporter
      BY <1>1, <2>1, <3>2, GivenFields DEF Client
    <3>4. Sound(g) /\ Chosen(g, witnessed'[r])
      BY <3>3 DEF Sound, Begins, Addressed, Routed, Announced, Chosen
    <3>5. QED
      BY <3>1, <3>2, <3>3, <3>4 DEF GoesOn, Moves
  <2>4. QED
    BY <1>3, <2>2, <2>3 DEF BeginOperation
<1>7. CASE MakePlan(r)
  <2>1. q.attempt = 0
    BY <1>7 DEF MakePlan, At, Sound, Begins
  <2>2. PICK n \in NextNode(q) : request' = [request EXCEPT ![r] = Planned(q, n)]
    BY <1>7 DEF TypeOK, MakePlan, Planned
  <2>3. PICK g : g = Planned(q, n)
    OBVIOUS
  <2>4. g \in Request /\ g.pc = "Client" /\ g.attempt = 0 /\ ~g.asked
    BY <1>1, <1>2, <2>1, <2>3, PlannedFields
  <2>5. Sound(g) /\ Chosen(g, witnessed'[r])
    BY <2>4 DEF Sound, Begins, Addressed, Routed, Announced, Chosen
  <2>6. QED
    BY <2>2, <2>3, <2>4, <2>5 DEF GoesOn, Moves
<1>4. CASE NewDynamoDBForQueryPlan(r)
  <2> DEFINE c == IF q.plan = NoNode THEN "Dynamic" ELSE "Fixed"
  <2>1. q.attempt = 0
    BY <1>4 DEF NewDynamoDBForQueryPlan, At, Sound, Begins
  <2>2. c \in Client /\ c \in {"Fixed", "Dynamic"} /\ (c = "Fixed" <=> q.plan # NoNode)
    BY DEF Client
  <2>3. request' = [request EXCEPT ![r] = Given(q, c)]
    BY <1>4 DEF TypeOK, Given, NewDynamoDBForQueryPlan
  <2> HIDE DEF c
  <2>4. PICK g : g = Given(q, c)
    OBVIOUS
  <2>5. g \in Request /\ g.pc = "Resolve" /\ g.client = c /\ g.attempt = 0 /\ g.plan = q.plan
    BY <1>1, <2>1, <2>2, <2>4, GivenFields
  <2>6. Sound(g) /\ Chosen(g, witnessed'[r])
    BY <2>2, <2>5 DEF Sound, Begins, Addressed, Routed, Announced, Chosen
  <2>7. QED
    BY <2>3, <2>4, <2>5, <2>6 DEF GoesOn, Moves
<1>5. CASE ResolveEndpoint(r)
  <2>1. PICK e \in EndpointsOf(q) :
          request' = [request EXCEPT ![r] = IF e = NoNode THEN IdleRequest ELSE Resolved(q, e)]
    BY <1>5 DEF ResolveEndpoint, Resolved
  <2>2. /\ q.attempt = 0 /\ q.client \in {"Fixed", "Dynamic", "Override"}
        /\ q.client = "Fixed" <=> q.plan # NoNode
        /\ q.client = "Override" => ~q.reporter
    BY <1>5 DEF ResolveEndpoint, At, Sound, Begins
  <2>3. /\ e \in Node \cup {NoNode, Override}
        /\ q.plan # NoNode => e = q.plan
        /\ q.reporter => e \in Node \cup {NoNode}
    <3>1. CASE q.client = "Fixed"
      BY <1>1, <2>1, <2>2, <3>1 DEF EndpointsOf, Request
    <3>2. CASE q.client = "Dynamic"
      BY <1>2, <2>1, <2>2, <3>2 DEF EndpointsOf
    <3>3. CASE q.client = "Override"
      BY <2>1, <2>2, <3>3 DEF EndpointsOf
    <3>4. QED
      BY <2>2, <3>1, <3>2, <3>3
  <2>4. CASE e = NoNode
    BY <2>1, <2>4, IdleIsSound DEF GoesOn, Moves
  <2>5. CASE e # NoNode
    <3>1. PICK g : g = Resolved(q, e)
      OBVIOUS
    <3>2. /\ g \in Request /\ g.pc = "Start" /\ g.endpoint = e /\ ~g.asked
          /\ g.plan = q.plan /\ g.reporter = q.reporter /\ g.attempt = 0
      BY <1>1, <2>2, <2>3, <3>1, ResolvedFields
    <3>3. Sound(g) /\ Chosen(g, witnessed'[r])
      BY <2>3, <2>5, <3>2, RequestsAssumption DEF Sound, Begins, Addressed, Routed, Announced, Chosen
    <3>4. QED
      BY <2>1, <2>5, <3>1, <3>2, <3>3 DEF GoesOn, Moves
  <2>6. QED
    BY <2>4, <2>5
<1>6. QED
  BY <1>3, <1>4, <1>5, <1>7

(* The attempt the SDK starts, and the choice of its node.                 *)
LEMMA RoutingIsSound ==
    ASSUME TypeOK, NEW r \in Requester, Sound(request[r]),
           Watched(request[r], witnessed[r], statuses), Chosen(request[r], witnessed[r]),
           StartAttempt(r) \/ SelectAttemptNode(r) \/ SelectNextNode(r)
    PROVE  GoesOn(r)
<1> DEFINE q == request[r]
<1>1. q \in Request /\ config \in Config
  BY DEF TypeOK
<1>2. q.attempt \in Nat
  BY <1>1, RequestsAssumption DEF Request
<1>3. CASE StartAttempt(r)
  <2>1. /\ q.reporter => q.endpoint \in Node
        /\ q.plan # NoNode => q.endpoint = q.plan
        /\ q.attempt < MaxAttempts
        /\ ~q.asked
    BY <1>3 DEF StartAttempt, At, Sound, Begins, Addressed
  <2>2. request' = [request EXCEPT ![r] = Started(q)]
    BY <1>3 DEF StartAttempt, Started
  <2>3. PICK g : g = Started(q)
    OBVIOUS
  <2>4. /\ g \in Request /\ g.pc \in {"Select", "Send"} /\ (g.pc = "Send" => ~config.wrapped)
        /\ g.attempt = q.attempt + 1 /\ g.uri = q.endpoint /\ g.node = NoNode
        /\ ~g.compressed /\ "content-encoding" \notin g.headers
        /\ g.endpoint = q.endpoint /\ g.plan = q.plan /\ g.reporter = q.reporter
        /\ ~g.asked
    BY <1>1, <2>1, <2>3, StartedFields
  <2>5. Addressed(g)
    BY <1>2, <2>1, <2>4, RequestsAssumption DEF Addressed
  <2>6. Begins(g) /\ Routed(g) /\ Announced(g) /\ Chosen(g, witnessed'[r])
    BY <2>1, <2>4 DEF Begins, Routed, Announced, Chosen
  <2>7. QED
    BY <2>2, <2>3, <2>4, <2>5, <2>6 DEF GoesOn, Moves, Sound
<1>4. CASE SelectAttemptNode(r)
  <2>1. q.pc = "Select" /\ q.node = NoNode /\ ~q.asked
    BY <1>4 DEF SelectAttemptNode, At, Sound, Begins, Routed
  <2>2. CASE ~IsAlternatorEndpoint(q.uri)
    <3>1. request' = [request EXCEPT ![r] = GoneTo(q, "Send")]
      BY <1>4, <2>2 DEF SelectAttemptNode, GoneTo
    <3>2. PICK g : g = GoneTo(q, "Send")
      OBVIOUS
    <3>3. g \in Request /\ g.pc = "Send" /\ SameOperation(q, g) /\ SameMessage(q, g)
      BY <1>1, <3>2, GoneToFields
    <3>4. q.uri # Override
      BY <2>2 DEF IsAlternatorEndpoint
    <3>5. Sound(g) /\ Chosen(g, witnessed'[r])
      BY <2>1, <3>3, <3>4
         DEF Sound, Begins, Addressed, Routed, Announced, Chosen, SameOperation, SameMessage
    <3>6. QED
      BY <3>1, <3>2, <3>3, <3>5 DEF GoesOn, Moves
  <2>3. CASE IsAlternatorEndpoint(q.uri) /\ KeepsEndpoint(q)
    <3>1. request' = [request EXCEPT ![r] = Kept(q)]
      BY <1>4, <2>3 DEF SelectAttemptNode, Kept
    <3>2. PICK g : g = Kept(q)
      OBVIOUS
    <3>3. q.uri \in Node /\ q.uri # Override /\ q.attempt \notin 2 .. 9
      BY <1>2, <2>3 DEF IsAlternatorEndpoint, Known, KeepsEndpoint, IsFirstSdkAttempt
    <3>4. /\ g \in Request /\ g.pc = "Send" /\ SameOperation(q, g)
          /\ g.uri = q.uri /\ g.node = q.uri /\ g.asked = q.asked
          /\ g.headers = q.headers /\ g.compressed = q.compressed
      BY <1>1, <3>2, <3>3, KeptFields
    <3>5. Sound(g) /\ Chosen(g, witnessed'[r])
      BY <2>1, <3>3, <3>4 DEF Sound, Begins, Addressed, Routed, Announced, Chosen, SameOperation
    <3>6. QED
      BY <3>1, <3>2, <3>4, <3>5 DEF GoesOn, Moves
  <2>4. CASE IsAlternatorEndpoint(q.uri) /\ ~KeepsEndpoint(q)
    <3>1. request' = [request EXCEPT ![r] = GoneTo(q, "NextNode")]
      BY <1>4, <2>4 DEF SelectAttemptNode, GoneTo
    <3>2. PICK g : g = GoneTo(q, "NextNode")
      OBVIOUS
    <3>3. g \in Request /\ g.pc = "NextNode" /\ SameOperation(q, g) /\ SameMessage(q, g)
      BY <1>1, <3>2, GoneToFields
    <3>4. ~KeepsEndpoint(g)
      BY <2>4, <3>3 DEF KeepsEndpoint, SameOperation, SameMessage
    <3>5. Sound(g) /\ Chosen(g, witnessed'[r])
      BY <2>1, <3>3, <3>4
         DEF Sound, Begins, Addressed, Routed, Announced, Chosen, SameOperation, SameMessage
    <3>6. QED
      BY <3>1, <3>2, <3>3, <3>5 DEF GoesOn, Moves
  <2>5. QED
    BY <2>2, <2>3, <2>4
<1>5. CASE SelectNextNode(r)
  <2>1. PICK n \in NextNode(q) : request' = [request EXCEPT ![r] = Sent(q, n)]
    BY <1>5 DEF SelectNextNode, Sent
  <2>2. PICK g : g = Sent(q, n)
    OBVIOUS
  <2>3. /\ n \in Node \cup {NoNode}
        /\ n = NoNode => q.candidates = {} /\ GetQuarantinedNodes(statuses) = {}
        /\ n # NoNode => n \in q.candidates \cup GetQuarantinedNodes(statuses)
    BY <1>1, NextNodeIsNode
  <2>4. /\ g \in Request /\ g.pc = "Send" /\ SameOperation(q, g)
        /\ g.node = n /\ ~g.asked /\ (n # NoNode => g.uri = n)
        /\ g.headers = q.headers /\ g.compressed = q.compressed
    BY <1>1, <2>2, <2>3, SentFields
  <2>5. q.pc = "NextNode" /\ ~KeepsEndpoint(q)
    BY <1>5 DEF SelectNextNode, At, Sound, Routed
  <2>6. ~(q.attempt = 1 /\ q.plan # NoNode)
    <3>1. SUFFICES ASSUME q.attempt = 1, q.plan # NoNode
                   PROVE  FALSE
      OBVIOUS
    <3>2. q.uri = q.plan /\ q.plan \in Node
      BY <1>1, <2>5, <3>1 DEF Sound, Routed, Request
    <3>3. q.uri # Override
      BY <3>2, RequestsAssumption
    <3>4. QED
      BY <2>5, <3>1, <3>3 DEF KeepsEndpoint, IsFirstSdkAttempt
  <2>7. Routed(g)
    BY <2>3, <2>4, <2>6, RequestsAssumption DEF Routed, SameOperation
  <2>8. Begins(g) /\ Addressed(g) /\ Announced(g)
    BY <2>4, <2>5 DEF Sound, Begins, Addressed, Announced, SameOperation
  <2>9. Chosen(g, witnessed'[r])
    <3>1. request'[r] = g
      BY <2>1, <2>2 DEF TypeOK
    <3>2. witnessed'[r] = witnessed[r]
      BY <1>5, <2>4, <3>1, WitnessingSees DEF SelectNextNode, Follows
    <3>3. /\ q.candidates \subseteq witnessed[r].usable
          /\ q.candidates = {} => witnessed[r].inactive
          /\ GetQuarantinedNodes(statuses) \subseteq witnessed[r].usable
          /\ witnessed[r].inactive /\ GetQuarantinedNodes(statuses) = {} => witnessed[r].drained
      BY <1>5, <2>5 DEF SelectNextNode, Watched, Chosen
    <3>4. n = NoNode => witnessed[r].drained
      BY <2>3, <3>3
    <3>5. n # NoNode => g.uri \in witnessed[r].usable /\ g.uri # Override
      BY <2>3, <2>4, <3>3, RequestsAssumption
    <3>6. QED
      BY <2>4, <3>2, <3>4, <3>5 DEF Chosen
  <2>10. QED
    BY <2>1, <2>2, <2>4, <2>7, <2>8, <2>9 DEF GoesOn, Moves, Sound
<1>6. QED
  BY <1>3, <1>4, <1>5

(* The answer, its report, and what comes after it.                        *)
LEMMA AnsweringIsSound ==
    ASSUME TypeOK, NEW r \in Requester, Sound(request[r]),
           \/ Send(r) \/ CompressThrows(r) \/ ReportAttempt(r) \/ DecodeThrows(r)
           \/ Retry(r) \/ Return(r)
    PROVE  GoesOn(r)
<1> DEFINE q == request[r]
<1>1. q \in Request /\ config \in Config
  BY DEF TypeOK
<1>2. CASE Send(r)
  <2>1. PICK compresses \in {FALSE, config.compressor}, answer \in Response \ {"None"} :
          request' = [request EXCEPT ![r] = Answered(q, compresses, answer)]
    BY <1>2 DEF Send, Answered
  <2>2. q.pc = "Send" /\ ~q.asked /\ ~q.compressed /\ "content-encoding" \notin q.headers
    BY <1>2 DEF Send, At, Sound, Begins, Announced
  <2>3. PICK g : g = Answered(q, compresses, answer)
    OBVIOUS
  <2>4. /\ g \in Request /\ g.pc = "Answered" /\ SameOperation(q, g)
        /\ g.uri = q.uri /\ g.node = q.node /\ g.asked = q.asked
        /\ g.compressed <=> "content-encoding" \in g.headers
    BY <1>1, <2>2, <2>3, AnsweredFields
  <2>5. Sound(g) /\ Chosen(g, witnessed'[r])
    BY <2>2, <2>4 DEF Sound, Begins, Addressed, Routed, Announced, Chosen, SameOperation
  <2>6. QED
    BY <2>1, <2>3, <2>4, <2>5 DEF GoesOn, Moves
<1>3. CASE CompressThrows(r) \/ DecodeThrows(r) \/ Return(r)
  BY <1>3, IdleIsSound DEF CompressThrows, DecodeThrows, Return, GoesOn, Moves
<1>4. CASE ReportAttempt(r)
  <2>1. q.pc = "Answered" /\ request' = [request EXCEPT ![r] = GoneTo(q, "Decide")]
    BY <1>4 DEF TypeOK, ReportAttempt, At, GoneTo
  <2>2. PICK g : g = GoneTo(q, "Decide")
    OBVIOUS
  <2>3. g \in Request /\ g.pc = "Decide" /\ SameOperation(q, g) /\ SameMessage(q, g)
    BY <1>1, <2>2, GoneToFields
  <2>4. Sound(g) /\ Chosen(g, witnessed'[r])
    BY <2>1, <2>3
       DEF Sound, Begins, Addressed, Routed, Announced, Chosen, SameOperation, SameMessage
  <2>5. QED
    BY <2>1, <2>2, <2>3, <2>4 DEF GoesOn, Moves
<1>5. CASE Retry(r)
  <2>1. /\ q.pc = "Decide" /\ q.attempt < MaxAttempts
        /\ request' = [request EXCEPT ![r] = GoneTo(q, "Start")]
    BY <1>5 DEF TypeOK, Retry, At, GoneTo
  <2>2. PICK g : g = GoneTo(q, "Start")
    OBVIOUS
  <2>3. g \in Request /\ g.pc = "Start" /\ SameOperation(q, g) /\ SameMessage(q, g)
    BY <1>1, <2>2, GoneToFields
  <2>4. Sound(g) /\ Chosen(g, witnessed'[r])
    BY <2>1, <2>3
       DEF Sound, Begins, Addressed, Routed, Announced, Chosen, SameOperation, SameMessage
  <2>5. QED
    BY <2>1, <2>2, <2>3, <2>4 DEF GoesOn, Moves
<1>6. QED
  BY <1>2, <1>3, <1>4, <1>5

-----------------------------------------------------------------------------
(* The theorems.                                                           *)

(* Reports and counts are of the right type whatever the node.             *)
LEMMA ReportTypes ==
    ASSUME TypeOK, NEW n, NEW o \in NodeHealthObservation
    PROVE  /\ ReportResult(statuses, n, o) \in StatusMap
           /\ Failed(n, o) \in [Node -> 0 .. ErrorThreshold]
<1>1. ReportResult(statuses, n, o) \in StatusMap
  BY ReportKeepsKnown DEF TypeOK
<1>2. ErrorThreshold \in Nat
  BY Thresholds, ConfigAssumption DEF Counter
<1>3. CASE n \notin Node \/ o = "Success"
  BY <1>1, <1>3 DEF Failed, TypeOK
<1>4. CASE n \in Node /\ o = "ConnectionFailure"
  BY <1>1, <1>2, <1>4 DEF Failed, TypeOK
<1>5. CASE n \in Node /\ o = "ServerError"
  BY <1>1, <1>2, <1>5 DEF Failed, TypeOK
<1>6. QED
  BY <1>3, <1>4, <1>5 DEF NodeHealthObservation

(* An operation keeps the configuration and the types of the rest.         *)
LEMMA OperationKeepsTypes ==
    ASSUME TypeOK, NEW r \in Requester, BeginOperation(r) \/ Operation(r)
    PROVE  /\ config' = config /\ statuses' \in StatusMap
           /\ failures' \in [Node -> 0 .. ErrorThreshold]
           /\ Witnessing
<1>1. CASE Send(r)
  <2>1. \A response : ObservationFromHttpResult(response) \in NodeHealthObservation
    BY DEF ObservationFromHttpResult, NodeHealthObservation
  <2>2. \E n, o : o \in NodeHealthObservation /\ failures' = Failed(n, o)
    BY <1>1, <2>1 DEF Send
  <2>3. QED
    BY <1>1, <2>2, ReportTypes DEF Send, TypeOK
<1>2. CASE ReportAttempt(r)
  <2>1. ObservationFromHttpResult(request[r].response) \in NodeHealthObservation
    BY DEF ObservationFromHttpResult, NodeHealthObservation
  <2>2. QED
    BY <1>2, <2>1, ReportTypes DEF ReportAttempt, TypeOK
<1>3. CASE Retry(r)
  <2>1. "ServerError" \in NodeHealthObservation
    BY DEF NodeHealthObservation
  <2>2. QED
    BY <1>3, <2>1, ReportTypes DEF Retry, TypeOK
<1>4. CASE ~Send(r) /\ ~ReportAttempt(r) /\ ~Retry(r)
  BY <1>4 DEF TypeOK, BeginOperation, Operation, NewDynamoDBForQueryPlan, ResolveEndpoint,
          StartAttempt, SelectAttemptNode, SelectNextNode, CompressThrows, DecodeThrows, Return,
          ReadActive, MakePlan
<1>5. QED
  BY <1>1, <1>2, <1>3, <1>4

(* So do the environment's reports, additions and removals.                *)
LEMMA OthersKeepTypes ==
    ASSUME TypeOK, NEW n \in Node,
           \/ \E o \in NodeHealthObservation : OtherReport(n, o)
           \/ OtherAdd(n) \/ OtherRemove(n)
    PROVE  /\ request' = request /\ config' = config /\ statuses' \in StatusMap
           /\ failures' \in [Node -> 0 .. ErrorThreshold]
           /\ Witnessing
<1>1. ASSUME NEW o \in NodeHealthObservation, OtherReport(n, o)
      PROVE  /\ request' = request /\ config' = config /\ statuses' \in StatusMap
             /\ failures' \in [Node -> 0 .. ErrorThreshold]
             /\ Witnessing
  BY <1>1, ReportTypes DEF OtherReport, TypeOK
<1>2. CASE OtherAdd(n) \/ OtherRemove(n)
  BY <1>2, AddAndRemoveKnown DEF OtherAdd, OtherRemove, TypeOK
<1>3. QED
  BY <1>1, <1>2

(* The ghosts keep their types.                                            *)
LEMMA WitnessesAreTyped ==
    ASSUME TypeOK, Witnessing
    PROVE  witnessed' \in [Requester -> Witness]
<1>1. CASE Requester = {}
  BY <1>1 DEF Witnessing
<1>2. CASE Requester # {}
  BY <1>2, WitnessingSees
<1>3. QED
  BY <1>1, <1>2

(* A request that stays as it is stays sound with the ghost that follows.  *)
LEMMA ChosenStays ==
    ASSUME NEW q, NEW w, NEW v, Chosen(q, w), Follows(q, w, v)
    PROVE  Chosen(q, v)
<1>1. CASE q.pc = "NextNode"
  BY <1>1 DEF Chosen, Follows
<1>2. CASE q.pc = "Send"
  BY <1>2 DEF Chosen, Follows
<1>3. CASE q.pc # "NextNode" /\ q.pc # "Send"
  BY <1>3 DEF Chosen
<1>4. QED
  BY <1>1, <1>2, <1>3

(* The initial state is sound.                                             *)
LEMMA InitIsSound == Init => RequestsAreSound
<1>1. SUFFICES ASSUME Init
               PROVE  RequestsAreSound
  OBVIOUS
<1>2. NewStatus \in NodeHealthStatus
  BY Thresholds DEF NewStatus, NodeHealthStatus, NodeHealthState
<1>3. NewStore(InitialNode) \in StatusMap
  BY <1>2 DEF NewStore, StatusMap
<1>4. ErrorThreshold \in Nat
  BY Thresholds, ConfigAssumption DEF Counter
<1>5. TypeOK
  BY <1>1, <1>3, <1>4, IdleIsSound DEF Init, TypeOK, NoWitness, Witness
<1>6. IdleRequest.pc = "Idle"
  BY DEF IdleRequest
<1>7. \A r \in Requester : request[r] = IdleRequest /\ Watched(request[r], witnessed[r], statuses)
  BY <1>1, <1>6 DEF Init, Watched
<1>8. QED
  BY <1>5, <1>7, IdleIsSound DEF RequestsAreSound

(* Every step keeps every request sound.                                   *)
LEMMA NextIsSound == RequestsAreSound /\ [Next]_vars => RequestsAreSound'
<1>1. ASSUME RequestsAreSound, NEW r \in Requester, BeginOperation(r) \/ Operation(r)
      PROVE  RequestsAreSound'
  <2>1. TypeOK /\ \A o \in Requester :
          /\ Sound(request[o])
          /\ Watched(request[o], witnessed[o], statuses)
          /\ Chosen(request[o], witnessed[o])
    BY <1>1 DEF RequestsAreSound
  <2>2. GoesOn(r)
    BY <1>1, <2>1, ReadingIsSound, BeginningIsSound, RoutingIsSound, AnsweringIsSound DEF Operation
  <2>3. PICK g : Moves(r, g) /\ Sound(g) /\ Chosen(g, witnessed'[r])
    BY <2>2 DEF GoesOn
  <2>4. /\ config' = config /\ statuses' \in StatusMap
        /\ failures' \in [Node -> 0 .. ErrorThreshold]
        /\ Witnessing
    BY <1>1, <2>1, OperationKeepsTypes
  <2>5. /\ request' \in [Requester -> Request] /\ request'[r] = g
        /\ \A o \in Requester : o # r => request'[o] = request[o]
    BY <2>1, <2>3, MovesOne
  <2>6. TypeOK'
    BY <2>1, <2>4, <2>5, WitnessesAreTyped DEF TypeOK
  <2>7. ASSUME NEW o \in Requester
        PROVE  /\ Sound(request'[o])
               /\ Watched(request'[o], witnessed'[o], statuses')
               /\ Chosen(request'[o], witnessed'[o])
    <3>1. /\ Watched(request'[o], witnessed'[o], statuses')
          /\ Follows(request'[o], witnessed[o], witnessed'[o])
      BY <2>1, <2>4, WitnessingSees
    <3>2. CASE o = r
      BY <2>3, <2>5, <3>1, <3>2
    <3>3. CASE o # r
      <4>1. request'[o] = request[o]
        BY <2>5, <3>3
      <4>2. Chosen(request[o], witnessed'[o])
        BY <2>1, <3>1, <4>1, ChosenStays
      <4>3. QED
        BY <2>1, <3>1, <4>1, <4>2
    <3>4. QED
      BY <3>2, <3>3
  <2>8. QED
    BY <2>4, <2>6, <2>7 DEF RequestsAreSound, Chosen
<1>2. ASSUME RequestsAreSound, NEW n \in Node,
             \/ \E o \in NodeHealthObservation : OtherReport(n, o)
             \/ OtherAdd(n) \/ OtherRemove(n)
      PROVE  RequestsAreSound'
  <2>1. TypeOK /\ \A o \in Requester : Sound(request[o]) /\ Chosen(request[o], witnessed[o])
    BY <1>2 DEF RequestsAreSound
  <2>2. /\ request' = request /\ config' = config /\ statuses' \in StatusMap
        /\ failures' \in [Node -> 0 .. ErrorThreshold]
        /\ Witnessing
    BY <1>2, <2>1, OthersKeepTypes
  <2>3. TypeOK'
    BY <2>1, <2>2, WitnessesAreTyped DEF TypeOK
  <2>4. ASSUME NEW o \in Requester
        PROVE  /\ Sound(request'[o])
               /\ Watched(request'[o], witnessed'[o], statuses')
               /\ Chosen(request'[o], witnessed'[o])
    <3>1. /\ Watched(request'[o], witnessed'[o], statuses')
          /\ Follows(request[o], witnessed[o], witnessed'[o])
      BY <2>1, <2>2, WitnessingSees
    <3>2. Chosen(request[o], witnessed'[o])
      BY <2>1, <3>1, ChosenStays
    <3>3. QED
      BY <2>1, <2>2, <3>1, <3>2
  <2>5. QED
    BY <2>2, <2>3, <2>4 DEF RequestsAreSound, Chosen
<1>3. ASSUME RequestsAreSound, UNCHANGED vars
      PROVE  RequestsAreSound'
  BY <1>3 DEF RequestsAreSound, TypeOK, vars, Watched, Chosen, Sound, Begins, Addressed, Routed,
          Announced
<1>4. QED
  BY <1>1, <1>2, <1>3 DEF Next

(* Every request of every operation is sound, always.                      *)
THEOREM RequestsSound == Spec => []RequestsAreSound
BY InitIsSound, NextIsSound, PTL DEF Spec

(* The variables of every reachable state have their types; in particular  *)
(* an operation never makes more attempts than the strategy allows.        *)
THEOREM TypeCorrect == Spec => []TypeOK
<1>1. RequestsAreSound => TypeOK
  BY DEF RequestsAreSound
<1>2. QED
  BY <1>1, RequestsSound, PTL

(* The first attempt of a routed operation goes to the first node of its   *)
(* query plan, whatever happens to that node in the meantime               *)
(* (NewDynamoDBForQueryPlan, SelectAttemptNode).                           *)
THEOREM FirstAttemptFollows == Spec => []FirstAttemptFollowsPlan
<1>1. RequestsAreSound => FirstAttemptFollowsPlan
  BY DEF RequestsAreSound, Sound, Routed, FirstAttemptFollowsPlan, At
<1>2. QED
  BY <1>1, RequestsSound, PTL

(* A retry goes to a node that was usable at some moment of its choice,    *)
(* for any number of attempts, up to the ninth (SelectAttemptNode).        *)
THEOREM RetriesDoRotate == Spec => []RetriesRotate
<1>1. RequestsAreSound => RetriesRotate
  BY DEF RequestsAreSound, Chosen, RetriesRotate, At
<1>2. QED
  BY <1>1, RequestsSound, PTL

(* The wrapper sends to the override host only if its choice of a node,    *)
(* with the reads of active and of quarantined nodes at different moments, *)
(* fell on a moment without Active nodes and then or later on one without  *)
(* Quarantined ones (NextNode, SelectAttemptNode).                         *)
THEOREM OverrideMeansDrained == Spec => []OverrideOnlyWhenDrained
<1>1. RequestsAreSound => OverrideOnlyWhenDrained
  BY DEF RequestsAreSound, Chosen, OverrideOnlyWhenDrained, At
<1>2. QED
  BY <1>1, RequestsSound, PTL

(* The wrapper reports about the node it asked (MakeRequest).              *)
THEOREM ReportsNameTheirNode == Spec => []ReportsNameTheNodeAsked
<1>1. RequestsAreSound => ReportsNameTheNodeAsked
  BY DEF RequestsAreSound, Sound, Routed, ReportsNameTheNodeAsked, At
<1>2. QED
  BY <1>1, RequestsSound, PTL

(* Compressed bodies, and no others, are announced under every header      *)
(* policy (CompressAwsRequestBody, BuildHeaderOptimizationPolicy).         *)
THEOREM CompressionAnnounced == Spec => []CompressionIsAnnounced
<1>1. RequestsAreSound => CompressionIsAnnounced
  BY DEF RequestsAreSound, Sound, Announced, CompressionIsAnnounced, At
<1>2. QED
  BY <1>1, RequestsSound, PTL
=============================================================================
