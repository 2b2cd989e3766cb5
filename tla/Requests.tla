------------------------------ MODULE Requests ------------------------------
(***************************************************************************)
(* An operation of DynamoDBHelper on its way through the AWS SDK           *)
(* (aws_dynamodb_helper.cpp, aws/dynamodb_helper.h): the client made for   *)
(* it, the endpoint it resolves, and every attempt, with the HTTP client   *)
(* wrapper that picks the node of a retry, compresses the body, trims the  *)
(* headers and reports the result, and the handlers that report a retry.   *)
(*                                                                         *)
(* Of AlternatorLiveNodes only the health of each known node is kept.      *)
(* NextNode and the query plans read the active nodes and, at a later      *)
(* moment, the quarantined ones, with anything in between (LiveNodes has   *)
(* them read by read).  Everything else that reports results or changes    *)
(* the node list, the probes of NextNode too, is an action of the          *)
(* environment.  The SDK is external: it resolves the endpoint once for an *)
(* operation, builds a fresh HTTP request for every attempt, numbers them, *)
(* and retries what failed.                                                *)
(***************************************************************************)
EXTENDS HealthRules

CONSTANTS
    InitialNode,   \* the nodes the helper starts with
    Requester,     \* threads that perform operations
    MaxAttempts,   \* attempts the SDK's retry strategy allows
    NoNode,        \* an empty Url
    Override       \* kEndpointOverrideHost: a host name that is no node

ASSUME RequestsAssumption ==
    /\ InitialNode \subseteq Node /\ InitialNode # {}
    /\ MaxAttempts \in Nat \ {0}
    /\ NoNode \notin Node /\ Override \notin Node /\ Override # NoNode

VARIABLES
    config,          \* wrapper installed, compressor and header policy set
    statuses,        \* the health of every known node
    request,         \* request[r]: the operation of r
    failures,        \* ghost: how often each node really failed
    witnessed        \* ghost: what each choice of the wrapper could have seen

vars == <<config, statuses, request, failures, witnessed>>

-----------------------------------------------------------------------------
(* wrapped: was ApplyToSDKOptions called; allowlist: no header             *)
(* optimization, the default one, or an application's list that has none   *)
(* of the headers of compression.                                          *)
Config == [wrapped : BOOLEAN, compressor : BOOLEAN, allowlist : {"Off", "Default", "Custom"}]

(* Whose endpoint provider: FixedEndpointProvider for the plan's node,     *)
(* AlternatorEndpointProvider, or none.  The fixed clients are kept in     *)
(* fixed_clients_ and used again; a new one would not behave differently.  *)
Client == {"None", "Fixed", "Dynamic", "Override"}
Header == {"amz-sdk-request", "accept-encoding", "content-encoding", "content-length"}

(* Ok: success or an error the SDK does not retry; Throttled: a 4xx that   *)
(* it does.  None: the attempt has not been answered.                      *)
Response == {"None", "Ok", "Throttled", "ServerError", "NoConnection"}

(* plan: the first node of the query plan; client: whose endpoint provider *)
(* is used; reporter: was AttachNodeErrorReporter applied; uri: where the  *)
(* HTTP request goes; endpoint: what the SDK resolved; last_node: of the   *)
(* reporter; node: what SelectAttemptNode returned; asked, candidates: has *)
(* the choice of a node read the active nodes, and which were they.        *)
Request ==
    [pc : {"Idle", "Plan", "Client", "Resolve", "Start", "Select", "NextNode", "Send",
           "Answered", "Decide"},
     plan : Node \cup {NoNode}, client : Client, reporter : BOOLEAN,
     endpoint : Node \cup {NoNode, Override}, attempt : 0 .. MaxAttempts,
     uri : Node \cup {NoNode, Override}, last_node : Node \cup {NoNode},
     node : Node \cup {NoNode}, asked : BOOLEAN, candidates : SUBSET Node,
     headers : SUBSET Header, compressed : BOOLEAN, response : Response]

IdleRequest ==
    [pc |-> "Idle", plan |-> NoNode, client |-> "None", reporter |-> FALSE, endpoint |-> NoNode,
     attempt |-> 0, uri |-> NoNode, last_node |-> NoNode, node |-> NoNode,
     asked |-> FALSE, candidates |-> {},
     headers |-> {}, compressed |-> FALSE, response |-> "None"]

(* Since SelectAttemptNode was called: the nodes that were ever usable,    *)
(* whether there was a moment without an Active node (inactive), and one   *)
(* without a Quarantined node at that moment or after it (drained).        *)
Witness == [usable : SUBSET Node, inactive : BOOLEAN, drained : BOOLEAN]

NoWitness == [usable |-> {}, inactive |-> FALSE, drained |-> FALSE]

TypeOK ==
    /\ config \in Config
    /\ statuses \in StatusMap
    /\ request \in [Requester -> Request]
    /\ failures \in [Node -> 0 .. ErrorThreshold]
    /\ witnessed \in [Requester -> Witness]

Init ==
    /\ config \in Config
    /\ statuses = NewStore(InitialNode)
    /\ request = [r \in Requester |-> IdleRequest]
    /\ failures = [n \in Node |-> 0]
    /\ witnessed = [r \in Requester |-> NoWitness]

At(r, label) == request[r].pc = label

(* The ghost follows every step while the wrapper chooses a node, and      *)
(* keeps what it has seen until the request is sent.                       *)
Witnessing ==
    witnessed' = [r \in Requester |->
        LET w == witnessed[r]
            active == GetActiveNodes(statuses')
            quarantined == GetQuarantinedNodes(statuses')
            inactive == w.inactive \/ active = {} IN
        CASE request'[r].pc \in {"Select", "NextNode"} ->
                [usable |-> w.usable \cup active \cup quarantined,
                 inactive |-> inactive,
                 drained |-> w.drained \/ (inactive /\ quarantined = {})]
          [] request'[r].pc = "Send" -> w
          [] OTHER -> NoWitness]

-----------------------------------------------------------------------------
(* The choice of a node, for a query plan, for an endpoint or for a retry. *)

Chooses(q) ==
    \/ q.pc \in {"Plan", "NextNode"}
    \/ q.pc = "Resolve" /\ q.client = "Dynamic"

(* The reading of the active nodes that counts: the last one.  NextNode    *)
(* drops an empty first reading and probes the Down nodes before the       *)
(* second.  A keyed plan reads both sets more often, and puts a node of    *)
(* any reading first: it could have been chosen at that reading.           *)
ReadActive(r) ==
    /\ Chooses(request[r]) /\ ~request[r].asked
    /\ request' = [request EXCEPT ![r].asked = TRUE, ![r].candidates = GetActiveNodes(statuses)]
    /\ UNCHANGED <<config, statuses, failures>>
    /\ Witnessing

(* Mutant: the quarantined nodes do not count.                             *)
NextNodeActiveOnly(q) == IF q.candidates = {} THEN {NoNode} ELSE q.candidates

(* The reading of the quarantined nodes that counts, and the choice: one   *)
(* of them if the turn is theirs or no active node was found.              *)
NextNode(q) ==
    LET found == q.candidates \cup GetQuarantinedNodes(statuses) IN
    IF found = {} THEN {NoNode} ELSE found

-----------------------------------------------------------------------------
(* PutItem and its like make a query plan and attach the reporter; an      *)
(* application's own client comes from NewDynamoDB, or is built from       *)
(* NewClientConfiguration alone, whose endpoint is the override host.      *)
BeginOperation(r) ==
    /\ At(r, "Idle")
    /\ \/ request' = [request EXCEPT ![r].pc = "Plan", ![r].reporter = TRUE]
       \/ \E c \in {"Dynamic", "Override"} :
            request' = [request EXCEPT ![r].pc = "Resolve", ![r].client = c]
    /\ UNCHANGED <<config, statuses, failures>>
    /\ Witnessing

(* The first node of the query plan.                                       *)
MakePlan(r) ==
    /\ At(r, "Plan") /\ request[r].asked
    /\ \E n \in NextNode(request[r]) :
         request' = [request EXCEPT ![r].pc = "Client", ![r].plan = n,
                                    ![r].asked = FALSE, ![r].candidates = {}]
    /\ UNCHANGED <<config, statuses, failures>>
    /\ Witnessing

(* NewDynamoDBForQueryPlan, NewDynamoDBForNode.                            *)
NewDynamoDBForQueryPlan(r) ==
    /\ At(r, "Client")
    /\ request' = [request EXCEPT ![r].pc = "Resolve",
                                  ![r].client = IF request[r].plan = NoNode THEN "Dynamic" ELSE "Fixed"]
    /\ UNCHANGED <<config, statuses, failures>>
    /\ Witnessing

(* What the endpoint provider of a client may resolve to: the node it was  *)
(* made for, the next node, or the SDK's own answer for the override.      *)
EndpointsOf(q) ==
    CASE q.client = "Fixed" -> {q.plan}
      [] q.client = "Dynamic" -> NextNode(q)
      [] q.client = "Override" -> {Override}

(* ResolveEndpoint: without any node the operation fails at once.          *)
ResolveEndpoint(r) ==
    LET q == request[r] IN
    /\ At(r, "Resolve") /\ q.asked = Chooses(q)
    /\ \E e \in EndpointsOf(q) :
         request' = [request EXCEPT ![r] = IF e = NoNode THEN IdleRequest
                                           ELSE [q EXCEPT !.endpoint = e, !.pc = "Start",
                                                          !.asked = FALSE, !.candidates = {}]]
    /\ UNCHANGED <<config, statuses, failures>>
    /\ Witnessing

(* The SDK builds and signs the HTTP request of an attempt, and calls the  *)
(* signed handler.                                                         *)
StartAttempt(r) ==
    LET q == request[r] IN
    /\ At(r, "Start")
    /\ request' = [request EXCEPT ![r] = [q EXCEPT
            !.pc = IF config.wrapped THEN "Select" ELSE "Send",
            !.attempt = @ + 1, !.uri = q.endpoint, !.node = NoNode,
            !.headers = {"amz-sdk-request", "content-length"}, !.compressed = FALSE,
            !.response = "None",
            !.last_node = IF q.reporter THEN q.endpoint ELSE @]]
    /\ UNCHANGED <<config, statuses, failures>>
    /\ Witnessing

(* Mutant: every attempt asks for a node.                                  *)
IsFirstSdkAttemptNever(attempt) == FALSE

(* Mutant: a retry is taken for a first attempt.                           *)
IsFirstSdkAttemptAlways(attempt) == TRUE

(* The header's attempt number is recognized by its first digit.           *)
IsFirstSdkAttempt(attempt) == attempt = 1 \/ attempt \in 10 .. 19

KeepsEndpoint(q) == IsFirstSdkAttempt(q.attempt) /\ q.uri # Override

IsAlternatorEndpoint(uri) == uri = Override \/ uri \in Known(statuses)

(* SelectAttemptNode: an endpoint that is not known (any more) is left     *)
(* alone, a first attempt stays where the plan sent it, ...                *)
SelectAttemptNode(r) ==
    LET q == request[r] IN
    /\ At(r, "Select")
    /\ request' = [request EXCEPT ![r] =
            CASE ~IsAlternatorEndpoint(q.uri) -> [q EXCEPT !.pc = "Send"]
              [] IsAlternatorEndpoint(q.uri) /\ KeepsEndpoint(q) ->
                    [q EXCEPT !.pc = "Send", !.node = q.uri]
              [] OTHER -> [q EXCEPT !.pc = "NextNode"]]
    /\ UNCHANGED <<config, statuses, failures>>
    /\ Witnessing

(* Mutant: the request is not rewritten.                                   *)
RewriteRequestEndpointNot(q, n) == [q EXCEPT !.node = n]

RewriteRequestEndpoint(q, n) ==
    [q EXCEPT !.node = n, !.uri = IF n = NoNode THEN @ ELSE n]

(* ... and a retry is rewritten to the next node, if there is one.         *)
SelectNextNode(r) ==
    /\ At(r, "NextNode") /\ request[r].asked
    /\ \E n \in NextNode(request[r]) :
         request' = [request EXCEPT ![r] =
             [RewriteRequestEndpoint(request[r], n) EXCEPT !.pc = "Send",
                                                           !.asked = FALSE, !.candidates = {}]]
    /\ UNCHANGED <<config, statuses, failures>>
    /\ Witnessing

-----------------------------------------------------------------------------
(* Mutant: an application's allowlist is taken as it is.                   *)
AllowedHeadersAsGiven ==
    CASE config.allowlist = "Off" -> Header
      [] config.allowlist = "Default" -> Header \ {"amz-sdk-request"}
      [] config.allowlist = "Custom" -> {}

(* BuildHeaderOptimizationPolicy.                                          *)
AllowedHeaders ==
    CASE config.allowlist = "Off" -> Header
      [] config.allowlist = "Default" -> Header \ {"amz-sdk-request"}
      [] config.allowlist = "Custom" ->
            IF config.compressor THEN {"content-encoding", "content-length"} ELSE {}

(* The body is compressed unless the compressor declines.                  *)
CompressAwsRequestBody(q, compresses) ==
    IF compresses THEN [q EXCEPT !.compressed = TRUE, !.headers = @ \cup {"content-encoding"}] ELSE q

(* Headers that are not allowed go.                                        *)
OptimizeRequestHeaders(q) == [q EXCEPT !.headers = @ \cap AllowedHeaders]

(* What the wrapper makes of a request to a node it knows (decoders are    *)
(* configured, and offered).                                               *)
Prepared(q, compresses) ==
    IF q.node = NoNode THEN q
    ELSE OptimizeRequestHeaders(
            CompressAwsRequestBody([q EXCEPT !.headers = @ \cup {"accept-encoding"}], compresses))

ObservationFromHttpResult(response) ==
    CASE response = "NoConnection" -> "ConnectionFailure"
      [] response = "ServerError" -> "ServerError"
      [] OTHER -> "Success"

(* The ghost counts the failed answers of a node, up to the threshold, and *)
(* is kinder to the code than "consecutive": a success does not reset it.  *)
Failed(n, observation) ==
    CASE n \notin Node \/ observation = "Success" -> failures
      [] observation = "ConnectionFailure" -> [failures EXCEPT ![n] = ErrorThreshold]
      [] OTHER -> [failures EXCEPT ![n] = IF @ < ErrorThreshold THEN @ + 1 ELSE @]

(* MakeRequest up to the answer.  The ghost sees what the node answers.    *)
Send(r) ==
    /\ At(r, "Send")
    /\ \E compresses \in {FALSE, config.compressor}, answer \in Response \ {"None"} :
         LET q == Prepared(request[r], compresses) IN
         /\ q.uri = Override => answer = "NoConnection"
         /\ request' = [request EXCEPT ![r] = [q EXCEPT !.response = answer, !.pc = "Answered"]]
         /\ failures' = Failed(q.uri, ObservationFromHttpResult(answer))
    /\ UNCHANGED <<config, statuses>>
    /\ Witnessing

(* Compress, or a body that cannot be rewound, throws: nothing is sent,    *)
(* and the exception ends the operation.                                   *)
CompressThrows(r) ==
    /\ At(r, "Send") /\ config.compressor /\ request[r].node # NoNode
    /\ request' = [request EXCEPT ![r] = IdleRequest]
    /\ UNCHANGED <<config, statuses, failures>>
    /\ Witnessing

(* The rest of MakeRequest: the report.                                    *)
ReportAttempt(r) ==
    LET q == request[r] IN
    /\ At(r, "Answered")
    /\ statuses' = IF q.node = NoNode THEN statuses
                   ELSE ReportResult(statuses, q.node, ObservationFromHttpResult(q.response))
    /\ request' = [request EXCEPT ![r].pc = "Decide"]
    /\ UNCHANGED <<config, failures>>
    /\ Witnessing

(* DecodeCompressedAwsResponse throws before the report: the operation     *)
(* ends and nothing is reported.                                           *)
DecodeThrows(r) ==
    /\ At(r, "Answered") /\ request[r].node # NoNode /\ request[r].response # "NoConnection"
    /\ request' = [request EXCEPT ![r] = IdleRequest]
    /\ UNCHANGED <<config, statuses, failures>>
    /\ Witnessing

(* The SDK retries and calls the retry handler of AttachNodeErrorReporter, *)
(* which reports a server error of the endpoint that was signed.           *)
Retry(r) ==
    LET q == request[r] IN
    /\ At(r, "Decide") /\ q.response # "Ok" /\ q.attempt < MaxAttempts
    /\ statuses' = IF q.last_node = NoNode THEN statuses
                   ELSE ReportResult(statuses, q.last_node, "ServerError")
    /\ request' = [request EXCEPT ![r].pc = "Start"]
    /\ UNCHANGED <<config, failures>>
    /\ Witnessing

Return(r) ==
    /\ At(r, "Decide") /\ (request[r].response = "Ok" \/ request[r].attempt = MaxAttempts)
    /\ request' = [request EXCEPT ![r] = IdleRequest]
    /\ UNCHANGED <<config, statuses, failures>>
    /\ Witnessing

-----------------------------------------------------------------------------
(* Other requests and probes report what a node really answered; refreshes *)
(* add and remove nodes.                                                   *)
OtherReport(n, observation) ==
    /\ statuses' = ReportResult(statuses, n, observation)
    /\ failures' = Failed(n, observation)
    /\ UNCHANGED <<config, request>>
    /\ Witnessing

OtherAdd(n) ==
    /\ statuses[n] = NoStatus
    /\ statuses' = AddNode(statuses, n)
    /\ UNCHANGED <<config, request, failures>>
    /\ Witnessing

OtherRemove(n) ==
    /\ Known(statuses) \ {n} # {}
    /\ statuses' = RemoveNode(statuses, n)
    /\ UNCHANGED <<config, request, failures>>
    /\ Witnessing

Operation(r) ==
    \/ ReadActive(r) \/ MakePlan(r)
    \/ NewDynamoDBForQueryPlan(r) \/ ResolveEndpoint(r) \/ StartAttempt(r)
    \/ SelectAttemptNode(r) \/ SelectNextNode(r)
    \/ Send(r) \/ CompressThrows(r) \/ ReportAttempt(r) \/ DecodeThrows(r)
    \/ Retry(r) \/ Return(r)

Next ==
    \/ \E r \in Requester : BeginOperation(r) \/ Operation(r)
    \/ \E n \in Node :
         \/ \E observation \in NodeHealthObservation : OtherReport(n, observation)
         \/ OtherAdd(n) \/ OtherRemove(n)

Spec == Init /\ [][Next]_vars

-----------------------------------------------------------------------------
(* Properties.                                                             *)

(* Key route affinity reaches the wire: the first attempt of a routed      *)
(* operation goes to the node its query plan put first, whatever other     *)
(* requests, refreshes and retries do to that node between the plan and    *)
(* the attempt.                                                            *)
FirstAttemptFollowsPlan ==
    \A r \in Requester :
        At(r, "Answered") /\ request[r].attempt = 1 /\ request[r].plan # NoNode
            => request[r].uri = request[r].plan

(* Retries rotate: with the wrapper installed an attempt after the first,  *)
(* up to the ninth, that the wrapper has a node for goes to one that was   *)
(* usable at some moment of the choice, so never back to a node that a     *)
(* failed attempt took down and nothing has brought up since.              *)
RetriesRotate ==
    \A r \in Requester :
        At(r, "Send") /\ config.wrapped /\ request[r].attempt \in 2 .. 9 /\ request[r].node # NoNode
            => request[r].uri \in witnessed[r].usable

(* The wrapper lets the name the SDK is given in place of a node reach the *)
(* network only if, while it chose, there was a moment without an Active   *)
(* node and, then or later, one without a Quarantined node.  As NextNode   *)
(* reads the two at different moments beside the reports of others, it may *)
(* miss a node that is promoted in between, and more than this is not so.  *)
OverrideOnlyWhenDrained ==
    \A r \in Requester :
        At(r, "Send") /\ config.wrapped /\ request[r].uri = Override => witnessed[r].drained

(* The wrapper reports about the node it asked: choice, rewriting and      *)
(* report of an attempt agree although the node may have been removed,     *)
(* taken down or added again in between.                                   *)
ReportsNameTheNodeAsked ==
    \A r \in Requester :
        At(r, "Answered") /\ request[r].node # NoNode => request[r].uri = request[r].node

(* A compressed body is announced as such, whatever the header policy      *)
(* strips, and a plain one is not.                                         *)
CompressionIsAnnounced ==
    \A r \in Requester :
        At(r, "Answered") => (request[r].compressed <=> "content-encoding" \in request[r].headers)

(* "Consecutive 5xx responses mark a node down" (README): a node that is   *)
(* Down has at least answered as many requests with a 5xx as the threshold *)
(* says, or could not be reached.                                          *)
DownIsDeserved ==
    \A n \in Node : statuses[n].state = "Down" => failures[n] >= ErrorThreshold
=============================================================================
