# A verification project for alternator-client-cpp

TLA+ models of the ScyllaDB Alternator C++ client, the TLC runs that
check them and the theorems TLAPS proves about them. `PROJECT.json` is the index:
components, runs, mutants, the map from definitions to source lines, findings,
hazards and theorems.

## The system

The client spreads DynamoDB requests over the nodes of a ScyllaDB cluster. It
discovers the nodes with `GET /localnodes`, keeps a health state for each of them,
chooses nodes for requests, and plugs this into the AWS SDK.

| Component | State | Operations | Talks to |
|---|---|---|---|
| Node health store (`node_health.cpp`) | `statuses_`: state, 5xx count and success count per node, under its own mutex | add, remove, report a result, probe the Down nodes, list nodes by state | called by the registry; calls back into it for a probe |
| Live node registry (`live_nodes.cpp`) | `live_nodes_`, `quarantine_by_hash_` under `mutex_`; three atomic counters | `NextNode`, `GetQueryPlanNodes[ForHash]`, `ReportNodeResult`, `UpdateLiveNodes`, `ProbeDownNodes` | health store; HTTP client; called by request threads and by the background thread |
| Background refresh (`live_nodes.cpp`) | `next_update_`, `last_activity_` under `mutex_`; `background_started_`, `stopping_`, the thread and its condition variable under `background_mutex_` | `MarkActivity`, `Start`, `Stop`, `BackgroundLoop` | every request marks activity; the loop calls `UpdateLiveNodes` and `ProbeDownNodes` |
| Discovery and routing scopes (`live_nodes.cpp`, `routing_scope.cpp`) | none beyond the call | ask nodes scope by scope, fall back, report failing nodes | HTTP client; registry |
| Query plan (`query_plan.cpp`) | remaining nodes of one request, a seeded generator | `Next` | registry, once, lazily |
| Key route affinity (`key_route_affinity.cpp`) | partition key names per table | does a request have an affinity hash, and which | query plan |
| AWS SDK adapter (`aws_dynamodb_helper.cpp`) | one client per node, the last endpoint signed for each operation | resolve an endpoint, select a node per attempt, compress, trim headers, report results | SDK callbacks on any thread; registry |
| Partition key discovery (`aws_dynamodb_helper.cpp`) | names per table; tables in progress and the threads of discoveries, under their own mutexes | read and set a name, trigger a discovery, join at the end | adapter; SDK |
| HTTP compression (`http_compression.cpp`) | none | code and decode bodies, read and write the headers of codings | HTTP client, adapter |
| HTTP client, hashing, random numbers, configuration, URLs | little or none | pure or I/O | everybody |
| Release automation (`scripts/release`) | refs, tags and releases on GitHub | prepare, verify, publish | git, `gh` |

What is hard here is concurrency. Request threads, the background thread and
discovery all act on the health store, whose methods are atomic one by one; every
decision that takes two of them works on a state that may have moved in between. A write reads the name of its partition key up to four
times, while discoveries end and the application sets it. An operation keeps the endpoint
it resolved over all its attempts, while refreshes and reports change what that endpoint
is. The condition variable protocol of the background loop spreads over two mutexes and an
unlocked notification. Probes and refreshes take long, with no lock held, and their
results arrive late. The counters of the health store decide over long sequences of
reports. `hazards` in `PROJECT.json` lists each of these at its line.

What makes the parts correct:

* health store: a node's state is a function of the reports applied to it, as the
  README of the repository describes it, whoever makes them and however late;
* registry: store and node list agree; routing returns usable nodes, misses none that
  was there all the time, and is empty only after it found neither an active nor a
  quarantined node; a hash maps to a quarantined node;
* refresh: refreshes recur, at the configured pace; `Stop` returns and leaves no thread
  behind;
* discovery: does to the registry only what the registry allows, keeps every list it was
  given, leaves a scope only if the nodes that stay active deny it, and ends;
* partition keys: one discovery per table at a time, none forgotten, none left behind;
  known keys are used;
* adapter: first attempts follow the plan, retries rotate over usable nodes, reports are
  about the node that was asked, and bodies are announced as what they are;
* plans, affinity, codings, parser, generator: what they compute is what a definition
  without their loops says.

## Modules

| Module | Models |
|---|---|
| `HealthRules` | the pure rules of `NodeHealthStore`: what each method makes of the status map |
| `NodeHealth` | the store used from many threads, `ProbeDownNodes` step by step |
| `HealthRulesProofs` | lemmas about the rules, for the modules of theorems that use them |
| `NodeHealthProofs` | theorems about `NodeHealth` |
| `LiveNodes` | the registry at the granularity of its lock acquisitions, on top of `HealthRules` |
| `LiveNodesProofs` | theorems about `LiveNodes`: the list and the store, routing |
| `Refresh` | activity, the background loop, `Start` and `Stop`, with time |
| `Discovery` | `FetchLiveNodes` question by question, on top of `LiveNodes`, and as an implementation of it |
| `PartitionKeys` | the names of partition keys, their discovery threads and the destructor |
| `Requests` | an operation through the SDK: client, endpoint, attempts, wrapper, retry handler; on top of `HealthRules` |
| `QueryPlan`, `KeyAffinity` | plans as values; routing decisions, keyed and batch plans |
| `Compression`, `ZlibStreams` | the algebra of codings and headers; the two loops around zlib |
| `LocalNodes`, `GoRandom` | the parser of `/localnodes`; the random number generator |
| `Algorithms` | calls of the functions of the six modules before it, and their references |
| `RefreshProofs`, `DiscoveryProofs`, `PartitionKeysProofs`, `RequestsProofs`, `AlgorithmsProofs` | theorems about the module of that name |
| `MC*` | instances for TLC |

`Discovery` composes with `LiveNodes` (it extends it and is a refinement of it), `LiveNodes`
and `Requests` with `HealthRules`, `Algorithms` with the six modules of functions.

### HealthRules and NodeHealth

A URL is a natural number, since the code only compares and sorts URLs. `statuses` is
the map `statuses_`, as a total function with `NoStatus` for absent nodes; `updated` is
left out because nothing reads it. The two counters are kept modulo `CounterModulus`
(2^32 in the code). `After` is the `switch` of `ReportNodeResult`. `ProbeDownNodes` is
three kinds of steps for each prober: the snapshot of the Down nodes (`ProbeBegin`), the
lookup of the next one (`ProbeLookup`, which skips a node that is gone but does not look
at its state), and, after the probe without a lock, the report (`ProbeReport`).
`history`, a ghost, records the reports applied to a node since it was last added.

`StateFollowsReports` compares the state the counters lead to with `PromisedState`, a
definition over the whole history that knows no counters: the promise of the
repository's README and of the comments in `node_health.h`.

### LiveNodes

Every thread has a frame: the call it is in, a label and its locals. One step is one
acquisition of a mutex or one atomic counter. `mutex` is `mutex_` where it is held
across steps, which only `UpdateLiveNodes` does; every other section under it is one
step that needs `Free`. The store's mutex protects single steps. `FetchLiveNodes` is
reduced to what it does to this state (`Discovery` has it in full): it may consult a query plan, report nodes, and end with an exception, no node,
or any list of nodes. `Draw` stands for the first draw of the generator seeded with a
hash. The 64-bit counters are kept modulo the numbers they are reduced by; the exact
behaviour at 2^64 counts is left out.

`witnessed`, a ghost, collects for each routing call what was true of the nodes during
the call. The routing properties compare the result with it, which is the strongest
that can be asked of code without a common snapshot. `drained` is what an empty result
means: there was a moment of the call without an Active node and, then or later, one
without a Quarantined node. They may be different moments.

### Refresh

Time points are kept as the time that remains until them, which is all the code
compares; `Tick` lets one unit pass at any moment, also in the middle of a refresh, so
any delay of any thread is covered. `background_mutex_` is held from the top of the loop
until the wait, and `LockFree` says so. `MarkActivity` is three steps: the clock is
read before `mutex_` is locked, and the notification comes after everything is
unlocked; it reaches the thread only if the thread is in its wait. A timed wait that
has run out reports a timeout, as the standard libraries implement `wait_until`; before
that it ends for a notification or for no reason. A refresh may report any number of
failing nodes and may throw only if it did. `outcome`, `since_update` and `hurried` are ghosts.
`StartFails` is a `Start` whose thread cannot be created, after `background_started_` is up.

The clock reading of the background loop (`live_nodes.cpp:614`) and the section that uses it
(617) are one step, `WakeOnTime`. In between the thread only waits for `mutex_`. A delay there
makes the next due time earlier by that delay, so `RefreshesAreSpaced` is about the readings
from which refreshes are scheduled, not about the moments they begin. A request whose section
comes in between may make a refresh due that the loop then judges by its older reading; the
loop finds it at its next turn.

### Discovery

`Discovery` has the variables of `LiveNodes` and, per thread, the locals of
`FetchLiveNodes` and `GetNodesForScope`: the scope, the nodes left to ask, what was
discovered, whether something failed. A question to a node is one step with any answer: a
list, an empty list, or a failure of one of the three kinds the code tells apart. The nodes
of a plan are asked in any order, which is what the random plan does. The sampling of
the nodes to ask, the reports, the lock section and the probes are the actions of
`LiveNodes` itself. `CheckIfRackAndDatacenterSetCorrectly` is the same walk with
`purpose = "Check"`; it stops at the cluster scope and publishes nothing.

Two ghosts say whom a scope has to hear before it is left. `steady` has the nodes that were
Active ever since the walk began with the scope, `denied` those that answered that it has no
node; `unheard` collects the difference when the walk goes on (for the cluster scope it is the
initial nodes that must have answered). `FallbackIsJustified` does not say that failures are
never behind a fallback: nodes that failures have taken down are not asked, and where all are
down the scope is left without a question (see Findings).

`ImplementsLiveNodes` is `INSTANCE LiveNodes` with the same variables: each detailed step
is a step of `LiveNodes` or changes only `fetch`. It is what justifies the four lines
`LiveNodes` spends on a fetch.

### PartitionKeys

A write has a frame, as in `LiveNodes`. Each `GetPartitionKeyName` is a step: one to
extract the attribute, one to see whether the name is missing, one in the trigger, one for
the hash. The claim of a table, the creation of the thread and the undoing of a claim
are separate sections of the discovery's mutex. A discovery thread asks
`DescribeTable` (external: a name, nothing, or an exception) up to `Attempts` times,
stores, and erases. The destructor takes the threads, joins them, and goes on; the
application has no call in progress then, as for any C++ object.

Writes are in `AnyWrite` mode (`ReadBeforeWrite` decides earlier whether any of this
happens; see `KeyAffinity`). A batch is a set of tables, one operation each; more operations
of one table read the same name, one read more each.

### Requests

One operation per thread. The SDK is external and modelled from how the code uses it: it resolves an endpoint
once, builds a fresh HTTP request for each attempt, numbers the attempts, calls the
handlers, and retries what failed. The registry is reduced to the health store. A choice of a
node (for a plan, an endpoint or a retry) takes two steps, as in the code: `ReadActive` reads
the active nodes, and `NextNode` chooses among these and the nodes quarantined at a later
moment, with anything in between. It may therefore give a node that has gone down since, or
none while there are some; `witnessed` records what was true from the call of
`SelectAttemptNode` on. Whether it is the turn of a quarantined node is left open.
`IsAlternatorEndpoint` asks the list of known nodes, which is the set the store knows
(`StoreTracksLiveNodes`). `config` is chosen once: with the wrapper or without,
with a compressor or without, one of three header policies. Decoders are configured.

### The functions

Lists are sequences, URLs numbers ordered as in the code; a random stream is a sequence of
draws given with its seed. `KeyAffinity` takes the two reads of the registry as
arguments, so any change between them is an input. In `Compression` a body is the sequence
of codings applied to it, a header value a sequence of letters, blanks and commas, where a
letter is the name of a coding in one of its cases; `ZlibStreams` keeps the amounts of input
and output and the return codes, the initialization of zlib and the check of sizes
(`SizeLimit`, the width of `uInt`) included. A write of a batch has the hashes its two lookups
of the key name lead to, which may differ in any way. `LocalNodes` reads a body character by character, because
the property is about text; ten characters tell apart what the parser and JSON tell apart.
`GoRandom` has the seeding step at its real size and the rest at any size. The loops of the
code are folds with the loop's body as a definition of its own (`DrainStep`, `AppendNode`,
`ReadLetter`, `AddEncoding`, `Undo`, `ReadLine`, `ParseCharacter`), so that a proof can go
through them turn by turn.

`Algorithms` calls one function with one input per behaviour; the loops around zlib and the
calls of the random number generator are steps of their own. Each property compares
the output with a definition that does not use the function's algorithm:

* plans: bags of entries, and the order of the preferred nodes;
* the affinity rule: the effect and the answer of a write on two items;
* the parser: the positions in the body. `Marks` and `Quotes` say where the structure of a
  array is, `IsArrayButForControls` what must be between the marks, `IsArray` what JSON demands
  beyond that (no raw control characters in strings, no other white space than its own),
  `StringsOf` what the strings are with their escapes resolved; none of them goes through the
  body from left to right. The property says on which side of the two the parser is;
* headers: `Spells` says at which positions of a value the letters of given codings are;
  `Named` which codings the decoders name, by their places;
* bodies: `IsCoded` says which coding left which format in the body;
* the seeding step: multiplication by doubling.

`InputAssumption` says which inputs there are, and the theorems rest on it:

* plans have non-empty URLs, and draws for as many nodes as they have (the generator never
  ends; a sequence of draws is as much of it as is used). An empty URL ends a plan early,
  see Findings;
* the two reads of the registry that put a sampled node into a list have each node once,
  since both end by dropping duplicates (`live_nodes.cpp:236` and `246`);
* requests are those DynamoDB accepts, an `UpdateItem` that updates nothing among them;
* a response has at most one `Content-Encoding` line in its last head, and its body was coded
  as that line says. Its decoders were accepted by `ValidateConfig` (`config.cpp:67`) and
  are for gzip and deflate, which is what the client's own decoder implements; a decoder an
  application writes is outside this repository;
* bodies of `/localnodes`, decoders of a configuration (null ones, and names with commas) and
  advertised codings are arbitrary.

## Runs

* `health_probes`: two nodes, two interchangeable probers (symmetry), thresholds of two,
  counters that wrap at three, up to four reports per node. Two of everything is what
  overlapping probes and late reports need; four reports take a node down, through
  quarantine to Active and on, or past the wrap of the 5xx counter. `MaxHistory` bounds
  the number of reports; it is a guard of `ReportNodeResult` and the only bound of the
  module. The theorems hold for every value of it and of the thresholds.
* `live_reports`: every routing call beside reports and probes of another thread, among them
  the ones that come between the two reads of a call and leave it empty-handed.
* `live_refresh`: a thread that makes plans for a hash and updates the node list beside a
  thread that updates it, with a sample on every attempt (an interval configured as zero).
* `refresh_cadence`: all timers on. The active period is shorter than the probe period,
  and that shorter than the idle period, so each of the three is the next one at times. A
  `Start` may fail to create its thread, and refreshes are expected only where there is one.
* `refresh_quiet`: no idle refresh and no probes, so the loop may wait with no timer.
* `discovery`: one thread that refreshes and checks over a chain of a rack and the cluster
  beside one that reports. Two scopes have every transition of the walk: a first scope with
  a successor, and the cluster with none. Two nodes can answer differently and fail one by
  one.
* `partition_keys`: two writers, an application that sets names, two discovery threads, one
  table to discover and one configured, a single write, a batch over both tables, and a
  batch without the key. Two threads are what an overlap of discoveries needs; when both
  are used up, creating a third one fails, which is the code's error path. There is one name
  for the key, since a second one takes the run beyond five minutes; the theorems are for any
  names.
* `requests`: one operation of up to ten attempts (the tenth is where the attempt number
  gets a second digit) over two nodes, one of them not known at first. Operations meet only
  in the health store, and what others do there is the environment's actions, so one
  operation is enough.
* `algorithms`: plans of up to three of three nodes and all outcomes of the draws; all pairs
  of reads; batches of up to three writes; all requests DynamoDB accepts over these fields,
  with up to two attribute updates; bodies with up to two codings behind up to two earlier
  heads, spelled in several ways; up to two decoders, null or with up to two names, usable and
  not; all bodies of `/localnodes` of up to five of the ten characters, and longer valid ones
  with up to two strings; seeds at the edges of the arithmetic; bodies around one and two
  buffers, and larger ones than zlib is told (`SizeLimit` is below `MaxBody`). The theorems
  have none of these bounds.
* `requests_overcharge`, `refresh_lost_wakeup`, `live_stale_mapping`: see Findings.

The `live_` runs have two nodes, one hash and two threads. Two threads
are enough for the properties, which relate one call to the steps of the rest of the
system: the second thread makes any number of calls during the first one's call. What
three threads inside calls at once could add is settled by the proofs, which are for any
number of them. The
`refresh_` runs have periods of a few ticks (zero for "disabled"), one requester, one
thread that calls `Start` and one that calls `Stop`.

Deadlock checking is off in two runs: in `partition_keys`, where a destroyed helper is the end, and in
`algorithms`, where a function returns once.

`FetchTypeOK`, and the `TypeOK` of `NodeHealth`, `LiveNodes`, `PartitionKeys` and `Requests`, are no
property of a run, since the properties above would fail first; they are theorems, because
the proofs need them.

### Fairness

* `Refresh`: the background thread takes a step when it can (weak fairness of
  `BackgroundStep` as a whole, so that whether a refresh returns or throws is open), time
  passes, and a thread inside `MarkActivity` or `Stop` gets on. The operating system's
  scheduler gives the code this. Nothing is assumed about requests, calls of `Start`
  and `Stop`, spurious wake-ups and failing nodes.
* `Discovery`: a thread inside a call takes a step when it can. Which answer comes is open.
  One thread refreshes, so nobody competes with it for ever for `mutex_`.
* `PartitionKeys`: threads run when they can, `DescribeTable` returns. Nobody has to write
  or to destroy the helper.
* `Algorithms`: a loop around zlib goes on.

That a refresh, a probe or a question ends assumes HTTP timeouts: `connect_timeout` is one
second by default, but `http_client_timeout` is 0 (none), so with the defaults a server
that accepts a connection and never answers can hold up the loop, and with it `Stop`.

## Findings

Runs that are expected to fail show where code and documentation disagree.

* `refresh_lost_wakeup`: the notification of a request may be lost; the refresh is then
  late by up to the idle period (`RefreshRecurs` still holds).
* `requests_overcharge`: the wrapper reports the result of an attempt, and so does the
  retry handler, always as a server error, and for the endpoint that was signed rather
  than the node that was asked. A node goes down after fewer 5xx responses than the
  threshold, also for throttled requests and for failures of other nodes. The trace TLC
  finds is the shortest: throttled attempts, without the wrapper.
* `live_stale_mapping`: the README says that a mapping is removed when its node leaves
  quarantine. It is stored after the node's state was read (`live_nodes.cpp:518`); a report that
  ends the quarantine in between has removed the mappings by then, and this one stays. The next
  lookup for the hash erases it (`RoutedNodesWereUsable` holds), unless the node is quarantined
  again by then: then it is used. Probe results, which bypass the removal, leave mappings
  behind in the same way.

Weaker points that are part of passing runs:

* `EmptyOnlyWhenDrained` and `OverrideOnlyWhenDrained` name two moments because one would be
  wrong: a node promoted between the two reads of `NextNode` is in neither, and the call
  returns nothing although there always was a usable node. The operation then fails with
  `NoAlternatorNodes`, or an attempt stays where it was signed for, which for a client without
  an endpoint provider is the override name.
* `FallbackIsJustified` is about nodes that stay Active. Where failures have taken all nodes
  down, a rack or datacenter is left for the next scope without anyone having been asked, and
  a node that goes down or into quarantine during the walk is not waited for.
* `ReadsBeforeWritesAreRouted` has an exception: an `UpdateItem` that updates nothing and asks
  for `UPDATED_OLD` is routed by key, though its answer is empty.
* `AnswersAreReadExactly`: the parser accepts raw control characters in strings and `\v` and
  `\f` between tokens, which JSON does not, and refuses `\u`, which JSON has.
* `AnnouncedCodingsAreMeant`: a decoder that names `gzip,deflate` as one coding is not refused,
  though `,` is refused for request codings, and a server reads two codings.
* `StreamsAreComplete`: decompressing ends at the first end mark; data behind it, such as
  further members of a gzip file, is dropped without an error.
* `RefreshesAreSpaced` has an exception (`hurried`): a request delayed between reading the
  clock and its section makes a refresh due at once if another one began in between.
* `RetriesRotate` is about attempts 2 to 9 of nodes the wrapper knows: attempts 10 to 19
  are taken for first attempts, because only the first digit is looked at, and an
  operation whose endpoint was removed from the list stays there, unreported.

Observations made while modelling, which no run states:

* a hash mapping is erased while its node is still quarantined, when another active node
  now comes first for the hash (`live_nodes.cpp:492`);
* failing nodes make an idle client refresh at the active pace, since their reports mark
  activity;
* with idle refresh and probes disabled, requests are not noticed once the loop waits;
* a refresh that throws takes the due probe with it (`live_nodes.cpp:636`);
* a 4xx or malformed answer to `/localnodes` counts as a success of the node and still
  keeps an empty scope from falling back;
* an answer in a coding nobody decodes is reported as a connection failure
  (`http_compression.cpp:406`, caught in `live_nodes.cpp:415`);
* an exception while decoding a response leaves out the report about the node;
* a node that becomes active between the two reads of a keyed plan comes first in it, like a
  sampled one;
* a background thread that cannot be created leaves `background_started_` up: `Start` throws
  once and then returns at once without a thread, until `Stop` is called (`live_nodes.cpp:293`);
* a discovery that ends late stores its name over one the application has set meanwhile
  (`aws_dynamodb_helper.cpp:983`);
* the socket-based HTTP client asks with HTTP/1.1 and does not undo chunked transfer
  coding (`http_client.cpp:366`);
* an empty name in a `/localnodes` list becomes an empty URL, which ends a plan early.

## Proofs

Every safety property the passing runs check is a theorem. Liveness is only model-checked,
see the end of this section.

### NodeHealth

`NodeHealthProofs` proves, for any set of nodes and probers, any thresholds, any
counter width and histories of any length: `TypeCorrect`, `CountersAlwaysMatch`,
`StateAlwaysFollowsReports` and `TransitionsAreRigid`. They rest on the named
assumptions of `HealthRules` and `NodeHealth`: nodes are numbers, the thresholds fit the
counters, the counters can hold at least 2.

`StateFollowsReports` is not inductive: it relates the state to the history and says
nothing of the counters that decide the next state. The inductive invariant `Inv` is
`TypeOK /\ CountersMatchState /\ ReportsAccounted`. The last part says how the counters are read off the history: unless
the node is Down, the history ends in exactly `errors` 5xx responses; in quarantine it
ends in exactly `successes` successes; and which reports are `Outstanding` (marked the
node down and were not made up for by a promotion) in each state. The counter of a Down
node is left out of it on purpose: that one may wrap. The proof goes
node by node (`InvIsPerNode`) and observation by observation: what one more
report does to runs, to outstanding reports and to promotions are lemmas about
sequences, with no state in them.

### LiveNodes

`LiveNodesProofs` is for any nodes and hashes, any number of threads and any choice of the
calls they make. It rests on the assumptions of `HealthRules` and on `LiveNodesAssumption`:
there are initial nodes and hashes, `NoNode` and `NoThread` are neither nodes nor threads,
the counters' modulus is a multiple of every list length, draws are below their bound.

`StoreAlwaysTracksLiveNodes`. The property speaks of the moments `mutex_` is free, so it
says too little of the steps of an update. The inductive invariant `UpdateInv` adds what
holds in between:

* the thread that holds `mutex_`, and no other, is in the two loops of `UpdateLiveNodes`;
* in the first loop the store knows `live_nodes_` and the new nodes already visited; in
  the second it knows the new nodes and the old ones not yet visited;
* a thread that waits to lock has a non-empty list, because an empty one makes
  `UpdateLiveNodes` return early.

The steps outside the section fall under two lemmas (`AsideKeepsInv`,
`QuietStepKeepsInv`): they leave the node list and the set of known nodes alone, reports
and probes included, since a report never adds or removes a node. The steps inside it
fall under `HolderKeepsInv`. That each loop ends with the set the next one starts from is
set algebra.

`RoutedNodesAreUsable` and `SteadyNodesStayRouted`. The properties speak of the label
`Return` only. `RoutesAreSound` ties the locals of a routing call to what it witnessed at
every label before it: its snapshots are contained in what was usable (or quarantined) so
far, and the snapshot of the active nodes contains those that were active all along. Other
threads' steps keep this whatever they do, because what was witnessed only grows and what
was true all along only shrinks (the ghost is updated in every step). The one delicate
place is the second read of `NextNode`, where the first read was empty: nothing can have
been active all along then.

`EmptyMeansDrained` rests on the same invariant. It ties an empty snapshot to `inactive`, which
stays once it is raised, and then every place where a call finds no quarantined node to
`drained`: the reads of the quarantined nodes come after the read that found no active one, so
the ghost sees them in the order the property asks for, whatever other threads do in between.

### Discovery

`DiscoveryProofs` is for any chain of scopes that has the cluster scope last or not at all
(`ScopesAssumption`), and any answers. `DiscoveryImplementsLiveNodes` is the refinement:
the initial states agree, and each step of a walk is a step of `LiveNodes` or leaves its
variables alone. The invariant it needs, `WalksAreSound`, relates the locals of the walk to
those of the call around it: while a walk goes on, what it has discovered is all it has
heard; outside the cluster scope the first list ends it; and a frame that samples nodes for
a plan does it for its walk. `NoListIsEverLost` follows from it. `FallbackStaysJustified` needs
to know of every walk that a node that stayed Active is still to be asked, has denied the scope
or has failed, so that a scope left without a failure was denied by all of them; other threads'
reports only take nodes out of `steady`. The properties of `LiveNodes` carry over through the refinement.

### Refresh

`RefreshProofs` is for any periods, enabled or not, any number of requesting threads and
callers of `Start`. `StoppedIsJoined` has the hypothesis `OneStopper`: at most one thread
calls `Stop`, which is how the client uses it (from a destructor). The invariant
`StopIsInOrder` adds that `background_started_` stays up while `Stop` is in progress and
that the thread is gone once `Stop` is about to clear it. `RefreshesSpaced` rests on
`DueInTime`: the time since the last refresh and the time to the next one add up to an
enabled period, unless the exception applies or no refresh is to come. It is needed because
the property only sees the moment a refresh begins, while `next_update_` is moved by
requests, by failing nodes, by `Start` and by the end of a refresh.

### PartitionKeys

`PartitionKeysProofs` is for any tables (at least one), names, writes, number of attempts,
writers and discovery threads.

* `OneDiscoveryHolds`: the property is inductive together with the types.
* `NoThreadOutlives` needs `ThreadsAreKept`: a thread that is not done is among the workers
  to join, and nobody can add one once the destructor has taken them.
* `MissesServed` and `KnownKeysUsed` speak of the end of a write. `MissesAreSeenTo` says
  which of the missing tables have been seen to at each label; `KeysAreKnown` what the write
  has read of the tables whose names have not changed since.

### Requests

`RequestsProofs` is for any nodes, thresholds, number of attempts and number of operations
at once. The five properties share one invariant, `RequestsAreSound`, in three parts. `Sound` is
about a request alone: how it begins (`Begins`), that its endpoint is that of its plan
(`Addressed`), what the choice of a node has left for the attempt to come (`Routed`), and what
its message says (`Announced`). `Watched` says that the ghost of a choice in progress has seen
the present state of the store. `Chosen` says that it has seen the active nodes the choice read,
or the moment there were none, and so whatever comes of the choice: a usable node of some
moment, or nothing past a drained one. Other requests, reports and refreshes change the store
and let the ghost see more, which disturbs none of the three.

### Algorithms

`AlgorithmsProofs` has nine theorems, one for each safety property of the run `algorithms`.
Two are about functions that take steps, seven about what a function returns for inputs of
any size.

`StreamsStayComplete` is for any buffer and body sizes and any choice of zlib within what
its manual promises. `StreamsAreSound` adds a balance (input unread, given to zlib, held by
it and written make up the body), that a buffer is read only when the last one is used up and
never too large for zlib, since a buffer is not (`SizesAssumption`),
and that zlib is called only if it has something to do: this is why the loop cannot be
stuck, also where a buffer ends exactly where the body does.

`GeneratorStaysSound` is for every seed, every vector length and tap, any number of calls
and every bound of a draw. The generator's range `IntSize` is any 2^k with k from 1 to 31, the
code's 2^31 among them. `InputAssumption` says what the types and the check of
`Int31n` leave of the arguments. The parts:

* `SchrageIsExact`: the seeding step is the product modulo 2^31 - 1 without leaving 32 bits,
  and never 0. The reference by doublings, which TLC can evaluate, is shown to be the
  same residue (`LehmerIsExact`).
* `CallKeepsLag`: the invariant `Lagged` says that the word j places ahead of `feed` is the
  value of j calls ago and that `tap` stays `rng_tap` places ahead, across the wraps.
* `DrawsAreEven`: the values that draw r are in bijection with the multiples of n.

For the other seven the invariant of the specification is `OutputInv`: an output is what the
function returns for the input. The work is in lemmas without state.

Induction. The library's induction theorems take an operator, which the provers cannot
instantiate. `Induction` therefore is about a set: one that has 0 and every successor has
all natural numbers, because the others would have a least one (`WFMin`). Every induction
of the module is an application of it to the set of the numbers a property holds for. A
fold of the community modules is a CHOOSE of a recursive function over subsets. `FoldExists`
constructs that function, and `FoldSteps` gives for every fold a run, the values after 0, 1,
2, ... elements, each the loop's body applied to the one before. A loop then has an
invariant over its run, like a program.

* `PlansKeepVisitingEveryEntry`: `TakesOne` says that a call of `Next` takes one entry out of
  the plan and leaves the rest, in any order, with the preferred nodes first; the loop of
  `DrainPlan` therefore ends with a permutation of the list. What sorting returns is defined
  by what a sorted list is, and shown to exist.
* `KeyedPlansStayComplete`, `BatchPlansKeepFollowingTheirKeys`: what `AppendMissing`,
  `DedupePreservingOrder` and `NodesMissingFrom` leave, and the votes of the batch as the
  number of writes for each node, on top of the result about plans.
  The proof takes the two hashes of a write as they come: what the first lookup found only
  decides which nodes are listed, the second who votes.
* `ReadsBeforeWritesStayRouted`: for each kind of request and any number of updates, two items
  with different outcomes where the rule says that it reads, and that there are none where it
  says that it does not.
* `AnswersStayReadExactly`: the invariant `Sound` compares the parser after k characters with
  the marks and quotes among them: the label tells how many marks there were and whether a
  string is open, the list has one string for two quotes, each spelled by the characters kept
  between them, and the parser has thrown exactly if one of the k characters is wrong where it
  stands. A body that is read to the end in the label `Closed` is then an array but for control
  characters, and no other is; an array of JSON is one of these.
* `AnnouncedCodingsStayMeant`: the entries collected so far are the names at the places visited
  so far (`Collected`), each once; names joined by `, ` are read back one by one
  (`JoinedIsRead`), because each is trimmed, in lower case and, where the property asks for
  that, without commas. That a null decoder is refused is the first case of the loop's body.
* `BodiesStayDecoded`: the value found is that of the last line that names the header since the
  last status line (`IsFound`); reading it, at most one coding is begun and not ended, and
  those ended are the first ones in order (`SpelledSoFar`); and after the codings behind the
  first d have been undone the body is the prefix these d left in it, unless one of the others
  has no decoder (`Undone`).

### Only model-checked

Liveness: `RefreshRecurs`, `StopReturns`, `RefreshesEnd`, `DestructorReturns`, `LoopsEnd`.
Fairness is out of the proof system's reach.

## Not modelled

* murmur3 and the conversion of keys to bytes: 64-bit arithmetic, tested against reference
  vectors; the models take a hash as given.
* Sockets, libcurl, TLS, the text of URLs and of SDK messages: I/O and conversions with no
  behaviour over time that the properties are about. The curl handle is used under one mutex.
* `NextKnownNode` and the two support checks of the registry: they ask a node and change
  nothing but a counter.
* Concurrent calls of `Stop`: the code does not support them.
* Growth of `quarantine_by_hash_` and of `workers`: bounded by the sets of the models.
* Release automation and build: scripts beside the client. `lifecycle.py` is a sequence of
  `git` and `gh` commands; what happens when it is interrupted is decided by GitHub.

## Plan

Done: the models of all parts with behaviour over time and of the pure functions that
decide about routing and about bodies; the proofs of all their safety properties.

What is left would need other tools: liveness (a prover for fairness), murmur3 and the full
width of the generator's words (bit-level arithmetic), and the network code.
