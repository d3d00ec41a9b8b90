# A TLA+ model of IntelliqX

IntelliqX runs software-engineering agents as a service. Clients submit runs over HTTP,
embedded workers execute them through a compute runtime, agents share an event bus, a
key-value store, a knowledge graph, tools and a document index, and a graph pipeline turns
source code into layered graphs, reports and generated code. This directory holds TLA+ modules translated from that code, the TLC
configurations that check them on small instances, and TLAPS proofs for every instance.

Paths below are relative to `src/libs/<package>/src/<package>/` unless they start with `src/`.

## The system and its parts

| part | state it keeps | operations | what is hard about it |
|---|---|---|---|
| run table (`intelliqx-service` `state.py`) | one SQLite row per run: status, attempts, result, times | enqueue, claim_next, complete, requeue, cancel, close_expired | survives crashes; two methods update by id alone |
| service (`app.py`) | worker tasks, each inside an invocation or polling | submit, cancel, worker loop, start and stop | steps of several workers and clients between awaits; a stop or a store error in the middle |
| compute runtime (`intelliqx-compute` `runtime.py`) | handler map | invoke with a timeout | a timeout races a late answer |
| event bus (`intelliqx-events` `bus.py`) | handlers per topic, subscription ids, dead-letter queues | publish, subscribe, unsubscribe, reset | the fan-out awaits handlers that change the subscriptions |
| knowledge graph (`intelliqx-kg` `graph.py`) | node and edge tables, write buffers | add_nodes, add_edges, flush, reset | flushes overlap, fail, are cancelled; names of partitions |
| object store (`intelliqx-storage` `store.py`) | objects | put, get, delete, list | writes in threads; test-then-use on files |
| TTL store (`intelliqx-state` `store.py`) | strings, hashes, lists, one deadline per key | get, set, incr, expire, hset, lpush, rpop, delete, reset | some operations look at the expiry and some do not |
| OKF bundles (`intelliqx-okf` `bundle.py`, `concept.py`, `validator.py`) | none: a directory tree is read | load, resolve links, validate | links written in many ways, files that do not load |
| OKF index (`intelliqx-okf` `index.py`) | concept, full-text and vector tables, the embedder on record | open, write, read, ingest_graph | three tables kept in step by row id; crashes between transactions; stale rows |
| tools, rate limiter (`intelliqx-tools`) | catalogue, handlers, token buckets | register, invoke, acquire | callers that poll one bucket, with rates of different definitions |
| metrics (`intelliqx-observability` `metrics.py`) | a process-wide registry of metric objects | get_metrics, histogram, observe, snapshot, reset | threads race for the first use and keep what a reset forgets |
| SGIR parser (`intelliqx-graph` `parsers/`) | a stack of scopes, the entities so far | visit, parse_repository | nested definitions, same names |
| SGIR layers, agents, backend (`optimization/layers/`, `analysis/`, `backends/`) | none: eight layers, four reports, generated files | build_all, analyze, generate | ids that are not unique, several nodes for one id, three choices of entry points |
| SGIR pipeline (`intelliqx-graph` `optimization/`) | a software graph, reports | four passes, each verified or reverted | a stale index, nodes that live in several layers |
| agents, tenants, logging and tracing, SDK, AI runtime | registries, context variables | registration, logging, model calls | little state of their own |

The service calls the run table and the runtime; agents running inside the runtime use the
bus, the stores, the tools, the metrics and the knowledge graph. The graph pipeline's parts are
called one after the other (`run_sgir_pipeline()` in `src/scripts/self_improve.py`), and its
entities are also written to the OKF index. `PROJECT.json` lists every part with what is
modelled of it, the hazards of the code at the line where they bite, and the source lines
behind every definition.

## Modules

| module | what it is |
|---|---|
| `RunStore` | the run table: each store method as an operator from table to table |
| `RunService` | endpoints, workers, lifespan, clock over `RunStore`; the properties |
| `RunLifecycle` | the abstract promise: a run's agent is executed at most once |
| `RunServiceProofs` | the theorems about `RunService` |
| `EventBus`, `EventBusProofs` | the in-memory bus, and the theorems about it |
| `KnowledgeGraph`, `KnowledgeGraphProofs` | tables, buffers, flushes and stored partitions, and the theorems |
| `Digraphs`, `Tables` | operators of the graph modules (successors, closure) and of the tables of the services |
| `SoftwareGraph` | layered graphs and the queries of their index |
| `OptimizationPipeline`, `OptimizationPipelineProofs` | the passes, the verification and `run()` over `SoftwareGraph`; the theorems |
| `PythonParser` | the visitor over syntax trees and `parse_repository()` |
| `LayerBuilders` | the eight layers of a list of entities |
| `GraphAnalysis` | the four analysis agents over a software graph |
| `CodeGeneration` | the Python backend: which node is written to which file |
| `CodeGraph` | parser, layers, agents, dead code scan and backend composed as `run_sgir_pipeline()` does |
| `CodeGraphProofs` | the theorems about the five modules above |
| `OkfBundle` | loading a bundle, resolving its links, validating it, as operators |
| `OkfIndex`, `OkfIndexProofs` | the index's tables, opened, written from bundles and repositories, and read; the theorems |
| `TtlStore`, `ToolManager`, `Metrics` | the three in-process services of an agent |
| `PlatformServices`, `PlatformServicesProofs` | the three side by side, with the fairness of the event loop; the theorems |
| `FiniteLemmas` | lemmas about numbers, finite sets and closures that the other proofs share |
| `MC...` | the instances for TLC: symmetry sets, repositories, directory trees |

Definitions commented "for the mutation checks" are plausible wrong versions of the
definition that follows them. Nothing else uses them; substituting one for the real
definition makes TLC report the property it is meant for.

### The run service

Every `StateStore` method runs under one lock and one `BEGIN IMMEDIATE` transaction, so it
is an atomic change of the table and an operator of `RunStore`. The service is one asyncio
event loop, so an action of `RunService` is what happens between two awaits:

- `Submit`, `Cancel`: the two state-changing endpoints. `submit_run` does not pass
  `settings.max_retries`, so a row has `enqueue()`'s default of 1.
- `Claim` is `claim_next()` followed by `_process_claim()` up to the await of `invoke()`;
  the worker then holds the run, the attempt number and the start time in local variables.
  For an agent without a handler `invoke()` answers `not_found` without suspending: the worker
  keeps the event loop (`HoldsLoop`) until it has recorded that, but claim and record are two
  transactions, and a crash, a store error or another process may come between them.
  `PollExhausted` is `claim_next()` failing a row that is out of retries.
- `Finish` is the end of the invocation and `_record_outcome()`, or the `except` branch,
  with what the worker remembered, whatever happened to the row meanwhile.
- `Die`: a store call raises in a worker; nothing catches it and the task is gone.
- `Start` and `Stop`: the lifespan. A crash leaves the table exactly as `Stop` does.
- `CloseExpired`: nobody in the repository calls `close_expired()` outside tests; the model
  lets an operator do it at any time when `Sweeping` is set.
- `Tick`: time. A timer that is due is served up to `Lag` ticks late; by then `wait_for` has
  ended the invocation, which presumes what asyncio presumes of a handler: that it gives up
  the loop now and then and does not swallow its cancellation.

Ids that have no row yet or no longer are the states `ABSENT` and `DELETED`. The payload,
the tenant and the texts of outputs and errors are abstracted to whether the columns are
filled. `invoked` is a history variable.

### The event bus

`subscribe()` makes a fresh handler object each time, so a handler is a serial number and a
topic's list, which is only appended to and filtered, is a set read in increasing order.
`Publish` copies that set; `Handled`, `Park`, `Raise` and `CancelPublish` are the ways the awaited
handler ends (a cancellation is no `Exception`, so it parks nothing, whether or not the handler
has a dead-letter queue); between them any task may subscribe, unsubscribe or reset. `start()`, `stop()`
and the singleton are left out.

### The knowledge graph

`Add` is `add_nodes()` or `add_edges()` up to the await of `put()`: rows go to the table and
the buffer, the whole buffer is the payload, and the size of the node table is the partition
number, for edges too. `AddRaises` is the same call ended by an exception before the flush: each row
goes to the mirror first and to the buffer once its attributes are serialised, so the last row may be
torn. `Write` is the thread that writes the file, `Resume` the clearing of
the buffer after it. `Fail` is an exception from `put()`, possibly with a truncated file;
`Abandon` is the cancellation of the caller, which does not stop the thread. `Reset` empties
the graph in place and `Restart` is a new process over the same store, which reads nothing
back. `overlapped`, `disturbed` and `torn` are history variables that say under which conditions a
property is promised. The in-memory object store never suspends: its behaviours are those in
which `Write` and `Resume` follow `Add` at once.

### The optimisation pipeline

A layer is a function from node ids to the two attributes the passes look at (the rank of the
complexity, and whether there are side effects or failure modes) and a set of edges. The parts
a node is split into are pairs of its id and 0 or 1. `run()` is sequential, so the position in
it is the number of reports; each action is one pass with its verification, which keeps or
reverts it, and the last also computes the branches and the summary. The passes are operators
from graphs to graphs: `RemoveDeadNodes`, `InlineTrivialNodes` and `ReduceComplexity` give one
result, `CleanDependencyCycles` a set of them, because the edge that is cut depends on where
networkx enters a cycle. As in the code, out-degrees, dead ids and branches come from the
index of the input, not from the working graph. `BuildTraceSet` is the depth-first
enumeration of traces, with its limits (`MaxTraceDepth` and `MaxTraceBranching`: 50 and ten). An id that
reaches more others than that is `Overfull`; which of them the search follows is a choice
(`FirstSuccessors`), because it depends on how the code's set iterates, and it is made for each of the two
graphs a pass compares. They agree where the pass leaves the order alone: a pass that changes nothing, and the
removal of dead nodes. `truncated` is a history variable: some pass was given a graph with an overfull id in
its search. `detect_duplicates()` only reports and is left out, as are
texts, edge types and weights. The functions of networkx are external.

### From source text to graph, reports and code

`PythonParser` reads a file as the sequence of visits its syntax tree gives: definitions are
entered and left, calls, names and imports lie between. One action per visitor method pushes,
pops or fills a scope, as `_PythonFileVisitor` does; `FinishFile` and `RecordError` are the two
ends of `parse_file()`. Parameters, return types, docstrings and lines are left out, and the
complexity of an entity, which the parser never sets on an entity, is "unknown" throughout.

`LayerBuilders` has one operator per builder. An id is a pair, `<<file, name>>` or
`<<prefix, name>>`, because that is all `make_node_id()` looks at: two entities of one file and
name share a node, the first of them making it and all of them making edges. What the builders
look for inside names (routes, lifecycle methods, credentials, I/O) is the constant `Matches`,
from names to pattern sets. A name that contains several of the authentication patterns is given the
first in the iteration order of a set, one order for the whole build (`AuthPicks`).
`GraphAnalysis` reads nodes the way the agents do, through the first
layer that has the id; the order of the layers is that of their registration. Its thresholds and limits are
constants with the code's values in their comments. Where the code cuts a list off whose order is that
of a set, any part of the right size may be left (`UpTo`): the entry points of the flow agent, the
sensitive flows, the entry points of the dead code scan. `FlowEntryPoints` is a choice also where
the code takes whichever component of a graph networkx happens to list first. `CodeGeneration`
keeps, of a generated file, the nodes its sections come from. `CodeGraph` composes them in the order of
`run_sgir_pipeline()`, without the optimisation in between, whose result that function does not use; the
scan for dead code is skipped where there are no calls and starts from any few nodes where nothing is a root.

### The OKF index

`OkfBundle` represents a path, which is also the concept id, by its segments, and a file by its
front matter, title and lines; its operators are `load_bundle()`, the link resolver and the
validator. `OkfIndex` has the three tables and the record of the embedder as its persistent
state. Opening is two transactions, so two actions, `InitVectorColumn` and `VerifyOrInitMeta`,
and a crash may come between them. `IndexBundle` and `IngestGraph` fill `pending` with what a
caller's loop is going to write; `Write` is one transaction with its row-id arithmetic and the
insert trigger; `WriteFails` ends the loop. `EditFiles` changes the tree. `Read` is the set of
answers `read()` may give: ranks and scores are left open, so a candidate list is any subset of
the right size.

The index is documented for a single writer, so there is one connection. That INSERT OR REPLACE
does not fire the delete trigger (recursive triggers are off) and that row ids start above the
largest in use are facts of SQLite the model states in `Write`. Nothing in the repository writes a whole bundle: `IndexBundle` is
the loop a caller of the two would write, and external.

### The services of an agent

`TtlStore`: every method holds the lock from end to end and is one action; `ReadKey` stands for
`get`, `hgetall` and `hkeys`, which purge an expired key and then read. Two history variables record what outlived the
deadline of its key (`outlived`) and which keys got another deadline, or none, after theirs had
passed (`revived`); no operation reads them. `ToolManager`: `Invoke`
is `invoke()` up to its only pause, `Poll` one round of `acquire()`, `Return` the handler's end,
after which the caller may invoke again; a caller keeps the rate it looked up when it began. A level counts `Minute`-ths of a token, so
that a tick adds the rate and no fractions are needed; the bucket's age, not the clock, is
state. `Metrics`: `Look`, `Create` and `ReturnRegistry` are the three unlocked steps of
`get_metrics()`, and `LookForReset`, `ReadForReset`, `ClearRegistry` and `Forget` those of
`reset_metrics()`, which one task at a time calls; metric objects are numbered, and a thread keeps
the ones it was given through a reset. `Snapshot` is `Histogram.snapshot()`, which holds the
histogram's lock; `MetricsRegistry.snapshot()` goes through its tables without a lock
(`metrics.py:253-257`), and where a metric is made meanwhile it may raise, which changes nothing. The three share no state and none calls another, so `PlatformServices` lets a behaviour
exercise one of them.

## Runs

| run | instance | shows |
|---|---|---|
| `service_safety` | 3 runs (one for an agent without handler), 2 workers, retry setting 2, clock to 1 and on until invocations are over, one stop, store errors, sweeping | exclusive execution, budgets, final results, orphans only by failures, and the refinement of `RunLifecycle` |
| `service_liveness` | 2 runs (one without handler), timers up to a tick late, otherwise the same, under `FairSpec` | every run settles, every worker comes back by the timeout, expiry spares runs that are executing |
| `cancel_is_final` | no stop, no faults | violated: a cancelled run is overwritten by the late outcome |
| `retry_budget` | no stop, no faults | violated: the second invocation never happens |
| `event_bus` | 2 topics, 2 dead-letter queues, 2 publish calls, 3 subscriptions, one reset | complete fan-out, exact parking, fresh ids |
| `knowledge_graph` | 2 callers, 4 node rows and 1 edge row in batches of up to 2, one reset or restart | serialised node rows kept, stored once, node partitions not rewritten |
| `optimization_pipeline` | 3 ids, 1 entry point, 2 layers: every call layer with linear and cubic nodes, every state layer with up to 3 edges; and an entry point with 6 leaves, 3 more ids and few edges; a limit of 6 successors | same reachability after any number of passes while the searches are whole, dead nodes gone, cycles broken when kept, trace test = reachability test, branches = levels, no kept pass riskier than the summary says |
| `code_graph` | 4,000 repositories of 2 files: functions and classes nested both ways, same names within and across files, decorators, imports, unparsable files | entities hold what is written in them, no dangling edges, called code of a unique name is live, the dead code scans agree up to their limits, what the agents can and cannot see, what is generated of files without imports |
| `okf_index` | 9 directory trees, 2 parses, 3 embedders of 2 dimensions, 3 row ids | every concept is indexed by its present text under the embedder on record, reads return what matches, reads by type all of it; links lead where they say, unless written with ".." or an anchor |
| `platform_services` | one key with 2 hash fields, lists of 2, clock to 3; one tool, 3 callers, rates 0 to 2 in minutes of 2 ticks; 2 threads, 3 observations, 2 resets | what outlived its key stays behind the expiry, rates are honoured, tokens keep flowing to those who wait, snapshots account for observations |
| `edge_partitions` | 1 caller, 2 edge rows | violated: the second flush of edges overwrites the first |
| `generated_code` | the instance of `code_graph` | violated: a class in a file with an import is written nowhere |

Bounds. Two workers and two runs with a handler are what any race over a claim, a cancel or
a retry needs, and the third run makes the queue order matter. A clock of 1 that goes
on while a worker is busy lets a run time out (`Timeout = 1`) and be swept at the very boundary:
`TTL` is `Timeout + Lag`, with a lag of 1 in `service_liveness` and 0 in `service_safety`. One stop gives every
interruption of two workers and a restart. Three handlers give a first, a middle and a last
one to unsubscribe during a fan-out; two publish calls interleave. Four node rows allow three
flushes of which two overlap after a reset. Symmetry is used for runs with a handler, workers, publish
calls, callers and two of the node ids, which no definition tells apart; the
liveness run declares none. Three ids and two layers give a chain to inline, overlapping
cycles, acyclic layers of three levels, and nodes that live in one layer or in both, which
is what decides whether a pass is kept: TLC reaches kept and reverted results of every pass but
the first, which is always kept. `MediumChange = 3` stands for the threshold of 50 changes, so
that all four risk levels occur. The limit of ten successors is lowered to six, which
three ids do not exceed even when all are split; the graphs with leaves exceed it before a pass, after it
(a split node adds one), or both. No path is as long as the depth limit of 50. The theorems are about any limits.

In `code_graph` the thresholds are lowered so that graphs of four nodes reach them, and the limits (two entry
points of the scan where the code has 25, one node instead of five, one sensitive flow instead of 50) so that they cut
something off; the theorems are about any limits. In
`okf_index` the number of candidates is the number of hits asked for, at least two
(`FetchFactor`, `FetchFloor`), where the code has four times and thirty: so two stale rows are
enough to crowd out live ones. Three row ids are a write, a rewrite and another concept; two
embedders share a dimension and two share a name, so each half of the record matters.
`MaxIdle` is twice a minute, by when a bucket of any rate is full. A minute of two ticks has a
window shorter than a minute and a full one; rate 1 needs both ticks for a token and rate 2
allows a burst. Three callers, each invoking as often as it likes, are two that compete and one that keeps an old rate. Three
observations by two threads, with two resets, give a registry that is cleared and forgotten
while a thread still writes through it, and percentiles of one, two and three samples.

Deadlock is checked except where the system may really stop: a service whose workers have
all died and whose clients send nothing (`service_liveness`), a knowledge graph that nobody adds
to (the bounds on rows are used up), the end of the optimisation pipeline and of the code graph
pipeline, and the services of an agent, whose bounds are used up.

Fairness. `FairSpec` asks weak fairness of `Start` (a stopped service is started again), of the
clock, of each worker's poll (the poll interval is finite), of a timeout that is due and of an
invocation that finds no handler and so never suspends: what the event loop owes every task that
can run. Nothing obliges a handler to return or to raise, so `WorkersComeBack` rests on the
timeout alone. Clients, cancels, faults, stops and sweeps are under no obligation either.
`platform_services` asks weak fairness of the clock and of each caller's poll: `acquire()`
polls every 10 ms for as long as it waits. Nothing is asked of registrations, of new invocations or of
handlers, which may never end. A poll that finds no token is a step too, so the fairness does not say that a
token comes; that follows from the refill. `TokensFlow` promises the token to the callers of a tool
together: callers do not queue, and any one of them may starve. It makes an exception where a caller
waits at rate zero, without which it is false: see below.

## Findings

1. `complete()` and `requeue()` write by run id alone. A run cancelled while its agent is
   executing becomes SUCCEEDED, FAILED or PENDING again (`cancel_is_final`). What does hold,
   and is proved, is that a run cancelled while nobody executes it stays cancelled, and that
   SUCCEEDED and FAILED are final.
2. The retry budget never takes effect: the setting is not stored with the run, and the
   attempt is counted twice on the way through `requeue()` (`retry_budget`). A requeued run
   is failed by the next claim without being executed; at-most-once execution, which is
   proved, depends on it.
3. Edge partitions are named after the node table, so consecutive `add_edges()` calls
   overwrite one another in the object store (`edge_partitions`).
4. The backend writes no code of a file that imports anything: the import's module node claims the
   file's definitions through `is_under_modules()`, and no edge makes them its children, so they are
   neither written with the module nor with what is left (`generated_code`). What does hold, and is proved, is
   that the classes of a file without imports are written (`ImportFreeGenerated`).

Observations without a run of their own, met while modelling:

- `build_summary()` compares risk levels as strings: three reports of low risk and one of a pass
  that was reverted with high risk give the highest risk "low". `RISK_ORDER` is not used. The summary is
  right about the passes it kept (`KeptRiskReported`), because high and critical passes are reverted.
- `add_nodes()` appends a node to the mirror before it serialises its attributes: where that raises,
  queries see a node that is never written, though the docstring promises that it is buffered. The rows
  that were serialised are kept, which is proved (`NodesAreKept`).
- The verification follows ten of the ids that an id reaches. Where there are more, a pass that cuts a path
  among the rest may be kept as behaviour-preserving: main calls ten leaves and two functions that call
  each other, both beyond the ten, and the cleaning of cycles separates them with low risk. Within
  the limit this never happens, and the depth limit does no harm at all, which is proved (`Behaviour`,
  `TraceTest`): every id reaches its descendants directly in this search, so a trace of three ids already tells.
- `reduce_complexity()` leads the edges into a split node to its last part and lets the edges out
  of it leave from the first, so nothing passes through it: such a result is kept only if another
  layer holds the same paths. The parallel branches are computed from the index of the input, so
  they may name nodes that were removed.
- `find_node()` and the agents' own maps take an id's node from the first layer, the call layer,
  which fills in neither boundaries nor side effects. So the boundaries of the security layer and
  the side effects of the control flow and resource layers never reach a report:
  `AgentsSeeTheCallLayer` says exactly what is left (every access to a security concern is a
  crossing out of "none", no untrusted feed is ever found, all popular code counts as pure).
- `get_inheritance()` of the backend looks along edges from the class to its bases in the wrong direction.
- Relative links are documented to be "resolved against the linking concept's directory" and broken ones to be
  those whose "target doesn't exist" (`bundle.py:144-149`), but a link with a ".." segment is looked up as it is written
  and so is no edge, and the validator warns of it, also where the file exists. The same holds of a link with an
  anchor. `LinksFollowed` promises edges to the other links only.
- A stale full-text or vector row takes one of the places of an unfiltered `read()` before it is
  skipped, so `read(q, top=1)` may return nothing although a concept matches. With a type filter
  this cannot happen, which `HitsMatch` states. A type of blanks is stored as an empty one, and a
  read that would return it raises.
- `PydaxisAIEmbedder` is called "pydaxis-ai" whatever its model (`llm_embed.py:28`), unless its caller names it, so the record of the embedder tells models of different
  widths apart and no others: that all vectors are of one model (`CurrentIndexed`) presumes names that tell models apart.
- A crash between the two transactions of opening an index lets an embedder of another dimension be
  recorded; every text is then refused. The index stays consistent (`CurrentIndexed`) but is useless.
- Re-ingesting a repository removes nothing, and methods of one name in a file overwrite one another
  while the returned count includes both.
- A caller waiting at rate zero never returns and sets the bucket to zero at each poll, so callers
  at any other rate starve with it. A rate of zero can be a definition that was replaced meanwhile.
  At any rate a caller may poll in vain for ever while others, who came later, take every token
  (`rate_limit.py:58-70`): `acquire()` keeps no queue.
- `set()` on an expired key takes the deadline away, and with it revives an expired hash or list
  under that key; this is why `ExpiredStaysGone` excepts `set()` and `expire()`. `rpop()` and `incr()` do not
  ask for the deadline at all (`store.py:84-89` and `124-129`): they hand out, or go on from, data of an expired
  key, and what `lpush()` adds to such a key is lost at its next purge.
- `get_metrics()` is not locked: two threads at first use may get different registries, of which one
  is never rendered. Percentiles are documented to be nearest-rank (`metrics.py:172` and `187`), but the
  index `int(p * n)` is one above the nearest rank when `p * n` is whole. `SnapshotAccounts` is weaker
  and holds of both.

## Proofs

`RunServiceProofs` proves, for every set of runs and workers and every value of the
constants that satisfies `ServiceAssumption`:

- `Safety`, `TypeCorrect`, `Exclusive`, `Budget`, `Results`: the invariants of
  `service_safety`;
- `ResultIsFinal`, `CancelledStays`, `ExpiryIsSafe`, `OrphansNeedFailures`: its action
  properties;
- `Refinement`: `Spec => AtMostOnce`, the implementation of `RunLifecycle`.

None of these properties is inductive alone. A late `complete()` is harmless only because
the row its worker holds is still RUNNING, CANCELLED or DELETED; that in turn holds only
because no other action makes a held row PENDING; and the number of invocations is bounded
only because a requeued row is already out of retries. `IInv` states these together: the
type invariant; `WorkersConsistent` (a stopped service has no worker, a busy one holds a run);
`ExclusiveExecution`; `AttemptInStep` (the attempt a worker remembers is the row's);
`DeadlineKept` (an invocation is no older than the timeout and the delay of its timer, and a running row was last updated
by its claim); `AttemptsCover` (a run was invoked at most as often as its row counts, and every
row has the budget 1); `WithinBudget`; and `ResultMatchesStatus`. Lemmas say what each table operator does to one row and that it leaves
the others alone; one lemma per action shows that it preserves `IInv`; `StepOnRow` condenses
what one step may do to one row, from which the action properties follow; and one lemma per
action shows that it maps to a step of `RunLifecycle` or a stutter.

`EventBusProofs`: `TypeCorrect`, `IdsAreFresh`, `FanOut` and `DeadLetters` are the
invariants of `event_bus`, for any topics (at least one), queues, publish calls and bounds. `Indexes` adds that
the list of a topic and the map of ids name the same handlers (`IndexesAgree`), which
is not inductive: `unsubscribe()` finds the topic through the handler, so
an id must stand for the handler that got it since the last reset (`IdsStandForOwners`), numbers
must only grow between resets (`NumbersCounted`), and whatever a list, a copy or an id names must
have been made before (`NamesMade`). `CallsProgress` ties what a call has parked to what it has
been through, from which the multiplicities of the dead-letter queues follow by counting.

`KnowledgeGraphProofs`: `TypeCorrect`, `NodesAreKept`, `NodesAreStoredOnce` and the action
property `PartitionsAreFinal` (`NodePartitionsKept`), for any number of callers, rows, batches and
restarts. The heart of the invariant is `NumbersGrow`: within one run of the graph no two node
flushes have the same number and the next number is free, because every flush adds a row and the
number is the size of the table. It needs the run (`epoch`) each flush and partition belongs to,
`EpochsPast` and `StaleRowsGone`. Where buffered rows are while nothing was disturbed
(`Undisturbed`), or while nothing overlapped (`Alone`, `WrittenKept`, `StoredApart`), gives the two
storage properties. The same argument fails for edges at `NumbersGrow`: the number does not count
them, which is finding 3.

`OkfIndexProofs`: `Indexed` (`CurrentIndexed`), `HitsAreMatches` (`HitsMatch`) and `Links`
(`LinksFollowed`), for any directory trees, repositories and embedders, over any number of crashes
and reopenings.
`CurrentIndexed` needs `OneEmbedder`, which carries the embedder of a connection through the two
transactions of the constructor, and `RowsNumbered`, by which a next row id exists and is new.
`HitsMatch` is then a fact about every state: any answer, for any type and number of hits,
with or without a filter. `LinksFollowed` is one about every directory tree: `normalise_path()` and
the rules of paths are recursive functions over segments, proved to agree where no segment is ".."
(`FollowIsNormal`); where one is, or where an anchor follows, what the code looks up keeps it
(`NormalRange`) and is the name of no file, so no link leads to a wrong one. That the validator's count of unresolved links is 0
only if there are none needs that they are finitely many (`LinksFinite`).

`PlatformServicesProofs`: `RatesAreHonoured` (`RateHonoured`) is proved from the potential
`WithinBudget`: what a tool was given in the last *n* ticks plus what its bucket could give now is
at most the budget of *n* ticks. A grant moves a token from one to the other, and a tick adds
to the budget at least what it adds to the bucket, also when rates were changed while callers waited.
The windows are the history variable `grants`, which counts per tool and length; no code reads it.
`ExpiredKeysAreGone` (`ExpiredStaysGone`) is inductive once the clock and the deadlines are numbers
(`TimesAreNumbers`): a step that gives a key another deadline revives it (`DeadlinesMoveKeepGone`), and any other
step that lifts an expiry takes the key's data out of all three tables (`DataLeaveKeepsGone`). `SnapshotsAccount` (`SnapshotAccounts`)
needs for the counts that no metric object is in two registries and that a thread whose object a
reset forgot can no longer change a count that is shown (`ThreadsHold`), and that a reset under way clears a
registry there is (`ResetKnows`). For the percentiles, that the
places of a stable sort are all taken (`PlacesTaken`: they are distinct and no more than the samples),
and that the clamped index is right for every number of observations (`PercentileDivides`).

`CodeGraphProofs`: `TypeCorrect`, `Entities` (`EntitiesAsWritten`), `NoDanglingEdges`, `CallsKeepAlive`,
`ScansAgree`, `AgentsAskTheCallLayer` and `ImportFreeIsWritten` (`ImportFreeGenerated`) are the invariants of `code_graph`,
for every repository. The inductive invariant has two parts. `ParserInv` says that the stack of scopes is
as deep as the definitions entered and not yet left, that each scope points at an entity of its
own name, and that a file that does not parse leaves no scope behind. For `Entities` a second
invariant, `IsRead`, relates the visitor to the text: of every depth up to the present exactly one
definition is open (`AroundIs`, `AroundEachDepth`), the scope at that depth is its scope and has
collected what stands in it so far, and the entity of a definition that is closed has all that was
collected; each visit keeps this (`ReadEnter`, `ReadLeave`, `ReadCollecting`), so nothing is said of
the text but how depth changes from one visit to the next. `PipelineInv` says that what each
stage left is what its operator makes of what earlier stages left. With it each property becomes a
fact about `BuildAll`, `AnalyzeSoftwareGraph` or `Generate` for an arbitrary list of entities,
and is proved layer by layer: for `NoDanglingEdges` one lemma per builder, for `CallsKeepAlive` and `ScansAgree`
what the closure over call edges contains, for `AgentsAskTheCallLayer` that every id an agent looks up
in another layer is found in the call layer first or is of a made-up prefix, for
`ImportFreeIsWritten` which nodes are under no module and that they are what the last file is made from.

`OptimizationPipelineProofs`: `TypeCorrect`, `Behaviour` (`BehaviourPreserved`), `DeadCode`
(`DeadCodeGone`), `TraceTest` (`TraceTestExact`), `Cleaned` (`CyclesCleaned`) and `Branches`
(`BranchesAreLevels`), for any layers, entry points, graphs and limits of the search. `DeadCode`, `Cleaned` and `Branches` hold
whether or not a search is truncated; `Behaviour` until a pass is given a graph whose search is, and
`TraceTest` for each pair of graphs whose searches are not. The traces are a recursive function over paths; it is shown to
return the walks that end at an id without successors, at their first repetition or at the depth limit, and every walk
to extend to such a trace because the ids are finitely many. From this `TraceTestIsSound`: if no trace of an
untruncated search is lost, every live id reaches at least what it reached, and
nothing where it reached nothing, for which traces of up to three ids are enough (`NothingLost`), so that a depth limit of two
or more cuts nothing the test needs; and its converse `TraceTestIsComplete` (`TracesCarryOver`). The other half is that a pass `Narrows` the graph: it may replace
edges, split nodes and cut cycles, but it makes no id of the input reach another that it did not
reach. A verified pass thus reaches exactly the same (`VerifiedBehaves`), and a reverted one changes
nothing. That a pass narrows is not a fact of every graph: inlining and splitting rest on edges leaving from
nodes of their layer, splitting on there being no parts yet, so the invariant carries both. The first
pass is kept because everything that a live id reaches is live, so that both searches take the same steps from it (`FirstPassKept`).
For `Cleaned`, the recursion that extends simple paths is defined and lists every simple cycle of a component
(`CycleListed`). A component of the cleaned graph would contain a simple cycle; that cycle lies
in a component of the graph before, so it was listed and lost an edge (`CyclesAreCut`). For `Branches`,
without a cycle every set of ids has one that none of the others precedes, so `Depth` is
defined (`DepthsExist`), and what the iteration places in each round is exactly the ids of that depth
(`LevelsByDepth`). A self-loop is a cycle here, as it is for networkx: `Depth` would have no value.

`FiniteLemmas` holds what several of these share. Induction is stated for sets, where it needs no operator
parameter: a set of naturals with 0 and all successors is `Nat`; a set of subsets of a finite
set closed under adding an element has the whole set; a family of subsets has a maximal one.
`ClosureIsLeast` proves that the recursive function `Closure` of `Digraphs` is defined and returns the
least closed superset; the proofs about graphs use only that (`ReachableFacts`).

### Assumptions on the constants

| assumption | why the code justifies it |
|---|---|
| `ServiceAssumption` | timeouts, budgets and limits are numbers within the bounds of the settings |
| `BusAssumption` | there is a topic to publish to; no dead-letter queue is called "none" |
| `GraphAssumption` (`KnowledgeGraph`) | the bounds are numbers |
| `IndexAssumption` | `read()` asks for at least one candidate per hit |
| `DirectoriesAssumption` | `rglob()` returns finitely many paths, without "." and ".." segments, and a text has finitely many links; a link that is not external names a file or its anchor, and no file or directory name ends in that anchor (with a file `b#.md`, a link to the anchor of `b` would lead there) |
| `TtlAssumption`, `ToolAssumption` | deadlines are integers; rates are finitely many naturals, a minute has a tick (the field of a definition is an integer without a bound: at a negative rate a bucket falls below empty and no token is ever given, which is left out) |
| `GraphAssumption` (`SoftwareGraph`) | a graph has finitely many ids |
| `PipelineAssumption` | entry points are ids and no id looks like a split part; the edges of a layer join its nodes (`NoDanglingEdges` proves it of `build_all()`); the search follows at least one successor to a depth of at least two (ten and 50 in the code) |
| `MetricsAssumption` | what is observed are numbers |
| `ParserAssumption` | a text is what the `ast` module visits: no scope is left that was not entered, and every one that is entered is left; the walk lists files |
| `LayersAssumption` | a name that matches "auth" contains an authentication pattern |
| `CodeGraphAssumption` | ids are a file or a made-up prefix with a name; `repo`, `module`, `security` and the other prefixes are not paths of Python files, which end in `.py` |

Each is an `ASSUME` of the module that declares the constants, and TLC evaluates it in every run.

### Only model-checked

- Liveness: `service_liveness` and `TokensFlow`. The prover has no support for fairness.

## Not modelled, and the plan

- HTTP parsing and the bearer token, core models, the AI runtime's configuration, logging and
  tracing, the SDK's sandbox and manifest: no state, or input and output.
- The catalogue of agents and the tenant context: dictionaries and context variables that one task
  fills and reads; what an agent does in a run is the outcome of an invocation in `RunService`.
- `get()`, `delete()` and `list()` of the object stores: nothing in the repository deletes
  objects, so their test-then-use has no rival.
- In the analysis agents: execution and critical paths, communities (a heuristic of networkx), the
  detectors over parameters and return types, texts and scores. In the backend: the text of a
  definition. In the OKF package: `save_concept()`, citation labels, ranks.
- `detect_duplicates()`.
