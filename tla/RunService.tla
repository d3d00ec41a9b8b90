----------------------------- MODULE RunService -----------------------------
(***************************************************************************)
(* The run service of intelliqx_service/app.py: the HTTP endpoints that    *)
(* submit and cancel runs, the embedded workers that drain the queue       *)
(* through the compute runtime (intelliqx_compute/runtime.py), and the     *)
(* lifespan that starts and stops them, over the run table of RunStore.    *)
(*                                                                         *)
(* Everything runs on one event loop, so a step is what happens between    *)
(* two awaits.  A worker gives the loop up in two places: while its agent  *)
(* is being invoked (pc = "busy") and while it waits for work.  The claim  *)
(* of a run and the record of its outcome are two transactions: even where *)
(* the loop is not given up between them (an agent without a handler), a   *)
(* crash, a store error or another process may come between.               *)
(***************************************************************************)
EXTENDS RunStore

CONSTANTS
    Workers,        \* the worker coroutines, max(INTELLIQX_WORKERS, 1) of them
    MaxRetries,     \* settings.max_retries (INTELLIQX_MAX_RETRIES)
    Unregistered,   \* the runs submitted for an agent that has no handler
    Timeout,        \* INVOCATION_TIMEOUT_SECONDS, in clock ticks
    Lag,            \* how many ticks late the event loop may come to a timer that is due
    TTL,            \* settings.run_ttl_seconds (INTELLIQX_RUN_TTL), in clock ticks
    StoreFaults,    \* may a store call of a worker raise (disk full, locked, not JSON)?
    Sweeping,       \* does anyone call close_expired()?  The app itself never does
    MaxClock,       \* bound on the clock
    MaxStops,       \* bound on the number of shutdowns and crashes
    NoRun

ASSUME ServiceAssumption ==
    /\ Workers # {}
    /\ MaxRetries \in Int /\ Timeout \in Nat /\ Lag \in Nat /\ TTL \in Int
    /\ MaxClock \in Nat /\ MaxStops \in Nat
    /\ Unregistered \subseteq Runs
    /\ StoreFaults \in BOOLEAN /\ Sweeping \in BOOLEAN
    /\ NoRun \notin Runs

VARIABLES
    rows,       \* the `runs` table; the only thing that survives a stop
    up,         \* is the process serving (between lifespan's start and its finally)?
    worker,     \* what each worker coroutine is doing, with its local variables
    clock,      \* time.time()
    stops,      \* how often the process stopped
    invoked     \* history: how often each run's agent was invoked

vars == <<rows, up, worker, clock, stops, invoked>>

\* A worker is "off", "polling" for work, "busy" in invoke() or "dead".  While it is busy
\* it holds the run it claimed, the next_attempt claim_next() returned and the time its
\* invocation started.
Worker == [pc : {"off", "polling", "busy", "dead"}, job : Runs \cup {NoRun},
           attempt : Nat, since : Int]
Idle(pc) == [pc |-> pc, job |-> NoRun, attempt |-> 0, since |-> 0]
Busy(r, att, now) == [pc |-> "busy", job |-> r, attempt |-> att, since |-> now]

TypeOK ==
    /\ rows \in [Runs -> Row]
    /\ up \in BOOLEAN
    /\ worker \in [Workers -> Worker]
    /\ clock \in Nat
    /\ stops \in Nat
    /\ invoked \in [Runs -> Nat]

\* The runs some worker has claimed and not recorded yet.
Holds(w, r) == worker[w].pc = "busy" /\ worker[w].job = r
Held(r) == \E w \in Workers : Holds(w, r)

Init ==
    /\ rows = NewTable
    /\ up = FALSE
    /\ worker = [w \in Workers |-> Idle("off")]
    /\ clock = 0
    /\ stops = 0
    /\ invoked = [r \in Runs |-> 0]

\* A worker whose claimed agent has no handler runs on from the claim to the record: no
\* other coroutine of the process gets the event loop meanwhile.
HoldsLoop(w) == worker[w].pc = "busy" /\ worker[w].job \in Unregistered
LoopFree == \A w \in Workers : ~HoldsLoop(w)

-----------------------------------------------------------------------------
(* lifespan *)

\* A start that puts interrupted runs back into the queue (for the mutation checks).
StartRequeueing ==
    /\ ~up
    /\ up' = TRUE
    /\ worker' = [w \in Workers |-> Idle("polling")]
    /\ rows' = [r \in Runs |-> IF rows[r].status = "RUNNING"
                               THEN [rows[r] EXCEPT !.status = "PENDING", !.attempts = 0]
                               ELSE rows[r]]
    /\ UNCHANGED <<clock, stops, invoked>>

\* Entering lifespan: the database is opened as it was left and every worker starts.
\* Nothing looks at rows that are still RUNNING.
Start ==
    /\ ~up
    /\ up' = TRUE
    /\ worker' = [w \in Workers |-> Idle("polling")]
    /\ UNCHANGED <<rows, clock, stops, invoked>>

\* Leaving lifespan cancels the worker tasks, and CancelledError passes through every
\* `except Exception`; a crash has the same effect on the table, at any moment: what a
\* worker has claimed is left as it is in the database.
Stop ==
    /\ up /\ stops < MaxStops
    /\ up' = FALSE
    /\ worker' = [w \in Workers |-> Idle("off")]
    /\ stops' = stops + 1
    /\ UNCHANGED <<rows, clock, invoked>>

-----------------------------------------------------------------------------
(* HTTP endpoints *)

\* POST /v1/runs: a fresh uuid; settings.max_retries is not passed on.
Submit(r) ==
    /\ up /\ LoopFree
    /\ rows[r].status = "ABSENT"
    /\ rows' = Enqueued(rows, r, DefaultMaxRetries, clock)
    /\ UNCHANGED <<up, worker, clock, stops, invoked>>

\* DELETE /v1/runs/{run_id}, when it does not answer 409.
Cancel(r) ==
    /\ up /\ LoopFree
    /\ Cancellable(rows, r)
    /\ rows' = Cancelled(rows, r, clock)
    /\ UNCHANGED <<up, worker, clock, stops, invoked>>

-----------------------------------------------------------------------------
(* workers *)

\* A worker that forgets to requeue a run it may retry (for the mutation checks).
RecordedWithoutRequeue(t, r, response, att) ==
    CASE response = "ok" -> Completed(t, r, "SUCCEEDED", clock)
      [] response # "ok" /\ (response = "raised" \/ att >= MaxRetries)
                         -> Completed(t, r, "FAILED", clock)
      [] OTHER           -> t

\* _record_outcome() and the except branch of _process_claim(): what a worker writes
\* when its invocation of r ended with `response`.
Recorded(t, r, response, att) ==
    CASE response = "ok" -> Completed(t, r, "SUCCEEDED", clock)
      [] response # "ok" /\ (response = "raised" \/ att >= MaxRetries)
                         -> Completed(t, r, "FAILED", clock)
      [] OTHER           -> Requeued(t, r, att + 1, clock)

\* The oldest pending row is out of retries: claim_next() fails it and returns None, and
\* the worker waits for the next poll.
PollExhausted(w, r) ==
    /\ worker[w].pc = "polling" /\ LoopFree
    /\ IsOldestPending(rows, r) /\ Exhausted(rows, r)
    /\ rows' = ClaimFailed(rows, r, clock)
    /\ UNCHANGED <<up, worker, clock, stops, invoked>>

\* A claim: the worker calls invoke(), which finds the agent's handler, if it has one, and
\* suspends on it.
Claim(w, r) ==
    /\ worker[w].pc = "polling" /\ LoopFree
    /\ IsOldestPending(rows, r) /\ ~Exhausted(rows, r)
    /\ rows' = Claimed(rows, r, clock)
    /\ worker' = [worker EXCEPT ![w] = Busy(r, rows[r].attempts + 1, clock)]
    /\ invoked' = [invoked EXCEPT ![r] = @ + IF r \in Unregistered THEN 0 ELSE 1]
    /\ UNCHANGED <<up, clock, stops>>

\* An invocation without wait_for's timeout (for the mutation checks).
EndsUntimed(w, response) ==
    IF HoldsLoop(w)
    THEN response = "not_found"
    ELSE LoopFree /\ response \in {"ok", "error", "raised"}

\* How an invocation ends: with "not_found" where the agent has no handler; otherwise the
\* handler returns or raises ("ok", "error"), wait_for gives up on it ("timeout"), or a
\* custom runtime's invoke() itself raises.
EndsWith(w, response) ==
    IF HoldsLoop(w)
    THEN response = "not_found"
    ELSE /\ LoopFree
         /\ \/ response \in {"ok", "error", "raised"}
            \/ response = "timeout" /\ clock - worker[w].since >= Timeout

\* A worker that keeps its claim after recording it (for the mutation checks).
FinishKeepingClaim(w, response) ==
    /\ worker[w].pc = "busy"
    /\ EndsWith(w, response)
    /\ rows' = Recorded(rows, worker[w].job, response, worker[w].attempt)
    /\ UNCHANGED <<up, worker, clock, stops, invoked>>

\* The invocation ends and its outcome is recorded, whatever happened to the row since.
Finish(w, response) ==
    /\ worker[w].pc = "busy"
    /\ EndsWith(w, response)
    /\ rows' = Recorded(rows, worker[w].job, response, worker[w].attempt)
    /\ worker' = [worker EXCEPT ![w] = Idle("polling")]
    /\ UNCHANGED <<up, clock, stops, invoked>>

\* A store call of a worker raises: the transaction is rolled back and the exception,
\* which nothing catches, ends the worker task for good.
Die(w) ==
    /\ StoreFaults
    /\ worker[w].pc \in {"polling", "busy"}
    /\ worker' = [worker EXCEPT ![w] = Idle("dead")]
    /\ UNCHANGED <<rows, up, clock, stops, invoked>>

-----------------------------------------------------------------------------
(* maintenance and time *)

\* close_expired(): called by an operator, never by the service.
CloseExpired ==
    /\ Sweeping
    /\ rows' = Swept(rows, clock, TTL)
    /\ UNCHANGED <<up, worker, clock, stops, invoked>>

\* Time passes, but an invocation is over at most Lag ticks after its deadline: wait_for's
\* timer is served as soon as the loop comes to it.  Time goes on past MaxClock until the
\* invocations in progress are over.
Tick ==
    /\ clock < MaxClock \/ \E w \in Workers : worker[w].pc = "busy"
    /\ \A w \in Workers : worker[w].pc = "busy" => clock - worker[w].since < Timeout + Lag
    /\ clock' = clock + 1
    /\ UNCHANGED <<rows, up, worker, stops, invoked>>

-----------------------------------------------------------------------------
\* A turn of a worker's loop that finds a pending row.
Poll(w) == \E r \in Runs : PollExhausted(w, r) \/ Claim(w, r)

WorkerStep(w) ==
    \/ Poll(w)
    \/ \E response \in {"ok", "error", "timeout", "raised", "not_found"} : Finish(w, response)

Next ==
    \/ Start
    \/ Stop
    \/ \E r \in Runs : Submit(r)
    \/ \E r \in Runs : Cancel(r)
    \/ \E w \in Workers : WorkerStep(w)
    \/ \E w \in Workers : Die(w)
    \/ CloseExpired
    \/ Tick

Spec == Init /\ [][Next]_vars

\* Time passes, the event loop serves the poll of every worker and the timers that are
\* due, an invocation that finds no handler runs through, and a stopped service is started
\* again.  Handlers are under no obligation to return, and neither are clients, operators,
\* faults and stops.
Fairness ==
    /\ WF_vars(Start)
    /\ WF_vars(Tick)
    /\ \A w \in Workers : /\ WF_vars(Poll(w))
                          /\ WF_vars(Finish(w, "timeout"))
                          /\ WF_vars(Finish(w, "not_found"))

FairSpec == Spec /\ Fairness

-----------------------------------------------------------------------------
(* Properties *)

\* No run is executed by two workers at once, and a run that is waiting in the queue is
\* executed by nobody: claim_next() hands a run to one worker, and nothing that can happen
\* during the invocation (a cancel, an expiry, a crash of another worker) puts it back
\* into the queue under that worker's feet.
ExclusiveExecution ==
    \A w \in Workers, r \in Runs : Holds(w, r) =>
        /\ rows[r].status \in {"RUNNING", "CANCELLED", "DELETED"}
        /\ \A v \in Workers : Holds(v, r) => v = w

\* The agent of a run is invoked no more often than the row's retry budget allows, over
\* all workers, retries, cancellations and restarts.
WithinBudget == \A r \in Runs : invoked[r] <= rows[r].maxRetries

\* A row shows a result only in the state that goes with it: a run that is waiting,
\* running or cancelled never shows an output or an error left by an earlier invocation,
\* and a run that succeeded shows its output.
ResultMatchesStatus ==
    \A r \in Runs :
        /\ rows[r].outcome = "output" <=> rows[r].status = "SUCCEEDED"
        /\ rows[r].outcome = "error" => rows[r].status = "FAILED"

\* What a client saw as SUCCEEDED or FAILED is final: no late worker, retry, cancel,
\* expiry or restart changes it, although complete() and requeue() update the row whatever
\* its status is.
FinalResult ==
    [][\A r \in Runs : rows[r].status \in {"SUCCEEDED", "FAILED"} => rows'[r] = rows[r]]_vars

\* A run that was cancelled before a worker picked it up stays cancelled.
CancelledBeforeStart ==
    [][\A r \in Runs : rows[r].status = "CANCELLED" /\ ~Held(r) => rows'[r] = rows[r]]_vars

\* A running run loses its worker without being recorded only when the process stops or
\* that worker dies of a store error.
OnlyFailuresOrphan ==
    [][\A r \in Runs :
          Held(r) /\ ~Held(r)' /\ rows'[r].status = "RUNNING"
             => ~up' \/ \E w \in Workers : Holds(w, r) /\ worker'[w].pc = "dead"]_vars

\* close_expired() never deletes the row of a run that is still executing, provided the
\* TTL is no shorter than the invocation timeout and the delay of its timer.
ExpiryTakesOnlyOrphans ==
    [][TTL >= Timeout + Lag =>
          \A r \in Runs : rows'[r].status = "DELETED" /\ Held(r) => rows[r].status = "DELETED"]_vars

\* How far a run has got: a PENDING run is queued for execution only while it has retries
\* left; otherwise the next claim fails it.
PhaseOf(r) ==
    CASE Held(r) -> "executing"
      [] ~Held(r) /\ rows[r].status = "ABSENT" -> "new"
      [] ~Held(r) /\ rows[r].status = "PENDING" /\ ~Exhausted(rows, r) -> "queued"
      [] OTHER -> "over"

Lifecycle == INSTANCE RunLifecycle WITH phase <- [r \in Runs |-> PhaseOf(r)]

\* The service implements RunLifecycle: over all workers, retries, cancellations, worker
\* deaths, stops and restarts, a worker takes a run up for execution at most once.
AtMostOnce == Lifecycle!Spec

\* Every submitted run ends, unless its worker was lost (the row then stays RUNNING) or no
\* worker is left.
Orphaned(r) == rows[r].status = "RUNNING" /\ ~Held(r)
EveryRunSettles ==
    \A r \in Runs : rows[r].status = "PENDING"
        ~> \/ rows[r].status \in Terminal
           \/ Orphaned(r)
           \/ \A w \in Workers : worker[w].pc = "dead"

\* Every invocation that has begun is eventually given up by its worker, which is then
\* free for another run or gone: no handler is obliged to return, so only the timeout of
\* wait_for() guarantees it.
WorkersComeBack == \A w \in Workers : worker[w].pc = "busy" ~> worker[w].pc # "busy"

\* A cancelled run stays cancelled: cancel() treats CANCELLED as one of the terminal
\* states.
CancelledIsFinal ==
    [][\A r \in Runs : rows[r].status = "CANCELLED" => rows'[r].status = "CANCELLED"]_vars

\* A run fails for transport failures only after settings.max_retries invocations.
RetryBudgetHonoured ==
    \A r \in Runs \ Unregistered :
        rows[r].status = "FAILED" /\ rows[r].attempts > 1 => invoked[r] >= MaxRetries
=============================================================================
