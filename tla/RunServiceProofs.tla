-------------------------- MODULE RunServiceProofs --------------------------
(***************************************************************************)
(* Theorems about the run service, for every set of runs and workers, every *)
(* retry setting, timeout, TTL and bound.                                  *)
(***************************************************************************)
EXTENDS RunService, TLAPS

(* The inductive invariant, in named parts. *)

\* A stopped service has no running coroutine, and a busy worker is busy with a run.
WorkersConsistent ==
    \A w \in Workers : /\ ~up => worker[w].pc = "off"
                       /\ worker[w].pc = "busy" => worker[w].job \in Runs

\* A worker's copy of the attempt is the row's: nobody else touches the row's attempts
\* while the run is executing.
AttemptInStep ==
    \A w \in Workers, r \in Runs : Holds(w, r) => worker[w].attempt = rows[r].attempts

\* updated_at of a running row is the moment its worker claimed it, and no invocation
\* outlives its timeout by more than the delay of its timer.
DeadlineKept ==
    \A w \in Workers, r \in Runs : Holds(w, r) =>
        /\ clock - worker[w].since <= Timeout + Lag
        /\ rows[r].status = "RUNNING" => rows[r].updated = worker[w].since

\* The invocations are covered by the counted attempts, which start at zero.
AttemptsCover ==
    \A r \in Runs :
        /\ invoked[r] <= rows[r].attempts
        /\ rows[r].status = "ABSENT" => rows[r].attempts = 0
        /\ rows[r].status # "ABSENT" => rows[r].maxRetries = DefaultMaxRetries

IInv ==
    /\ TypeOK
    /\ WorkersConsistent
    /\ ExclusiveExecution
    /\ AttemptInStep
    /\ DeadlineKept
    /\ AttemptsCover
    /\ WithinBudget
    /\ ResultMatchesStatus

-----------------------------------------------------------------------------
(* What each table operator does to the table, field by field. *)

LEMMA StatusTypes ==
    {"PENDING", "RUNNING", "ABSENT", "DELETED", "SUCCEEDED", "FAILED", "CANCELLED"} = Status
BY DEF Terminal, Status

\* u is table t with the row of r replaced by one with the given columns; maxRetries and
\* created are those of t.
Changed(t, u, r, status, attempts, outcome, now) ==
    /\ u \in [Runs -> Row]
    /\ \A s \in Runs : s # r => u[s] = t[s]
    /\ u[r].status = status
    /\ u[r].attempts = attempts
    /\ u[r].maxRetries = t[r].maxRetries
    /\ u[r].outcome = outcome
    /\ u[r].updated = now

\* Replacing one row by a row gives a table.
LEMMA OneRow ==
    ASSUME NEW t \in [Runs -> Row], NEW r \in Runs, NEW row \in Row
    PROVE  /\ [t EXCEPT ![r] = row] \in [Runs -> Row]
           /\ [t EXCEPT ![r] = row][r] = row
           /\ \A s \in Runs : s # r => [t EXCEPT ![r] = row][s] = t[s]
OBVIOUS

\* enqueue() inserts a fresh PENDING row.
LEMMA EnqueuedRow ==
    ASSUME NEW t \in [Runs -> Row], NEW r \in Runs, NEW m \in Nat, NEW now \in Int
    PROVE  LET u == Enqueued(t, r, m, now)
           IN  /\ u \in [Runs -> Row]
               /\ \A s \in Runs : s # r => u[s] = t[s]
               /\ u[r] = [status |-> "PENDING", attempts |-> 0, maxRetries |-> m,
                          created |-> now, updated |-> now, outcome |-> "none"]
<1> DEFINE row == [status |-> "PENDING", attempts |-> 0, maxRetries |-> m,
                   created |-> now, updated |-> now, outcome |-> "none"]
<1>1. row \in Row
  BY StatusTypes DEF Row, Outcome
<1> HIDE DEF row
<1>2. QED BY <1>1, OneRow DEF Enqueued, row

\* claim_next() on an exhausted row.
LEMMA ClaimFailedRow ==
    ASSUME NEW t \in [Runs -> Row], NEW r \in Runs, NEW now \in Int
    PROVE  Changed(t, ClaimFailed(t, r, now), r, "FAILED", t[r].attempts, t[r].outcome, now)
<1> DEFINE row == [t[r] EXCEPT !.status = "FAILED", !.updated = now]
<1>1. /\ row \in Row /\ row.status = "FAILED" /\ row.attempts = t[r].attempts
      /\ row.maxRetries = t[r].maxRetries /\ row.outcome = t[r].outcome /\ row.updated = now
  BY StatusTypes DEF Row
<1> HIDE DEF row
<1>2. ClaimFailed(t, r, now) = [t EXCEPT ![r] = row]
  BY DEF ClaimFailed, row
<1>3. QED BY <1>1, <1>2, OneRow DEF Changed

\* claim_next() on any other row.
LEMMA ClaimedRow ==
    ASSUME NEW t \in [Runs -> Row], NEW r \in Runs, NEW now \in Int
    PROVE  Changed(t, Claimed(t, r, now), r, "RUNNING", t[r].attempts + 1, t[r].outcome, now)
<1> DEFINE n == t[r].attempts + 1
           row == [t[r] EXCEPT !.status = "RUNNING", !.attempts = n, !.updated = now]
<1>0. n \in Nat
  BY DEF Row
<1> HIDE DEF n
<1>1. /\ row \in Row /\ row.status = "RUNNING" /\ row.attempts = n
      /\ row.maxRetries = t[r].maxRetries /\ row.outcome = t[r].outcome /\ row.updated = now
  BY <1>0, StatusTypes DEF Row
<1> HIDE DEF row
<1>2. Claimed(t, r, now) = [t EXCEPT ![r] = row]
  BY DEF Claimed, row, n
<1>3. QED BY <1>1, <1>2, OneRow DEF Changed, n

\* cancel() on a row it accepts.
LEMMA CancelledRow ==
    ASSUME NEW t \in [Runs -> Row], NEW r \in Runs, NEW now \in Int
    PROVE  Changed(t, Cancelled(t, r, now), r, "CANCELLED", t[r].attempts, t[r].outcome, now)
<1> DEFINE row == [t[r] EXCEPT !.status = "CANCELLED", !.updated = now]
<1>1. /\ row \in Row /\ row.status = "CANCELLED" /\ row.attempts = t[r].attempts
      /\ row.maxRetries = t[r].maxRetries /\ row.outcome = t[r].outcome /\ row.updated = now
  BY StatusTypes DEF Row
<1> HIDE DEF row
<1>2. Cancelled(t, r, now) = [t EXCEPT ![r] = row]
  BY DEF Cancelled, row
<1>3. QED BY <1>1, <1>2, OneRow DEF Changed

\* complete() on a row that exists.
LEMMA CompletedRow ==
    ASSUME NEW t \in [Runs -> Row], NEW r \in Runs, NEW now \in Int,
           NEW status \in {"SUCCEEDED", "FAILED"}, HasRow(t, r)
    PROVE  Changed(t, Completed(t, r, status, now), r, status, t[r].attempts,
                   IF status = "SUCCEEDED" THEN "output" ELSE "error", now)
<1> DEFINE res == IF status = "SUCCEEDED" THEN "output" ELSE "error"
           row == [t[r] EXCEPT !.status = status, !.updated = now, !.outcome = res]
<1>0. status \in Status /\ res \in Outcome
  BY StatusTypes DEF Outcome
<1> HIDE DEF res
<1>1. /\ row \in Row /\ row.status = status /\ row.attempts = t[r].attempts
      /\ row.maxRetries = t[r].maxRetries /\ row.outcome = res /\ row.updated = now
  BY <1>0 DEF Row
<1>2. Completed(t, r, status, now) = [t EXCEPT ![r] = row]
  BY DEF Completed, row, res
<1> HIDE DEF row
<1>3. Changed(t, Completed(t, r, status, now), r, status, t[r].attempts, res, now)
  BY <1>1, <1>2, OneRow DEF Changed
<1>4. QED BY <1>3 DEF res

\* requeue() on a row that exists.
LEMMA RequeuedRow ==
    ASSUME NEW t \in [Runs -> Row], NEW r \in Runs, NEW now \in Int, NEW n \in Nat,
           HasRow(t, r)
    PROVE  Changed(t, Requeued(t, r, n, now), r, "PENDING", n, t[r].outcome, now)
<1> DEFINE row == [t[r] EXCEPT !.status = "PENDING", !.attempts = n, !.updated = now]
<1>1. /\ row \in Row /\ row.status = "PENDING" /\ row.attempts = n
      /\ row.maxRetries = t[r].maxRetries /\ row.outcome = t[r].outcome /\ row.updated = now
  BY StatusTypes DEF Row
<1>2. Requeued(t, r, n, now) = [t EXCEPT ![r] = row]
  BY DEF Requeued, row
<1> HIDE DEF row
<1>3. QED BY <1>1, <1>2, OneRow DEF Changed

\* close_expired() removes expired rows and changes nothing else.
LEMMA SweptRows ==
    ASSUME NEW t \in [Runs -> Row], NEW now \in Int, NEW ttl \in Int
    PROVE  LET u == Swept(t, now, ttl)
           IN  /\ u \in [Runs -> Row]
               /\ \A r \in Runs :
                    IF IsExpired(t, r, now, ttl)
                    THEN /\ u[r].status = "DELETED"
                         /\ u[r].attempts = t[r].attempts /\ u[r].maxRetries = t[r].maxRetries
                         /\ u[r].outcome = t[r].outcome
                    ELSE u[r] = t[r]
<1>1. ASSUME NEW r \in Runs
      PROVE  LET row == [t[r] EXCEPT !.status = "DELETED"]
             IN  /\ row \in Row /\ row.status = "DELETED" /\ row.attempts = t[r].attempts
                 /\ row.maxRetries = t[r].maxRetries /\ row.outcome = t[r].outcome
  BY StatusTypes DEF Row
<1> QED BY <1>1 DEF Swept

\* What a worker records: a final status, or PENDING with the attempt counted once more;
\* nothing when close_expired() has deleted the row.
LEMMA RecordedRow ==
    ASSUME NEW t \in [Runs -> Row], NEW r \in Runs, clock \in Int, NEW att \in Nat,
           NEW response
    PROVE  LET u == Recorded(t, r, response, att)
           IN  IF HasRow(t, r)
               THEN \/ Changed(t, u, r, "SUCCEEDED", t[r].attempts, "output", clock)
                    \/ Changed(t, u, r, "FAILED", t[r].attempts, "error", clock)
                    \/ Changed(t, u, r, "PENDING", att + 1, t[r].outcome, clock)
               ELSE u = t
<1>1. CASE ~HasRow(t, r)
  BY <1>1 DEF Recorded, Completed, Requeued
<1>2. CASE HasRow(t, r)
  <2>1. Changed(t, Completed(t, r, "SUCCEEDED", clock), r, "SUCCEEDED", t[r].attempts,
                "output", clock)
    BY <1>2, CompletedRow
  <2>2. Changed(t, Completed(t, r, "FAILED", clock), r, "FAILED", t[r].attempts,
                "error", clock)
    BY <1>2, CompletedRow
  <2>3. Changed(t, Requeued(t, r, att + 1, clock), r, "PENDING", att + 1, t[r].outcome, clock)
    BY <1>2, RequeuedRow
  <2>4. QED BY <1>2, <2>1, <2>2, <2>3 DEF Recorded
<1>3. QED BY <1>1, <1>2

-----------------------------------------------------------------------------
(* The invariant is inductive: one lemma per action. *)

LEMMA IdleType ==
    ASSUME NEW pc \in {"off", "polling", "dead"} PROVE Idle(pc) \in Worker
BY DEF Idle, Worker

LEMMA InitIInv == Init => IInv
<1> SUFFICES ASSUME Init PROVE IInv
  OBVIOUS
<1> USE ServiceAssumption DEF Init
<1>0. NewTable \in [Runs -> Row]
  BY StatusTypes DEF NewTable, Row, Outcome
<1>1. TypeOK
  BY <1>0, IdleType DEF TypeOK
<1>2. \A w \in Workers, r \in Runs : ~Holds(w, r)
  BY DEF Holds, Idle
<1>3. WorkersConsistent /\ ExclusiveExecution /\ AttemptInStep /\ DeadlineKept
  BY <1>2 DEF WorkersConsistent, ExclusiveExecution, AttemptInStep, DeadlineKept, Idle
<1>4. AttemptsCover /\ WithinBudget /\ ResultMatchesStatus
  BY DEF AttemptsCover, WithinBudget, ResultMatchesStatus, NewTable
<1> QED BY <1>1, <1>3, <1>4 DEF IInv

\* A step that starts or stops the workers leaves no execution behind.
LEMMA LifespanKeepsIInv == IInv /\ (Start \/ Stop) => IInv'
<1> SUFFICES ASSUME IInv, Start \/ Stop PROVE IInv'
  OBVIOUS
<1> USE ServiceAssumption DEF IInv
<1>1. TypeOK'
  <2>1. worker' \in [Workers -> Worker]
    BY IdleType DEF Start, Stop
  <2>2. up' \in BOOLEAN
    BY DEF Start, Stop
  <2>3. stops' \in Nat /\ UNCHANGED <<rows, clock, invoked>>
    BY DEF TypeOK, Start, Stop
  <2>4. QED BY <2>1, <2>2, <2>3 DEF TypeOK
<1>2. \A w \in Workers, r \in Runs : ~Holds(w, r)'
  BY DEF Holds, Idle, Start, Stop
<1>3. WorkersConsistent' /\ ExclusiveExecution' /\ AttemptInStep' /\ DeadlineKept'
  BY <1>2 DEF WorkersConsistent, ExclusiveExecution, AttemptInStep, DeadlineKept, Idle, Start, Stop
<1>4. AttemptsCover' /\ WithinBudget' /\ ResultMatchesStatus'
  BY DEF AttemptsCover, WithinBudget, ResultMatchesStatus, Start, Stop
<1> QED BY <1>1, <1>3, <1>4

LEMMA SubmitKeepsIInv == ASSUME NEW r \in Runs, IInv, Submit(r) PROVE IInv'
<1> USE ServiceAssumption DEF IInv
<1>0. /\ rows \in [Runs -> Row] /\ rows[r].status = "ABSENT" /\ clock \in Int
      /\ DefaultMaxRetries \in Nat
      /\ UNCHANGED <<up, worker, clock, stops, invoked>>
      /\ \A w \in Workers, s \in Runs : Holds(w, s)' <=> Holds(w, s)
      /\ \A w \in Workers : ~Holds(w, r)
  BY DEF Submit, TypeOK, DefaultMaxRetries, Holds, ExclusiveExecution
<1>1. /\ rows' \in [Runs -> Row]
      /\ \A s \in Runs : s # r => rows'[s] = rows[s]
      /\ rows'[r] = [status |-> "PENDING", attempts |-> 0, maxRetries |-> DefaultMaxRetries,
                     created |-> clock, updated |-> clock, outcome |-> "none"]
  BY <1>0, EnqueuedRow DEF Submit
<1>2. TypeOK'
  BY <1>0, <1>1 DEF TypeOK
<1>3. WorkersConsistent' /\ ExclusiveExecution' /\ AttemptInStep' /\ DeadlineKept'
  BY <1>0, <1>1 DEF WorkersConsistent, ExclusiveExecution, AttemptInStep, DeadlineKept
<1>4. AttemptsCover' /\ WithinBudget' /\ ResultMatchesStatus'
  BY <1>0, <1>1 DEF AttemptsCover, WithinBudget, ResultMatchesStatus, TypeOK, DefaultMaxRetries
<1> QED BY <1>2, <1>3, <1>4

\* cancel() and a failing claim change a row's status and nothing a worker relies on.
LEMMA CancelKeepsIInv == ASSUME NEW r \in Runs, IInv, Cancel(r) PROVE IInv'
<1> USE ServiceAssumption DEF IInv
<1>0. /\ rows \in [Runs -> Row] /\ clock \in Int
      /\ rows[r].status \in {"PENDING", "RUNNING"}
      /\ UNCHANGED <<up, worker, clock, stops, invoked>>
      /\ \A w \in Workers, s \in Runs : Holds(w, s)' <=> Holds(w, s)
  BY DEF Cancel, Cancellable, TypeOK, Holds
<1>1. Changed(rows, rows', r, "CANCELLED", rows[r].attempts, rows[r].outcome, clock)
  BY <1>0, CancelledRow DEF Cancel
<1>2. TypeOK'
  BY <1>0, <1>1 DEF TypeOK, Changed
<1>3. WorkersConsistent' /\ ExclusiveExecution' /\ AttemptInStep' /\ DeadlineKept'
  BY <1>0, <1>1 DEF WorkersConsistent, ExclusiveExecution, AttemptInStep, DeadlineKept, Changed
<1>4. AttemptsCover' /\ WithinBudget' /\ ResultMatchesStatus'
  BY <1>0, <1>1 DEF AttemptsCover, WithinBudget, ResultMatchesStatus, Changed
<1> QED BY <1>2, <1>3, <1>4

LEMMA PollExhaustedKeepsIInv ==
    ASSUME NEW w \in Workers, NEW r \in Runs, IInv, PollExhausted(w, r) PROVE IInv'
<1> USE ServiceAssumption DEF IInv
<1>0. /\ rows \in [Runs -> Row] /\ clock \in Int
      /\ rows[r].status = "PENDING"
      /\ UNCHANGED <<up, worker, clock, stops, invoked>>
      /\ \A v \in Workers, s \in Runs : Holds(v, s)' <=> Holds(v, s)
      /\ \A v \in Workers : ~Holds(v, r)
  BY DEF PollExhausted, IsOldestPending, TypeOK, Holds, ExclusiveExecution
<1>1. Changed(rows, rows', r, "FAILED", rows[r].attempts, rows[r].outcome, clock)
  BY <1>0, ClaimFailedRow DEF PollExhausted
<1>2. TypeOK'
  BY <1>0, <1>1 DEF TypeOK, Changed
<1>3. WorkersConsistent' /\ ExclusiveExecution' /\ AttemptInStep' /\ DeadlineKept'
  BY <1>0, <1>1 DEF WorkersConsistent, ExclusiveExecution, AttemptInStep, DeadlineKept, Changed
<1>4. AttemptsCover' /\ WithinBudget' /\ ResultMatchesStatus'
  BY <1>0, <1>1 DEF AttemptsCover, WithinBudget, ResultMatchesStatus, Changed
<1> QED BY <1>2, <1>3, <1>4

LEMMA ClaimKeepsIInv ==
    ASSUME NEW w \in Workers, NEW r \in Runs, IInv, Claim(w, r) PROVE IInv'
<1> USE ServiceAssumption DEF IInv
<1> DEFINE att == rows[r].attempts + 1
<1>0. /\ rows \in [Runs -> Row] /\ clock \in Int /\ att \in Nat
      /\ rows[r].status = "PENDING" /\ att <= rows[r].maxRetries
      /\ UNCHANGED <<up, clock, stops>>
      /\ \A v \in Workers : ~Holds(v, r)
      /\ worker \in [Workers -> Worker] /\ invoked \in [Runs -> Nat]
      /\ rows[r].maxRetries \in Nat /\ worker[w].pc = "polling"
  BY DEF Claim, IsOldestPending, Exhausted, TypeOK, Row, ExclusiveExecution
<1>1. Changed(rows, rows', r, "RUNNING", att, rows[r].outcome, clock)
  BY <1>0, ClaimedRow DEF Claim
<1>2. /\ worker' = [worker EXCEPT ![w] = Busy(r, att, clock)]
      /\ Busy(r, att, clock) \in Worker
      /\ invoked' = [invoked EXCEPT ![r] = @ + IF r \in Unregistered THEN 0 ELSE 1]
  BY <1>0 DEF Claim, Busy, Worker
<1> HIDE DEF att
<1>3. TypeOK'
  BY <1>0, <1>1, <1>2 DEF TypeOK, Changed
<1>4. /\ \A v \in Workers, s \in Runs : v # w => (Holds(v, s)' <=> Holds(v, s))
      /\ \A s \in Runs : Holds(w, s)' <=> s = r
      /\ \A v \in Workers : v # w => worker'[v] = worker[v]
      /\ worker'[w].attempt = att /\ worker'[w].since = clock /\ worker'[w].pc = "busy"
  BY <1>0, <1>2 DEF Holds, Busy
<1>5. WorkersConsistent'
  BY <1>0, <1>2, <1>4 DEF WorkersConsistent, Busy
<1>6. ExclusiveExecution'
  BY <1>0, <1>1, <1>4 DEF ExclusiveExecution, Changed
<1>7. AttemptInStep' /\ DeadlineKept'
  BY <1>0, <1>1, <1>4 DEF AttemptInStep, DeadlineKept, Changed
<1>8. AttemptsCover' /\ WithinBudget'
  BY <1>0, <1>1, <1>2 DEF AttemptsCover, WithinBudget, Changed, att, TypeOK, Row
<1>9. ResultMatchesStatus'
  BY <1>0, <1>1 DEF ResultMatchesStatus, Changed
<1> QED BY <1>3, <1>5, <1>6, <1>7, <1>8, <1>9

LEMMA FinishKeepsIInv ==
    ASSUME NEW w \in Workers, NEW response, IInv, Finish(w, response) PROVE IInv'
<1> USE ServiceAssumption DEF IInv
<1> DEFINE r == worker[w].job
           att == worker[w].attempt
<1>0. /\ rows \in [Runs -> Row] /\ clock \in Int /\ att \in Nat /\ r \in Runs
      /\ worker \in [Workers -> Worker] /\ invoked \in [Runs -> Nat]
      /\ rows[r].attempts = att
      /\ rows[r].status \in {"RUNNING", "CANCELLED", "DELETED"}
      /\ \A v \in Workers : v # w => ~Holds(v, r)
      /\ UNCHANGED <<up, clock, stops, invoked>>
      /\ rows' = Recorded(rows, r, response, att)
      /\ worker' = [worker EXCEPT ![w] = Idle("polling")]
      /\ worker[w].pc = "busy"
  BY DEF Finish, TypeOK, Worker, Holds, WorkersConsistent, ExclusiveExecution, AttemptInStep
<1> HIDE DEF r, att
<1>1. \/ rows' = rows
      \/ Changed(rows, rows', r, "SUCCEEDED", att, "output", clock)
      \/ Changed(rows, rows', r, "FAILED", att, "error", clock)
      \/ Changed(rows, rows', r, "PENDING", att + 1, rows[r].outcome, clock)
  BY <1>0, RecordedRow
<1>2. /\ \A v \in Workers, s \in Runs : v # w => (Holds(v, s)' <=> Holds(v, s))
      /\ \A s \in Runs : ~Holds(w, s)'
      /\ \A v \in Workers : v # w => worker'[v] = worker[v]
  BY <1>0 DEF Holds, Idle
<1>3. TypeOK'
  BY <1>0, <1>1, IdleType DEF TypeOK, Changed
<1>4. WorkersConsistent'
  BY <1>0, <1>2 DEF WorkersConsistent, Idle
<1>5. ExclusiveExecution'
  BY <1>0, <1>1, <1>2 DEF ExclusiveExecution, Changed
<1>6. AttemptInStep' /\ DeadlineKept'
  BY <1>0, <1>1, <1>2 DEF AttemptInStep, DeadlineKept, Changed
<1>7. AttemptsCover' /\ WithinBudget'
  BY <1>0, <1>1 DEF AttemptsCover, WithinBudget, Changed
<1>8. ResultMatchesStatus'
  BY <1>0, <1>1 DEF ResultMatchesStatus, Changed
<1> QED BY <1>3, <1>4, <1>5, <1>6, <1>7, <1>8

LEMMA DieKeepsIInv == ASSUME NEW w \in Workers, IInv, Die(w) PROVE IInv'
<1> USE ServiceAssumption DEF IInv
<1>0. /\ worker \in [Workers -> Worker]
      /\ UNCHANGED <<rows, up, clock, stops, invoked>>
      /\ worker' = [worker EXCEPT ![w] = Idle("dead")]
      /\ worker[w].pc \in {"polling", "busy"}
  BY DEF Die, TypeOK
<1>1. /\ \A v \in Workers, s \in Runs : v # w => (Holds(v, s)' <=> Holds(v, s))
      /\ \A s \in Runs : ~Holds(w, s)'
      /\ \A v \in Workers : v # w => worker'[v] = worker[v]
  BY <1>0 DEF Holds, Idle
<1>2. TypeOK'
  BY <1>0, IdleType DEF TypeOK
<1>3. WorkersConsistent' /\ ExclusiveExecution' /\ AttemptInStep' /\ DeadlineKept'
  BY <1>0, <1>1 DEF WorkersConsistent, ExclusiveExecution, AttemptInStep, DeadlineKept, Idle
<1>4. AttemptsCover' /\ WithinBudget' /\ ResultMatchesStatus'
  BY <1>0 DEF AttemptsCover, WithinBudget, ResultMatchesStatus
<1> QED BY <1>2, <1>3, <1>4

LEMMA CloseExpiredKeepsIInv == IInv /\ CloseExpired => IInv'
<1> SUFFICES ASSUME IInv, CloseExpired PROVE IInv'
  OBVIOUS
<1> USE ServiceAssumption DEF IInv
<1>0. /\ rows \in [Runs -> Row] /\ clock \in Int
      /\ UNCHANGED <<up, worker, clock, stops, invoked>>
      /\ \A v \in Workers, s \in Runs : Holds(v, s)' <=> Holds(v, s)
  BY DEF CloseExpired, TypeOK, Holds
<1>1. /\ rows' \in [Runs -> Row]
      /\ \A r \in Runs :
           \/ rows'[r] = rows[r]
           \/ /\ rows[r].status = "RUNNING" /\ rows'[r].status = "DELETED"
              /\ rows'[r].attempts = rows[r].attempts
              /\ rows'[r].maxRetries = rows[r].maxRetries
              /\ rows'[r].outcome = rows[r].outcome
  BY <1>0, SweptRows DEF CloseExpired, IsExpired
<1>2. TypeOK'
  BY <1>0, <1>1 DEF TypeOK
<1>3. WorkersConsistent' /\ ExclusiveExecution' /\ AttemptInStep' /\ DeadlineKept'
  BY <1>0, <1>1 DEF WorkersConsistent, ExclusiveExecution, AttemptInStep, DeadlineKept
<1>4. AttemptsCover' /\ WithinBudget'
  BY <1>0, <1>1 DEF AttemptsCover, WithinBudget
<1>5. ResultMatchesStatus'
  BY <1>0, <1>1 DEF ResultMatchesStatus
<1> QED BY <1>2, <1>3, <1>4, <1>5

LEMMA TickKeepsIInv == IInv /\ Tick => IInv'
<1> SUFFICES ASSUME IInv, Tick PROVE IInv'
  OBVIOUS
<1> USE ServiceAssumption DEF IInv
<1>1. TypeOK'
  BY DEF TypeOK, Tick
<1>2. DeadlineKept'
  BY DEF DeadlineKept, Tick, Holds, TypeOK, Worker
<1>3. WorkersConsistent' /\ ExclusiveExecution' /\ AttemptInStep'
  BY DEF WorkersConsistent, ExclusiveExecution, AttemptInStep, Tick, Holds
<1>4. AttemptsCover' /\ WithinBudget' /\ ResultMatchesStatus'
  BY DEF AttemptsCover, WithinBudget, ResultMatchesStatus, Tick
<1> QED BY <1>1, <1>2, <1>3, <1>4

LEMMA NextKeepsIInv == IInv /\ [Next]_vars => IInv'
<1> SUFFICES ASSUME IInv, [Next]_vars PROVE IInv'
  OBVIOUS
<1>1. CASE Start \/ Stop
  BY <1>1, LifespanKeepsIInv
<1>2. ASSUME NEW r \in Runs, Submit(r) PROVE IInv'
  BY <1>2, SubmitKeepsIInv
<1>3. ASSUME NEW r \in Runs, Cancel(r) PROVE IInv'
  BY <1>3, CancelKeepsIInv
<1>4. ASSUME NEW w \in Workers, WorkerStep(w) PROVE IInv'
  BY <1>4, PollExhaustedKeepsIInv, ClaimKeepsIInv, FinishKeepsIInv
     DEF WorkerStep, Poll
<1>5. ASSUME NEW w \in Workers, Die(w) PROVE IInv'
  BY <1>5, DieKeepsIInv
<1>6. CASE CloseExpired
  BY <1>6, CloseExpiredKeepsIInv
<1>7. CASE Tick
  BY <1>7, TickKeepsIInv
<1>8. CASE UNCHANGED vars
  BY <1>8 DEF vars, IInv, TypeOK, WorkersConsistent, ExclusiveExecution, AttemptInStep,
              DeadlineKept, AttemptsCover, WithinBudget, ResultMatchesStatus, Holds
<1> QED BY <1>1, <1>2, <1>3, <1>4, <1>5, <1>6, <1>7, <1>8 DEF Next

-----------------------------------------------------------------------------
(* Theorems *)

\* The inductive invariant holds in every reachable state of the service.
THEOREM Safety == Spec => []IInv
BY InitIInv, NextKeepsIInv, PTL DEF Spec

\* Every column, worker local and counter of the service keeps its type.
THEOREM TypeCorrect == Spec => []TypeOK
<1>1. IInv => TypeOK
  BY DEF IInv
<1> QED BY <1>1, Safety, PTL

\* No run is ever executed by two workers at once, nor put back into the queue while it is
\* being executed, whatever is cancelled, expired, stopped or lost meanwhile.
THEOREM Exclusive == Spec => []ExclusiveExecution
<1>1. IInv => ExclusiveExecution
  BY DEF IInv
<1> QED BY <1>1, Safety, PTL

\* No agent is invoked more often than its row's budget allows, over all restarts.
THEOREM Budget == Spec => []WithinBudget
<1>1. IInv => WithinBudget
  BY DEF IInv
<1> QED BY <1>1, Safety, PTL

\* No row shows a result that does not go with its status.
THEOREM Results == Spec => []ResultMatchesStatus
<1>1. IInv => ResultMatchesStatus
  BY DEF IInv
<1> QED BY <1>1, Safety, PTL


-----------------------------------------------------------------------------
(* Action properties *)

\* How a step may change the row of r: enqueue, claim and cancel act on rows that are new,
\* PENDING or RUNNING; a worker records a run it holds; a sweep deletes what has expired.
RowStep(r) ==
    \/ rows'[r] = rows[r]
    \/ rows[r].status \in {"ABSENT", "PENDING", "RUNNING"} /\ rows'[r].status # "DELETED"
    \/ Held(r) /\ rows'[r].status # "DELETED"
    \/ IsExpired(rows, r, clock, TTL)

LEMMA StepOnRow == ASSUME NEW r \in Runs, IInv, [Next]_vars PROVE RowStep(r)
<1> USE ServiceAssumption
<1>0. rows \in [Runs -> Row] /\ clock \in Int /\ DefaultMaxRetries \in Nat
  BY DEF IInv, TypeOK, DefaultMaxRetries
<1>1. CASE UNCHANGED rows
  BY <1>1 DEF RowStep
<1>2. ASSUME NEW s \in Runs, Submit(s) PROVE RowStep(r)
  <2>1. rows[s].status = "ABSENT" /\ rows' = Enqueued(rows, s, DefaultMaxRetries, clock)
    BY <1>2 DEF Submit
  <2>2. /\ \A q \in Runs : q # s => rows'[q] = rows[q]
        /\ rows'[s] = [status |-> "PENDING", attempts |-> 0, maxRetries |-> DefaultMaxRetries,
                       created |-> clock, updated |-> clock, outcome |-> "none"]
    BY <1>0, <2>1, EnqueuedRow
  <2>3. QED BY <2>1, <2>2 DEF RowStep
<1>3. ASSUME NEW s \in Runs, Cancel(s) PROVE RowStep(r)
  <2>1. rows[s].status \in {"PENDING", "RUNNING"}
    BY <1>3 DEF Cancel, Cancellable
  <2>2. (\A q \in Runs : q # s => rows'[q] = rows[q]) /\ rows'[s].status = "CANCELLED"
    BY <1>0, <1>3, CancelledRow DEF Cancel, Changed
  <2>3. QED BY <2>1, <2>2 DEF RowStep
<1>4. ASSUME NEW w \in Workers, NEW s \in Runs, PollExhausted(w, s) PROVE RowStep(r)
  <2>1. rows[s].status \in {"PENDING", "RUNNING"}
    BY <1>4 DEF PollExhausted, IsOldestPending
  <2>2. (\A q \in Runs : q # s => rows'[q] = rows[q]) /\ rows'[s].status = "FAILED"
    BY <1>0, <1>4, ClaimFailedRow DEF PollExhausted, Changed
  <2>3. QED BY <2>1, <2>2 DEF RowStep
<1>5. ASSUME NEW w \in Workers, NEW s \in Runs, Claim(w, s) PROVE RowStep(r)
  <2>1. rows[s].status \in {"PENDING", "RUNNING"}
    BY <1>5 DEF Claim, IsOldestPending
  <2>2. (\A q \in Runs : q # s => rows'[q] = rows[q]) /\ rows'[s].status = "RUNNING"
    BY <1>0, <1>5, ClaimedRow DEF Claim, Changed
  <2>3. QED BY <2>1, <2>2 DEF RowStep
<1>6. ASSUME NEW w \in Workers, NEW response, Finish(w, response) PROVE RowStep(r)
  <2> DEFINE s == worker[w].job
             att == worker[w].attempt
  <2>1. /\ s \in Runs /\ att \in Nat /\ Held(s)
        /\ rows' = Recorded(rows, s, response, att)
    BY <1>6 DEF Finish, IInv, TypeOK, Worker, WorkersConsistent, Held, Holds
  <2> HIDE DEF s, att
  <2>2. \/ rows' = rows
        \/ Changed(rows, rows', s, "SUCCEEDED", rows[s].attempts, "output", clock)
        \/ Changed(rows, rows', s, "FAILED", rows[s].attempts, "error", clock)
        \/ Changed(rows, rows', s, "PENDING", att + 1, rows[s].outcome, clock)
    BY <1>0, <2>1, RecordedRow
  <2>3. QED BY <2>1, <2>2 DEF Changed, RowStep
<1>7. CASE CloseExpired
  BY <1>0, <1>7, SweptRows DEF CloseExpired, RowStep
<1>8. CASE Start \/ Stop \/ Tick \/ UNCHANGED vars \/ \E w \in Workers : Die(w)
  BY <1>1, <1>8 DEF Start, Stop, Tick, vars, Die
<1> QED BY <1>2, <1>3, <1>4, <1>5, <1>6, <1>7, <1>8 DEF Next, WorkerStep, Poll

\* A SUCCEEDED or FAILED row is never written again.
THEOREM ResultIsFinal == Spec => FinalResult
<1>1. IInv /\ [Next]_vars
         => [\A r \in Runs : rows[r].status \in {"SUCCEEDED", "FAILED"} => rows'[r] = rows[r]]_vars
  BY StepOnRow DEF RowStep, IsExpired, IInv, ExclusiveExecution, Held
<1> QED BY <1>1, Safety, PTL DEF Spec, FinalResult

\* A run cancelled before any worker picked it up stays cancelled.
THEOREM CancelledStays == Spec => CancelledBeforeStart
<1>1. IInv /\ [Next]_vars
         => [\A r \in Runs : rows[r].status = "CANCELLED" /\ ~Held(r) => rows'[r] = rows[r]]_vars
  BY StepOnRow DEF RowStep, IsExpired
<1> QED BY <1>1, Safety, PTL DEF Spec, CancelledBeforeStart

\* With a TTL no shorter than the invocation timeout and the delay of its timer,
\* close_expired() deletes no run that is still executing.
THEOREM ExpiryIsSafe == Spec => ExpiryTakesOnlyOrphans
<1>1. IInv /\ [Next]_vars
         => [TTL >= Timeout + Lag =>
                \A r \in Runs : rows'[r].status = "DELETED" /\ Held(r)
                                   => rows[r].status = "DELETED"]_vars
  <2> SUFFICES ASSUME IInv, [Next]_vars, TTL >= Timeout + Lag, NEW r \in Runs,
                      rows'[r].status = "DELETED", Held(r)
               PROVE  rows[r].status = "DELETED"
    OBVIOUS
  <2>1. rows'[r] = rows[r] \/ IsExpired(rows, r, clock, TTL)
    BY StepOnRow DEF RowStep, IInv, ExclusiveExecution, Held
  <2>2. ~IsExpired(rows, r, clock, TTL)
    BY ServiceAssumption DEF IsExpired, Held, IInv, DeadlineKept, TypeOK, Worker
  <2>3. QED BY <2>1, <2>2
<1> QED BY <1>1, Safety, PTL DEF Spec, ExpiryTakesOnlyOrphans

\* A running run loses its worker unrecorded only by a stop or the death of that worker.
THEOREM OrphansNeedFailures == Spec => OnlyFailuresOrphan
<1>1. IInv /\ [Next]_vars
         => [\A r \in Runs :
                Held(r) /\ ~Held(r)' /\ rows'[r].status = "RUNNING"
                   => ~up' \/ \E w \in Workers : Holds(w, r) /\ worker'[w].pc = "dead"]_vars
  <2> SUFFICES ASSUME IInv, [Next]_vars, NEW r \in Runs, NEW w \in Workers, Holds(w, r),
                      ~Held(r)', rows'[r].status = "RUNNING", up'
               PROVE  worker'[w].pc = "dead"
    BY DEF Held
  <2>0. /\ worker \in [Workers -> Worker] /\ rows \in [Runs -> Row] /\ clock \in Int
        /\ worker[w].pc = "busy" /\ worker[w].job = r /\ up
        /\ worker'[w] # worker[w]
    BY DEF IInv, TypeOK, Holds, Held, WorkersConsistent
  <2>1. ASSUME NEW v \in Workers, NEW s \in Runs, Claim(v, s) PROVE FALSE
    BY <2>0, <2>1 DEF Claim
  <2>2. ASSUME NEW v \in Workers, NEW response, Finish(v, response) PROVE FALSE
    <3>1. v = w
      BY <2>0, <2>2 DEF Finish
    <3>2. /\ rows' = Recorded(rows, r, response, worker[w].attempt)
          /\ worker[w].attempt \in Nat
      BY <2>0, <2>2, <3>1 DEF Finish, Worker
    <3>3. HasRow(rows, r) => rows'[r].status # "RUNNING"
      BY <2>0, <3>2, RecordedRow DEF Changed
    <3>4. ~HasRow(rows, r) => rows' = rows
      BY <2>0, <3>2, RecordedRow
    <3>5. QED BY <3>3, <3>4 DEF HasRow
  <2>3. ASSUME NEW v \in Workers, Die(v) PROVE worker'[w].pc = "dead"
    BY <2>0, <2>3 DEF Die, Idle
  <2>4. CASE Start \/ Stop
    BY <2>0, <2>4 DEF Start, Stop
  <2>5. QED
    BY <2>0, <2>1, <2>2, <2>3, <2>4 DEF Next, WorkerStep, Poll, Submit, Cancel, PollExhausted,
       CloseExpired, Tick, vars
<1> QED BY <1>1, Safety, PTL DEF Spec, OnlyFailuresOrphan

-----------------------------------------------------------------------------
(* The service implements RunLifecycle *)

\* One run moves and the others stay: a step of the abstract specification.
LEMMA PhaseMove ==
    ASSUME NEW r \in Runs, NEW from, NEW to, PhaseOf(r) = from, PhaseOf(r)' = to,
           \A s \in Runs : s # r => PhaseOf(s)' = PhaseOf(s)
    PROVE  Lifecycle!Move(r, from, to)
BY DEF Lifecycle!Move

\* No run moves: a stuttering step.
LEMMA PhaseStays ==
    ASSUME \A s \in Runs : PhaseOf(s)' = PhaseOf(s)
    PROVE  UNCHANGED [r \in Runs |-> PhaseOf(r)]
OBVIOUS

\* A step that leaves workers and rows of other runs alone moves at most r.
LEMMA PhaseFrame ==
    ASSUME NEW s \in Runs, rows'[s] = rows[s], Held(s)' <=> Held(s)
    PROVE  PhaseOf(s)' = PhaseOf(s)
BY DEF PhaseOf, Exhausted

\* A run that is being executed is neither new nor waiting.
LEMMA HeldIsNotQueued ==
    ASSUME IInv, NEW s \in Runs, Held(s)
    PROVE  rows[s].status \in {"RUNNING", "CANCELLED", "DELETED"} /\ PhaseOf(s) = "executing"
BY DEF IInv, ExclusiveExecution, Held, PhaseOf

AbstractStep == Lifecycle!Next \/ UNCHANGED [r \in Runs |-> PhaseOf(r)]

LEMMA StopSteps == IInv /\ (Start \/ Stop) => AbstractStep
<1> SUFFICES ASSUME IInv, Start \/ Stop PROVE AbstractStep
  OBVIOUS
<1>1. /\ \A s \in Runs : ~Held(s)'
      /\ rows' = rows
  BY DEF Start, Stop, Held, Holds, Idle
<1>2. ASSUME NEW s \in Runs
      PROVE  PhaseOf(s)' = IF PhaseOf(s) = "executing" THEN "over" ELSE PhaseOf(s)
  <2>1. CASE Held(s)
    BY <1>1, <2>1, HeldIsNotQueued DEF PhaseOf
  <2>2. CASE ~Held(s)
    BY <1>1, <2>2 DEF PhaseOf, Exhausted
  <2>3. QED BY <2>1, <2>2
<1> QED BY <1>2 DEF AbstractStep, Lifecycle!Next, Lifecycle!Halt

LEMMA SubmitSteps == ASSUME NEW r \in Runs, IInv, Submit(r) PROVE AbstractStep
<1>0. /\ rows \in [Runs -> Row] /\ rows[r].status = "ABSENT" /\ clock \in Int
      /\ DefaultMaxRetries \in Nat /\ UNCHANGED worker
  BY DEF Submit, IInv, TypeOK, DefaultMaxRetries
<1>1. /\ \A s \in Runs : s # r => rows'[s] = rows[s]
      /\ rows'[r] = [status |-> "PENDING", attempts |-> 0, maxRetries |-> DefaultMaxRetries,
                     created |-> clock, updated |-> clock, outcome |-> "none"]
  BY <1>0, EnqueuedRow DEF Submit
<1>2. \A s \in Runs : Held(s)' <=> Held(s)
  BY <1>0 DEF Held, Holds
<1>3. ~Held(r)
  BY <1>0, HeldIsNotQueued
<1>4. PhaseOf(r) = "new"
  BY <1>0, <1>3 DEF PhaseOf
<1>5. PhaseOf(r)' = "queued"
  BY <1>1, <1>2, <1>3 DEF PhaseOf, Exhausted, DefaultMaxRetries
<1>6. Lifecycle!Accept(r)
  BY <1>1, <1>2, <1>4, <1>5, PhaseFrame, PhaseMove DEF Lifecycle!Accept
<1> QED BY <1>6 DEF AbstractStep, Lifecycle!Next

\* cancel(): a queued run is dropped; a run that is executing goes on executing.
LEMMA CancelSteps == ASSUME NEW r \in Runs, IInv, Cancel(r) PROVE AbstractStep
<1>0. /\ rows \in [Runs -> Row] /\ clock \in Int /\ UNCHANGED worker
      /\ rows[r].status \in {"PENDING", "RUNNING"}
  BY DEF Cancel, Cancellable, IInv, TypeOK
<1>1. Changed(rows, rows', r, "CANCELLED", rows[r].attempts, rows[r].outcome, clock)
  BY <1>0, CancelledRow DEF Cancel
<1>2. /\ \A s \in Runs : Held(s)' <=> Held(s)
      /\ \A s \in Runs : s # r => rows'[s] = rows[s]
      /\ rows'[r].status = "CANCELLED"
  BY <1>0, <1>1 DEF Held, Holds, Changed
<1>3. \A s \in Runs : s # r => PhaseOf(s)' = PhaseOf(s)
  BY <1>2, PhaseFrame
<1>4. CASE Held(r)
  <2>1. PhaseOf(r)' = PhaseOf(r)
    BY <1>2, <1>4 DEF PhaseOf
  <2>2. QED BY <1>3, <2>1, PhaseStays DEF AbstractStep
<1>5. CASE ~Held(r)
  <2>1. PhaseOf(r)' = "over"
    BY <1>2, <1>5 DEF PhaseOf
  <2>2. PhaseOf(r) \in {"queued", "over"}
    BY <1>0, <1>5 DEF PhaseOf
  <2>3. CASE PhaseOf(r) = "queued"
    BY <1>3, <2>1, <2>3, PhaseMove DEF AbstractStep, Lifecycle!Next, Lifecycle!Drop
  <2>4. CASE PhaseOf(r) = "over"
    BY <1>3, <2>1, <2>4, PhaseStays DEF AbstractStep
  <2>5. QED BY <2>2, <2>3, <2>4
<1> QED BY <1>4, <1>5

\* The claim that fails an exhausted row moves nothing: the run was over already.
LEMMA PollSteps ==
    ASSUME NEW w \in Workers, NEW r \in Runs, IInv, PollExhausted(w, r) PROVE AbstractStep
<1>0. /\ rows \in [Runs -> Row] /\ clock \in Int /\ UNCHANGED worker
      /\ rows[r].status = "PENDING" /\ Exhausted(rows, r)
  BY DEF PollExhausted, IsOldestPending, IInv, TypeOK
<1>1. Changed(rows, rows', r, "FAILED", rows[r].attempts, rows[r].outcome, clock)
  BY <1>0, ClaimFailedRow DEF PollExhausted
<1>2. /\ \A s \in Runs : Held(s)' <=> Held(s)
      /\ \A s \in Runs : s # r => rows'[s] = rows[s]
      /\ rows'[r].status = "FAILED"
  BY <1>0, <1>1 DEF Held, Holds, Changed
<1>3. ~Held(r)
  BY <1>0, HeldIsNotQueued
<1>4. PhaseOf(r) = "over" /\ PhaseOf(r)' = "over"
  BY <1>0, <1>2, <1>3 DEF PhaseOf
<1> QED BY <1>2, <1>4, PhaseFrame, PhaseStays DEF AbstractStep

LEMMA ClaimSteps ==
    ASSUME NEW w \in Workers, NEW r \in Runs, IInv, Claim(w, r) PROVE AbstractStep
<1>0. /\ rows \in [Runs -> Row] /\ clock \in Int /\ worker \in [Workers -> Worker]
      /\ rows[r].status = "PENDING" /\ ~Exhausted(rows, r) /\ worker[w].pc = "polling"
      /\ worker' = [worker EXCEPT ![w] = Busy(r, rows[r].attempts + 1, clock)]
  BY DEF Claim, IsOldestPending, IInv, TypeOK
<1>1. Changed(rows, rows', r, "RUNNING", rows[r].attempts + 1, rows[r].outcome, clock)
  BY <1>0, ClaimedRow DEF Claim
<1>2. /\ \A v \in Workers, s \in Runs : v # w => (Holds(v, s)' <=> Holds(v, s))
      /\ \A s \in Runs : Holds(w, s)' <=> s = r
      /\ \A s \in Runs : ~Holds(w, s)
  BY <1>0 DEF Holds, Busy
<1>3. /\ Held(r)' /\ ~Held(r)
      /\ \A s \in Runs : s # r => (Held(s)' <=> Held(s))
  BY <1>0, <1>2, HeldIsNotQueued DEF Held
<1>4. PhaseOf(r) = "queued" /\ PhaseOf(r)' = "executing"
  BY <1>0, <1>3 DEF PhaseOf
<1>5. \A s \in Runs : s # r => PhaseOf(s)' = PhaseOf(s)
  BY <1>1, <1>3, PhaseFrame DEF Changed
<1> QED BY <1>4, <1>5, PhaseMove DEF AbstractStep, Lifecycle!Next, Lifecycle!Begin

\* A worker that records its run ends its execution: even a requeued run is over, since
\* the requeue counts the attempt a second time.
LEMMA FinishSteps ==
    ASSUME NEW w \in Workers, NEW response, IInv, Finish(w, response) PROVE AbstractStep
<1>r. PICK r \in Runs : r = worker[w].job
  BY DEF Finish, IInv, WorkersConsistent
<1> DEFINE att == worker[w].attempt
<1>0. /\ rows \in [Runs -> Row] /\ clock \in Int /\ att \in Nat /\ r \in Runs
      /\ worker \in [Workers -> Worker] /\ Holds(w, r)
      /\ rows[r].attempts = att /\ rows[r].maxRetries = 1
      /\ rows[r].status \in {"RUNNING", "CANCELLED", "DELETED"}
      /\ \A v \in Workers : v # w => ~Holds(v, r)
      /\ rows' = Recorded(rows, r, response, att)
      /\ worker' = [worker EXCEPT ![w] = Idle("polling")]
  BY <1>r DEF Finish, IInv, TypeOK, Worker, Holds, WorkersConsistent, ExclusiveExecution,
         AttemptInStep, AttemptsCover, DefaultMaxRetries
<1>1. \/ rows' = rows /\ ~HasRow(rows, r)
      \/ Changed(rows, rows', r, "SUCCEEDED", att, "output", clock)
      \/ Changed(rows, rows', r, "FAILED", att, "error", clock)
      \/ Changed(rows, rows', r, "PENDING", att + 1, rows[r].outcome, clock)
  BY <1>0, RecordedRow
<1>2. /\ \A v \in Workers, s \in Runs : v # w => (Holds(v, s)' <=> Holds(v, s))
      /\ \A s \in Runs : ~Holds(w, s)'
      /\ \A s \in Runs : s # r => ~Holds(w, s)
  BY <1>0 DEF Holds, Idle
<1>3. /\ ~Held(r)' /\ Held(r)
      /\ \A s \in Runs : s # r => (Held(s)' <=> Held(s))
  BY <1>0, <1>2 DEF Held
<1> HIDE DEF att
<1>4. \A s \in Runs : s # r => PhaseOf(s)' = PhaseOf(s)
  BY <1>0, <1>1, <1>3, PhaseFrame DEF Changed
<1>5. PhaseOf(r) = "executing"
  BY <1>3 DEF PhaseOf
<1>6. PhaseOf(r)' = "over"
  <2>1. \/ rows'[r].status \notin {"ABSENT", "PENDING"}
        \/ rows'[r].status = "PENDING" /\ Exhausted(rows, r)'
    BY <1>0, <1>1 DEF Changed, HasRow, Exhausted
  <2>2. QED BY <1>3, <2>1 DEF PhaseOf
<1> QED BY <1>0, <1>4, <1>5, <1>6, PhaseMove DEF AbstractStep, Lifecycle!Next, Lifecycle!End

LEMMA DieSteps == ASSUME NEW w \in Workers, IInv, Die(w) PROVE AbstractStep
<1>0. /\ worker \in [Workers -> Worker] /\ UNCHANGED rows
      /\ worker' = [worker EXCEPT ![w] = Idle("dead")]
  BY DEF Die, IInv, TypeOK
<1>1. /\ \A v \in Workers, s \in Runs : v # w => (Holds(v, s)' <=> Holds(v, s))
      /\ \A s \in Runs : ~Holds(w, s)'
  BY <1>0 DEF Holds, Idle
<1>2. CASE worker[w].pc # "busy"
  <2>1. \A s \in Runs : Held(s)' <=> Held(s)
    BY <1>1, <1>2 DEF Held, Holds
  <2>2. QED BY <1>0, <2>1, PhaseFrame, PhaseStays DEF AbstractStep
<1>3. CASE worker[w].pc = "busy"
  <2>1. PICK r \in Runs : Holds(w, r)
    BY <1>3 DEF IInv, WorkersConsistent, Holds
  <2>2. /\ \A v \in Workers : v # w => ~Holds(v, r)
        /\ rows[r].status \in {"RUNNING", "CANCELLED", "DELETED"}
    BY <2>1 DEF IInv, ExclusiveExecution
  <2>3. \A s \in Runs : s # r => ~Holds(w, s)
    BY <2>1 DEF Holds
  <2>4. /\ ~Held(r)' /\ Held(r)
        /\ \A s \in Runs : s # r => (Held(s)' <=> Held(s))
    BY <1>1, <2>1, <2>2, <2>3 DEF Held
  <2>5. PhaseOf(r) = "executing" /\ PhaseOf(r)' = "over"
    BY <1>0, <2>2, <2>4 DEF PhaseOf
  <2>6. \A s \in Runs : s # r => PhaseOf(s)' = PhaseOf(s)
    BY <1>0, <2>4, PhaseFrame
  <2>7. QED BY <2>1, <2>5, <2>6, PhaseMove DEF AbstractStep, Lifecycle!Next, Lifecycle!End
<1> QED BY <1>2, <1>3

LEMMA CloseExpiredSteps == IInv /\ CloseExpired => AbstractStep
<1> SUFFICES ASSUME IInv, CloseExpired PROVE AbstractStep
  OBVIOUS
<1>0. rows \in [Runs -> Row] /\ clock \in Int /\ TTL \in Int /\ UNCHANGED worker
  BY ServiceAssumption DEF CloseExpired, IInv, TypeOK
<1>1. \A s \in Runs : \/ rows'[s] = rows[s]
                      \/ rows[s].status = "RUNNING" /\ rows'[s].status = "DELETED"
  BY <1>0, SweptRows DEF CloseExpired, IsExpired
<1>2. \A s \in Runs : Held(s)' <=> Held(s)
  BY <1>0 DEF Held, Holds
<1>3. ASSUME NEW s \in Runs PROVE PhaseOf(s)' = PhaseOf(s)
  <2>1. CASE rows'[s] = rows[s]
    BY <1>2, <2>1, PhaseFrame
  <2>2. CASE rows[s].status = "RUNNING" /\ rows'[s].status = "DELETED"
    BY <1>2, <2>2 DEF PhaseOf
  <2>3. QED BY <1>1, <2>1, <2>2
<1> QED BY <1>3, PhaseStays DEF AbstractStep

\* The run service implements RunLifecycle: whatever the interleaving of workers, clients,
\* worker deaths, stops and restarts, the agent of a run starts executing at most once.
THEOREM Refinement == Spec => AtMostOnce
<1>1. Init => Lifecycle!Init
  BY DEF Init, Lifecycle!Init, PhaseOf, NewTable, Held, Holds, Idle
<1>2. IInv /\ [Next]_vars => [Lifecycle!Next]_([r \in Runs |-> PhaseOf(r)])
  <2> SUFFICES ASSUME IInv, [Next]_vars PROVE AbstractStep
    BY DEF AbstractStep
  <2>1. CASE Tick \/ UNCHANGED vars
    <3>1. UNCHANGED <<rows, worker>>
      BY <2>1 DEF Tick, vars
    <3>2. \A s \in Runs : Held(s)' <=> Held(s)
      BY <3>1 DEF Held, Holds
    <3>3. QED BY <3>1, <3>2, PhaseFrame, PhaseStays DEF AbstractStep
  <2>2. ASSUME NEW w \in Workers, WorkerStep(w) PROVE AbstractStep
    BY <2>2, PollSteps, ClaimSteps, FinishSteps DEF WorkerStep, Poll
  <2>3. QED
    BY <2>1, <2>2, StopSteps, SubmitSteps, CancelSteps, DieSteps, CloseExpiredSteps DEF Next
<1> QED BY <1>1, <1>2, Safety, PTL DEF Spec, AtMostOnce, Lifecycle!Spec
=============================================================================
