------------------------------ MODULE RunStore ------------------------------
(***************************************************************************)
(* The SQLite run table of intelliqx_service/state.py.                      *)
(*                                                                         *)
(* Every StateStore method runs under one threading.Lock and inside one    *)
(* BEGIN IMMEDIATE transaction, so each is a single atomic change of the   *)
(* table: it is written here as an operator from the table before to the   *)
(* table after.  The service (module RunService) decides when each one is  *)
(* called; two calls that happen without an await between them compose.    *)
(***************************************************************************)
EXTENDS Integers

CONSTANT Runs  \* the run ids uuid4() may hand out; an id is never handed out twice

Terminal == {"SUCCEEDED", "FAILED", "CANCELLED"}

\* The `status` column.  "ABSENT" is an id not inserted yet and "DELETED" one whose row
\* close_expired() removed: neither has a row.
Status == {"PENDING", "RUNNING", "ABSENT", "DELETED"} \cup Terminal

\* What the output_json and error columns hold: both NULL, an output, or an error.
Outcome == {"none", "output", "error"}

Row == [status : Status, attempts : Nat, maxRetries : Nat,
        created : Int, updated : Int, outcome : Outcome]

NewTable ==
    [r \in Runs |-> [status |-> "ABSENT", attempts |-> 0, maxRetries |-> 0,
                     created |-> 0, updated |-> 0, outcome |-> "none"]]

HasRow(t, r) == t[r].status \notin {"ABSENT", "DELETED"}

\* The default of enqueue()'s max_retries parameter.
DefaultMaxRetries == 1

\* An enqueue that counts attempts from the wrong number (for the mutation checks).
EnqueuedOffByOne(t, r, max, now) ==
    [t EXCEPT ![r] = [status |-> "PENDING", attempts |-> -1, maxRetries |-> max,
                      created |-> now, updated |-> now, outcome |-> "none"]]

\* enqueue(): a fresh PENDING row.
Enqueued(t, r, max, now) ==
    [t EXCEPT ![r] = [status |-> "PENDING", attempts |-> 0, maxRetries |-> max,
                      created |-> now, updated |-> now, outcome |-> "none"]]

\* A SELECT that also returns cancelled rows (for the mutation checks).
IsOldestUnfinished(t, r) ==
    /\ t[r].status \in {"PENDING", "CANCELLED"}
    /\ \A s \in Runs : t[s].status = "PENDING" => t[r].created <= t[s].created

\* claim_next()'s SELECT ... WHERE status = PENDING ORDER BY created_at ASC LIMIT 1; rows
\* created at the same instant come in any order.
IsOldestPending(t, r) ==
    /\ t[r].status = "PENDING"
    /\ \A s \in Runs : t[s].status = "PENDING" => t[r].created <= t[s].created

\* The row claim_next() picked is out of retries: attempts + 1 > max_retries.
Exhausted(t, r) == t[r].attempts + 1 > t[r].maxRetries

\* A claim that forgets to fail an exhausted row (for the mutation checks).
ClaimFailedUnmarked(t, r, now) == [t EXCEPT ![r] = [@ EXCEPT !.updated = now]]

\* claim_next() on an exhausted row: FAILED, with `error` left NULL; the caller gets None.
ClaimFailed(t, r, now) ==
    [t EXCEPT ![r] = [@ EXCEPT !.status = "FAILED", !.updated = now]]

\* A claim that forgets to mark the row (for the mutation checks).
ClaimedUnmarked(t, r, now) ==
    [t EXCEPT ![r] = [@ EXCEPT !.attempts = @ + 1, !.updated = now]]

\* claim_next() on any other row: RUNNING, with the attempt counted.
Claimed(t, r, now) ==
    [t EXCEPT ![r] = [@ EXCEPT !.status = "RUNNING", !.attempts = t[r].attempts + 1,
                              !.updated = now]]

\* complete(): an UPDATE by run_id alone, whatever the row's status; no row, no effect.
Completed(t, r, status, now) ==
    IF HasRow(t, r)
    THEN [t EXCEPT ![r] = [@ EXCEPT !.status = status, !.updated = now,
                              !.outcome = IF status = "SUCCEEDED" THEN "output" ELSE "error"]]
    ELSE t

\* A requeue that starts the attempts afresh (for the mutation checks).
RequeuedAfresh(t, r, next_attempt, now) ==
    [t EXCEPT ![r] = [@ EXCEPT !.status = "PENDING", !.attempts = 0, !.updated = now]]

\* requeue(): PENDING again, also an UPDATE by run_id alone; output and error are kept.
Requeued(t, r, next_attempt, now) ==
    IF HasRow(t, r)
    THEN [t EXCEPT ![r] = [@ EXCEPT !.status = "PENDING", !.attempts = next_attempt,
                              !.updated = now]]
    ELSE t

\* A cancel that only refuses a missing or a cancelled row (for the mutation checks).
CancellableLate(t, r) == HasRow(t, r) /\ t[r].status # "CANCELLED"

\* cancel() refuses a missing row and a row in a terminal state.
Cancellable(t, r) == t[r].status \in {"PENDING", "RUNNING"}

Cancelled(t, r, now) ==
    [t EXCEPT ![r] = [@ EXCEPT !.status = "CANCELLED", !.updated = now]]

\* An expiry one tick early (for the mutation checks).
IsExpiredEarly(t, r, now, ttl) == t[r].status = "RUNNING" /\ t[r].updated <= now - ttl

\* close_expired(): DELETE the RUNNING rows not updated for more than ttl.
IsExpired(t, r, now, ttl) == t[r].status = "RUNNING" /\ t[r].updated < now - ttl

Swept(t, now, ttl) ==
    [r \in Runs |-> IF IsExpired(t, r, now, ttl)
                    THEN [t[r] EXCEPT !.status = "DELETED"] ELSE t[r]]
=============================================================================
