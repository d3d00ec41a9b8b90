----------------------------- MODULE ToolManager -----------------------------
(***************************************************************************)
(* ToolManager.invoke() (manager.py) over the token buckets of             *)
(* RateLimiter (rate_limit.py).  A minute has Minute ticks; a bucket's     *)
(* level counts Minute-ths of a token, so a tick refills it by the rate.   *)
(* The only pause of a call is the polling of acquire(), which goes on     *)
(* with the rate that was in force when the call began.                    *)
(***************************************************************************)
EXTENDS Naturals, FiniteSets, FiniteSetsExt, Tables

CONSTANTS Tools, Callers, Rates,
          Minute,   \* ticks in a minute
          MaxIdle   \* bound: ticks a bucket's age is counted; from Minute on it is full

ASSUME ToolAssumption ==
  /\ Rates \subseteq Nat /\ Rates # {} /\ IsFiniteSet(Rates)
  /\ Minute \in Nat \ {0} /\ MaxIdle \in Nat

VARIABLES tools,    \* the rate of each registered tool; the handler comes with it
          buckets,  \* level and age of the buckets used so far
          calls,    \* where each caller is in an invocation
          grants    \* history, per tool and n up to Minute: tokens given in the last n ticks
toolVars == <<tools, buckets, calls, grants>>

None == [t \in {} |-> t]
Ready == [at |-> "ready"]
ToolInit ==
  /\ tools = None /\ buckets = None
  /\ calls = [c \in Callers |-> Ready]
  /\ grants = [t \in Tools |-> [i \in 1 .. Minute |-> 0]]

RegisterTool(t, rate) ==
  /\ tools' = With(tools, t, rate)
  /\ UNCHANGED <<buckets, calls, grants>>

(* One round of acquire(): a bucket unknown so far is made empty, then it  *)
(* is refilled for the time since the last round, to its capacity at most. *)
Bucket(t) == IF t \in DOMAIN buckets THEN buckets[t] ELSE [level |-> 0, age |-> 0]
RefilledUncapped(b, rate) == b.level + b.age * rate
Refilled(b, rate) == Min({rate * Minute, b.level + b.age * rate})

HasMoreThanToken(level) == level > Minute
HasToken(level) == level >= Minute
Attempt(c, t, rate) ==
  LET level == Refilled(Bucket(t), rate)
      granted == HasToken(level)
  IN  /\ buckets' = With(buckets, t, [level |-> IF granted THEN level - Minute ELSE level, age |-> 0])
      /\ calls' = [calls EXCEPT ![c] = [at |-> IF granted THEN "running" ELSE "waiting", tool |-> t, rate |-> rate]]
      /\ grants' = [grants EXCEPT ![t] = [n \in 1 .. Minute |-> IF granted THEN grants[t][n] + 1 ELSE grants[t][n]]]

(* A tool without a handler is answered at once; the caller goes on.       *)
Invoke(c, t) ==
  /\ calls[c] = Ready
  /\ IF t \in DOMAIN tools THEN Attempt(c, t, tools[t]) ELSE UNCHANGED <<buckets, calls, grants>>
  /\ UNCHANGED tools
Poll(c) ==
  /\ calls[c].at = "waiting"
  /\ Attempt(c, calls[c].tool, calls[c].rate)
  /\ UNCHANGED tools

(* The handler answers or raises; the caller may invoke again. *)
Return(c) ==
  /\ calls[c].at = "running"
  /\ calls' = [calls EXCEPT ![c] = Ready]
  /\ UNCHANGED <<tools, buckets, grants>>

TickTools ==
  /\ buckets' = [t \in DOMAIN buckets |-> [level |-> buckets[t].level, age |-> Min({buckets[t].age + 1, MaxIdle})]]
  /\ grants' = [t \in Tools |-> [n \in 1 .. Minute |-> IF n = 1 THEN 0 ELSE grants[t][n - 1]]]
  /\ UNCHANGED <<tools, calls>>

ToolNext ==
  \/ \E t \in Tools, rate \in Rates : RegisterTool(t, rate)
  \/ \E c \in Callers : Poll(c) \/ Return(c) \/ \E t \in Tools : Invoke(c, t)
  \/ TickTools
------------------------------------------------------------------------------
MaxRate == Max(Rates)

(* In any stretch of time a tool starts no more often than a full bucket   *)
(* and the refill of that stretch allow, whoever polls when and at which   *)
(* of the rates the tool had.                                              *)
RateHonoured ==
  \A t \in Tools, ticks \in 1 .. Minute : grants[t][ticks] * Minute =< (Minute + ticks - 1) * MaxRate

(* While callers wait for a tool, one after the other of its callers gets  *)
(* a token, though polls come in any order and new callers do not queue:   *)
(* no refill is lost, however often callers poll in vain.  It need not be  *)
(* any one of those who wait.  Where one waits at a rate of zero, it never *)
(* gets a token and each of its polls empties the bucket for all.          *)
WaitsFor(c, t) == calls[c].at = "waiting" /\ calls[c].tool = t
TokensFlow ==
  \A t \in Tools :
    (\E c \in Callers : WaitsFor(c, t)) ~>
      (grants[t][1] > 0 \/ \E c \in Callers : WaitsFor(c, t) /\ calls[c].rate = 0)
==============================================================================
