------------------------ MODULE PlatformServicesProofs ------------------------
(***************************************************************************)
(* What the in-process services promise for any keys, deadlines, tools,    *)
(* rates, callers and threads.  Each service has its own inductive         *)
(* invariant; the steps of one leave the variables of the others alone.    *)
(***************************************************************************)
EXTENDS PlatformServices, FiniteLemmas

-------------------------------------------------------------------------------
(* The TTL store: an expired key stays expired until a step purges it,     *)
(* which empties all of it, or gives it another deadline.                  *)

\* The clock and the deadlines are numbers.
TimesAreNumbers == now \in Int /\ \A k \in DOMAIN expiry : expiry[k] \in Int
OutlivedHasKeys == \A d \in outlived : d[1] \in Keys
TtlInv == TimesAreNumbers /\ OutlivedHasKeys /\ ExpiredStaysGone

-------------------------------------------------------------------------------
(* The rate limiter.  What was given in the last n ticks, and what the     *)
(* bucket could give now, never exceed the budget of n ticks together: a   *)
(* token moves from one to the other, and a tick adds as much to the       *)
(* budget as it can add to the bucket.                                     *)

InHand(t) == Refilled(Bucket(t), MaxRate)
Budget(ticks) == (Minute + ticks - 1) * MaxRate

ToolTypes ==
  /\ \A t \in DOMAIN tools : tools[t] \in Rates
  /\ \A t \in Tools : Bucket(t).level \in Nat /\ Bucket(t).age \in Nat
  /\ DOMAIN calls = Callers
  /\ \A c \in Callers : calls[c].at = "waiting" => calls[c].tool \in Tools /\ calls[c].rate \in Rates
  /\ grants \in [Tools -> [1 .. Minute -> Nat]]
WithinBudget ==
  \A t \in Tools, ticks \in 1 .. Minute : grants[t][ticks] * Minute + InHand(t) =< Budget(ticks)
ToolInv == ToolTypes /\ WithinBudget

-------------------------------------------------------------------------------
(* The metrics.  A thread that holds a metric object it was given since    *)
(* the last clearing of its registry holds the object the registry shows,  *)
(* and no other thread's registry shows that object.                       *)

ThreadStates(registryCount, metricCount) ==
  [at : {"start", "create", "return", "holds", "failed"},
   registry : 0 .. registryCount, metric : 0 .. metricCount, since : Nat]
MetricTypes ==
  /\ singleton \in 0 .. Len(registries)
  /\ registries \in Seq(Nat) /\ samples \in Seq(Seq(Samples))
  /\ resets \in Seq(Nat) /\ Len(resets) = Len(registries)
  /\ noted \in Seq(Nat) /\ Len(noted) = Len(registries)
  /\ \A r \in DOMAIN registries : registries[r] =< Len(samples)
  /\ threads \in [Threads -> ThreadStates(Len(registries), Len(samples))]
OneRegistryEach ==
  \A q, r \in DOMAIN registries : registries[q] = registries[r] /\ registries[q] # 0 => q = r
HoldsShown(thread, shown, cleared) ==
  /\ thread.at = "holds"
  /\ thread.since =< cleared[thread.registry]
  /\ \A r \in DOMAIN shown : shown[r] = thread.metric <=> r = thread.registry /\ thread.since = cleared[r]
ThreadsHold ==
  \A th \in Threads :
    /\ threads[th].at = "holds" => threads[th].registry # 0
    /\ threads[th].metric # 0 => HoldsShown(threads[th], registries, resets)
CountsAccount == \A r \in DOMAIN registries : CountAccounts(r)
ResetKnows ==
  /\ reset \in [at : {"start", "read", "clear", "forget"}, registry : Nat]
  /\ reset.at = "read" => singleton # 0
  /\ reset.at = "clear" => reset.registry \in DOMAIN registries
MetricInv == MetricTypes /\ OneRegistryEach /\ ThreadsHold /\ CountsAccount /\ ResetKnows

\* The inductive invariant.
IInv == TtlInv /\ ToolInv /\ MetricInv

-------------------------------------------------------------------------------
(* Proofs: the TTL store *)

LEMMA TtlKeepsTimes ==
  ASSUME TimesAreNumbers, TtlNext
  PROVE  TimesAreNumbers'
<1> USE DEF TimesAreNumbers
<1>1. ASSUME NEW k \in Keys, ReadKey(k) \/ Delete(k) \/ \E f \in Fields, v \in Values : HSet(k, f, v)
      PROVE  TimesAreNumbers'
  BY <1>1 DEF ReadKey, Delete, HSet, Purged, Without, Restrict
<1>2. ASSUME NEW k \in Keys, (\E ttl \in TTLs : Expire(k, ttl)) \/ \E v \in {0, Text} : SetKey(k, v)
      PROVE  TimesAreNumbers'
  BY <1>2, TtlAssumption DEF Expire, SetKey, With, Without, Restrict
<1>3. ASSUME NEW k \in Keys, Incr(k) \/ RPop(k) \/ \E v \in Values : LPush(k, v)
      PROVE  TimesAreNumbers'
  BY <1>3 DEF Incr, RPop, LPush
<1>4. CASE ResetStore
  BY <1>4 DEF ResetStore, NoEntry
<1>5. CASE Elapse
  BY <1>5 DEF Elapse
<1> QED BY <1>1, <1>2, <1>3, <1>4, <1>5 DEF TtlNext

\* A deadline that has passed and has passed no more has been replaced.
LEMMA DeadlinesMoveKeepGone ==
  ASSUME TtlInv, NEW written, DeadlinesMove(written)
  PROVE  OutlivedHasKeys' /\ ExpiredStaysGone'
<1> DEFINE late == {k \in Keys : ~Expired(k) /\ Expired(k)'}
<1>1. /\ outlived' = (outlived \ written) \cup {d \in Held' : d[1] \in late}
      /\ revived' = (revived \ late) \cup {k \in Keys : Expired(k) /\ ~Expired(k)'}
  BY DEF DeadlinesMove
<1>2. \A d \in outlived : d[1] \in Keys /\ (Expired(d[1]) \/ d[1] \in revived)
  BY DEF TtlInv, OutlivedHasKeys, ExpiredStaysGone
<1>3. ASSUME NEW d \in outlived'
      PROVE  d[1] \in Keys /\ (Expired(d[1])' \/ d[1] \in revived')
  <2>1. CASE d[1] \in late
    BY <2>1
  <2>2. CASE d[1] \notin late
    BY <1>1, <1>2, <2>2
  <2> QED BY <2>1, <2>2
<1> QED BY <1>3 DEF OutlivedHasKeys, ExpiredStaysGone

\* Where the data of some keys leaves, but for what is written anew, and no
\* other deadline changes, nothing that outlived its key comes into sight.
LEMMA DataLeaveKeepsGone ==
  ASSUME TtlInv, NEW written, NEW keys, DataLeave(written, keys), now' = now,
         \A d \in Held' : d[1] \in keys => d \in written,
         \A k : k \in DOMAIN expiry /\ k \notin keys => k \in DOMAIN expiry' /\ expiry'[k] = expiry[k]
  PROVE  OutlivedHasKeys' /\ ExpiredStaysGone'
<1>1. outlived' = (outlived \ written) \cap Held' /\ revived' = revived \ keys
  BY DEF DataLeave
<1>2. ASSUME NEW d \in outlived'
      PROVE  d[1] \in Keys /\ (Expired(d[1])' \/ d[1] \in revived')
  <2>1. d \in outlived /\ d[1] \notin keys
    BY <1>1
  <2>2. d[1] \in Keys /\ (Expired(d[1]) \/ d[1] \in revived)
    BY <2>1 DEF TtlInv, OutlivedHasKeys, ExpiredStaysGone
  <2>3. Expired(d[1]) => Expired(d[1])'
    BY <2>1 DEF Expired
  <2> QED BY <1>1, <2>1, <2>2, <2>3
<1> QED BY <1>2 DEF OutlivedHasKeys, ExpiredStaysGone

LEMMA TtlKeepsGone ==
  ASSUME TtlInv, TtlNext
  PROVE  OutlivedHasKeys' /\ ExpiredStaysGone'
<1>1. ASSUME NEW k \in Keys, ReadKey(k) PROVE OutlivedHasKeys' /\ ExpiredStaysGone'
  <2>1. DataLeave({}, PurgedKeys(k)) /\ now' = now
    BY <1>1 DEF ReadKey
  <2>2. \A d \in Held' : d[1] \in PurgedKeys(k) => d \in {}
    BY <1>1 DEF ReadKey, Held, PurgedKeys, Purged, Without, Restrict
  <2>3. \A j : j \in DOMAIN expiry /\ j \notin PurgedKeys(k) => j \in DOMAIN expiry' /\ expiry'[j] = expiry[j]
    BY <1>1 DEF ReadKey, PurgedKeys, Purged, Without, Restrict
  <2> QED BY <2>1, <2>2, <2>3, DataLeaveKeepsGone
<1>2. ASSUME NEW k \in Keys, NEW f \in Fields, NEW v \in Values, HSet(k, f, v)
      PROVE  OutlivedHasKeys' /\ ExpiredStaysGone'
  <2> DEFINE written == PurgedKeys(k) \X {"hash"}
  <2>1. DataLeave(written, PurgedKeys(k)) /\ now' = now
    BY <1>2 DEF HSet
  <2>2. \A d \in Held' : d[1] \in PurgedKeys(k) => d \in written
    <3> SUFFICES ASSUME NEW d \in Held', d[1] \in PurgedKeys(k) PROVE d \in written
      OBVIOUS
    <3>1. d[1] = k /\ Expired(k)
      BY DEF PurgedKeys
    <3>2. k \notin DOMAIN kv' /\ k \notin DOMAIN lists'
      BY <1>2, <3>1 DEF HSet, Purged, Without, Restrict
    <3>3. d = <<k, "hash">>
      BY <3>1, <3>2 DEF Held
    <3> QED BY <3>1, <3>3
  <2>3. \A j : j \in DOMAIN expiry /\ j \notin PurgedKeys(k) => j \in DOMAIN expiry' /\ expiry'[j] = expiry[j]
    BY <1>2 DEF HSet, PurgedKeys, Purged, Without, Restrict
  <2> HIDE DEF written
  <2> QED BY <2>1, <2>2, <2>3, DataLeaveKeepsGone
<1>3. ASSUME NEW k \in Keys, Delete(k) PROVE OutlivedHasKeys' /\ ExpiredStaysGone'
  <2>1. DataLeave({}, {k}) /\ now' = now
    BY <1>3 DEF Delete
  <2>2. \A d \in Held' : d[1] \in {k} => d \in {}
    BY <1>3 DEF Delete, Held, Without, Restrict
  <2>3. \A j : j \in DOMAIN expiry /\ j \notin {k} => j \in DOMAIN expiry' /\ expiry'[j] = expiry[j]
    BY <1>3 DEF Delete, Without, Restrict
  <2> QED BY <2>1, <2>2, <2>3, DataLeaveKeepsGone
<1>4. CASE ResetStore
  <2>1. Held' = {} /\ outlived' = (outlived \ {}) \cap Held'
    BY <1>4 DEF ResetStore, Held, NoEntry, DataLeave
  <2> QED BY <2>1 DEF OutlivedHasKeys, ExpiredStaysGone
<1>5. ASSUME NEW k \in Keys, (\E ttl \in TTLs : Expire(k, ttl)) \/ \E v \in {0, Text} : SetKey(k, v)
      PROVE  OutlivedHasKeys' /\ ExpiredStaysGone'
  <2>1. DeadlinesMove({}) \/ DeadlinesMove({<<k, "string">>})
    BY <1>5 DEF Expire, SetKey
  <2> QED BY <2>1, DeadlinesMoveKeepGone
<1>6. CASE Elapse
  BY <1>6, DeadlinesMoveKeepGone DEF Elapse
<1>7. ASSUME NEW k \in Keys, Incr(k) \/ RPop(k) \/ \E v \in Values : LPush(k, v)
      PROVE  OutlivedHasKeys' /\ ExpiredStaysGone'
  <2>1. UNCHANGED <<expiry, now, history>>
    BY <1>7 DEF Incr, RPop, LPush
  <2> QED BY <2>1 DEF TtlInv, OutlivedHasKeys, ExpiredStaysGone, Expired, history
<1> QED BY <1>1, <1>2, <1>3, <1>4, <1>5, <1>6, <1>7 DEF TtlNext

-------------------------------------------------------------------------------
(* Proofs: the rate limiter *)

LEMMA Products ==
  ASSUME NEW a \in Nat, NEW b \in Nat, NEW c \in Nat
  PROVE  /\ a * b \in Nat /\ 0 * a = 0
         /\ (a + 1) * b = a * b + b
         /\ b =< c => a * b =< a * c /\ b * a =< c * a
OBVIOUS

LEMMA RatesAreBounded == MaxRate \in Nat /\ \A rate \in Rates : rate \in Nat /\ rate =< MaxRate
<1>1. Rates \in SUBSET Int /\ IsFiniteSet(Rates) /\ Rates # {} /\ Rates \subseteq Nat
  BY ToolAssumption
<1>2. MaxRate \in Rates /\ \A rate \in Rates : MaxRate >= rate
  BY <1>1, MaxOfFinite DEF MaxRate
<1> QED BY <1>1, <1>2

LEMMA RefilledIs ==
  ASSUME NEW b, b.level \in Nat, b.age \in Nat, NEW rate \in Nat
  PROVE  /\ Refilled(b, rate) = IF rate * Minute =< b.level + b.age * rate THEN rate * Minute
                                ELSE b.level + b.age * rate
         /\ Refilled(b, rate) \in Nat
<1> DEFINE full == rate * Minute
           level == b.level + b.age * rate
<1>1. full \in Nat /\ level \in Nat
  BY Products, ToolAssumption
<1>2. Refilled(b, rate) = Min({full, level})
  BY DEF Refilled
<1> HIDE DEF full, level
<1>3. Refilled(b, rate) = IF full =< level THEN full ELSE level
  BY <1>1, <1>2, MinOfTwo
<1>4. Refilled(b, rate) \in Nat
  BY <1>1, <1>3
<1> QED BY <1>3, <1>4 DEF full, level

\* A higher rate refills no less.
LEMMA RefilledGrows ==
  ASSUME NEW b, b.level \in Nat, b.age \in Nat, NEW rate \in Nat, NEW more \in Nat, rate =< more
  PROVE  Refilled(b, rate) =< Refilled(b, more)
<1>1. /\ rate * Minute \in Nat /\ more * Minute \in Nat /\ rate * Minute =< more * Minute
      /\ b.age * rate \in Nat /\ b.age * more \in Nat /\ b.age * rate =< b.age * more
  BY Products, ToolAssumption
<1> QED BY <1>1, RefilledIs

\* A tick refills by the rate at most.
LEMMA RefilledByTick ==
  ASSUME NEW b, b.level \in Nat, b.age \in Nat, NEW age \in Nat, age =< b.age + 1, NEW rate \in Nat
  PROVE  LET older == [level |-> b.level, age |-> age]
         IN  /\ Refilled(older, rate) =< Refilled(b, rate) + rate
             /\ Refilled(older, rate) =< rate * Minute
<1> DEFINE older == [level |-> b.level, age |-> age]
<1>1. older.level = b.level /\ older.age = age
  OBVIOUS
<1> HIDE DEF older
<1>2. /\ rate * Minute \in Nat /\ b.age * rate \in Nat /\ age * rate \in Nat
      /\ age * rate =< b.age * rate + rate
  <2>1. b.age + 1 \in Nat /\ (b.age + 1) * rate = b.age * rate + rate
    BY Products
  <2> QED BY <2>1, Products, ToolAssumption
<1>3. Refilled(older, rate) = IF rate * Minute =< b.level + age * rate THEN rate * Minute
                              ELSE b.level + age * rate
  BY <1>1, RefilledIs
<1> QED BY <1>2, <1>3, RefilledIs DEF older

LEMMA Budgets ==
  ASSUME NEW n \in Nat \ {0}
  PROVE  /\ Budget(n) \in Nat /\ Budget(n + 1) = Budget(n) + MaxRate
         /\ Budget(1) = MaxRate * Minute
<1>1. MaxRate \in Nat /\ Minute + n - 1 \in Nat
  BY RatesAreBounded, ToolAssumption
<1>2. (Minute + n - 1) * MaxRate \in Nat /\ (Minute + n - 1 + 1) * MaxRate = (Minute + n - 1) * MaxRate + MaxRate
  BY <1>1, Products
<1>3. Minute + (n + 1) - 1 = Minute + n - 1 + 1 /\ Minute + 1 - 1 = Minute
  BY ToolAssumption
<1>4. Minute * MaxRate = MaxRate * Minute
  BY <1>1, ToolAssumption
<1> QED BY <1>2, <1>3, <1>4 DEF Budget

\* One round of acquire(): the token it gives leaves the bucket.
LEMMA AttemptKeepsToolInv ==
  ASSUME ToolInv, NEW c \in Callers, NEW t \in Tools, NEW rate \in Rates, Attempt(c, t, rate),
         UNCHANGED tools
  PROVE  ToolInv'
<1> USE DEF ToolInv
<1> DEFINE level == Refilled(Bucket(t), rate)
           granted == HasToken(level)
           left == IF granted THEN level - Minute ELSE level
<1>1. rate \in Nat /\ rate =< MaxRate /\ MaxRate \in Nat /\ Minute \in Nat \ {0}
  BY RatesAreBounded, ToolAssumption
<1>2. Bucket(t).level \in Nat /\ Bucket(t).age \in Nat
  BY DEF ToolTypes
<1>3. level \in Nat /\ InHand(t) \in Nat /\ level =< InHand(t)
  BY <1>1, <1>2, RefilledIs, RefilledGrows DEF InHand
<1>4. left \in Nat /\ (granted => left + Minute = level) /\ (~granted => left = level)
  BY <1>1, <1>3 DEF HasToken
<1>5. /\ buckets' = With(buckets, t, [level |-> left, age |-> 0])
      /\ calls' = [calls EXCEPT ![c] = [at |-> IF granted THEN "running" ELSE "waiting", tool |-> t, rate |-> rate]]
      /\ grants' = [grants EXCEPT ![t] = [n \in 1 .. Minute |-> IF granted THEN grants[t][n] + 1 ELSE grants[t][n]]]
  BY DEF Attempt
<1> HIDE DEF left, granted, level
<1>6. /\ Bucket(t)' = [level |-> left, age |-> 0]
      /\ \A s \in Tools : s # t => Bucket(s)' = Bucket(s)
  BY <1>5 DEF Bucket, With
<1>7. ToolTypes'
  <2>1. \A s \in Tools : Bucket(s)'.level \in Nat /\ Bucket(s)'.age \in Nat
    BY <1>4, <1>6 DEF ToolTypes
  <2>2. /\ DOMAIN calls' = Callers
        /\ \A d \in Callers : calls'[d].at = "waiting" => calls'[d].tool \in Tools /\ calls'[d].rate \in Rates
    BY <1>5 DEF ToolTypes
  <2>3. grants' \in [Tools -> [1 .. Minute -> Nat]]
    <3> DEFINE given == [n \in 1 .. Minute |-> IF granted THEN grants[t][n] + 1 ELSE grants[t][n]]
    <3>1. grants \in [Tools -> [1 .. Minute -> Nat]] /\ \A n \in 1 .. Minute : grants[t][n] \in Nat
      BY DEF ToolTypes
    <3>2. given \in [1 .. Minute -> Nat]
      BY <3>1
    <3>3. grants' = [grants EXCEPT ![t] = given]
      BY <1>5
    <3> HIDE DEF given
    <3> QED BY <3>1, <3>2, <3>3
  <2> QED BY <2>1, <2>2, <2>3 DEF ToolTypes
<1>8. InHand(t)' =< left /\ InHand(t)' \in Nat
  <2> DEFINE b == [level |-> left, age |-> 0]
  <2>1. InHand(t)' = Refilled(b, MaxRate)
    BY <1>6 DEF InHand
  <2>2. b.level = left /\ b.age = 0
    OBVIOUS
  <2> HIDE DEF b
  <2>3. 0 * MaxRate = 0 /\ MaxRate * Minute \in Nat
    BY <1>1, Products
  <2>4. /\ Refilled(b, MaxRate) = IF MaxRate * Minute =< b.level + b.age * MaxRate THEN MaxRate * Minute
                                  ELSE b.level + b.age * MaxRate
        /\ Refilled(b, MaxRate) \in Nat
    <3>1. b.level \in Nat /\ b.age \in Nat
      BY <1>4, <2>2
    <3> QED BY <1>1, <3>1, RefilledIs
  <2> QED BY <1>4, <2>1, <2>2, <2>3, <2>4
<1>9. WithinBudget'
  <2> SUFFICES ASSUME NEW s \in Tools, NEW n \in 1 .. Minute
               PROVE  grants'[s][n] * Minute + InHand(s)' =< Budget(n)
    BY DEF WithinBudget, Budget
  <2>1. grants[s][n] \in Nat /\ grants[s][n] * Minute + InHand(s) =< Budget(n)
    BY DEF ToolTypes, WithinBudget
  <2>2. CASE s # t
    <3>1. grants'[s][n] = grants[s][n] /\ InHand(s)' = InHand(s)
      BY <1>5, <1>6, <2>2 DEF ToolTypes, InHand
    <3> QED BY <2>1, <3>1
  <2>3. CASE s = t
    <3>1. grants'[s][n] = IF granted THEN grants[s][n] + 1 ELSE grants[s][n]
      BY <1>5, <2>3 DEF ToolTypes
    <3>2. /\ grants[s][n] * Minute \in Nat /\ Budget(n) \in Nat
          /\ (grants[s][n] + 1) * Minute = grants[s][n] * Minute + Minute
      BY <1>1, <2>1, Products, Budgets
    <3>3. grants'[s][n] * Minute + InHand(s)' =< Budget(n)
      <4> DEFINE given == grants[s][n] * Minute
      <4>1. CASE granted
        <5>1. grants'[s][n] * Minute = given + Minute
          BY <3>1, <3>2, <4>1
        <5> HIDE DEF given
        <5> QED BY <1>1, <1>3, <1>4, <1>8, <2>1, <2>3, <3>2, <4>1, <5>1 DEF given
      <4>2. CASE ~granted
        <5>1. grants'[s][n] * Minute = given
          BY <3>1, <4>2
        <5> QED BY <1>1, <1>3, <1>4, <1>8, <2>1, <2>3, <3>2, <4>2, <5>1
      <4> QED BY <4>1, <4>2
    <3> QED BY <3>3
  <2> QED BY <2>2, <2>3
<1> QED BY <1>7, <1>9

\* A tick moves every window on by one and refills the buckets.
LEMMA TickKeepsToolInv ==
  ASSUME ToolInv, TickTools
  PROVE  ToolInv'
<1> USE DEF ToolInv
<1>1. MaxRate \in Nat /\ Minute \in Nat \ {0} /\ MaxIdle \in Nat
  BY RatesAreBounded, ToolAssumption
<1>2. \A t \in Tools : \E age \in Nat :
         /\ age =< Bucket(t).age + 1
         /\ Bucket(t)' = [level |-> Bucket(t).level, age |-> age]
  <2> TAKE t \in Tools
  <2>1. Bucket(t).age \in Nat /\ Bucket(t).age + 1 \in Nat
    BY DEF ToolTypes
  <2>2. CASE t \in DOMAIN buckets
    <3> DEFINE age == Min({Bucket(t).age + 1, MaxIdle})
    <3>1. Bucket(t)' = [level |-> Bucket(t).level, age |-> age]
      BY <2>2 DEF TickTools, Bucket
    <3>2. age \in Nat /\ age =< Bucket(t).age + 1
      BY <1>1, <2>1, MinOfTwo
    <3> QED BY <3>1, <3>2
  <2>3. CASE t \notin DOMAIN buckets
    BY <2>1, <2>3 DEF TickTools, Bucket
  <2> QED BY <2>2, <2>3
<1>3. grants' = [t \in Tools |-> [n \in 1 .. Minute |-> IF n = 1 THEN 0 ELSE grants[t][n - 1]]]
  BY DEF TickTools
<1>4. ToolTypes'
  <2>1. \A t \in Tools : Bucket(t)'.level \in Nat /\ Bucket(t)'.age \in Nat
    BY <1>2 DEF ToolTypes
  <2>2. grants' \in [Tools -> [1 .. Minute -> Nat]]
    <3>1. \A t \in Tools, n \in 1 .. Minute : n # 1 => grants[t][n - 1] \in Nat
      BY <1>1 DEF ToolTypes
    <3> QED BY <1>1, <1>3, <3>1
  <2> QED BY <2>1, <2>2 DEF ToolTypes, TickTools
<1>5. WithinBudget'
  <2> SUFFICES ASSUME NEW t \in Tools, NEW n \in 1 .. Minute
               PROVE  grants'[t][n] * Minute + InHand(t)' =< Budget(n)
    BY DEF WithinBudget, Budget
  <2>1. Bucket(t).level \in Nat /\ Bucket(t).age \in Nat
    BY DEF ToolTypes
  <2>2. PICK age \in Nat : /\ age =< Bucket(t).age + 1
                           /\ Bucket(t)' = [level |-> Bucket(t).level, age |-> age]
    BY <1>2
  <2>3. /\ InHand(t)' =< InHand(t) + MaxRate
        /\ InHand(t)' =< MaxRate * Minute
    BY <1>1, <2>1, <2>2, RefilledByTick DEF InHand
  <2>4. InHand(t) \in Nat /\ InHand(t)' \in Nat
    <3>1. Bucket(t)'.level \in Nat /\ Bucket(t)'.age \in Nat
      BY <1>4 DEF ToolTypes
    <3> QED BY <1>1, <2>1, <3>1, RefilledIs DEF InHand
  <2>5. CASE n = 1
    <3>1. grants'[t][n] = 0
      BY <1>3, <2>5
    <3>2. 0 * Minute = 0 /\ Budget(n) = MaxRate * Minute
      BY <1>1, <2>5, Products, Budgets
    <3>3. grants'[t][n] * Minute = 0
      BY <3>1, <3>2
    <3> QED BY <2>3, <2>4, <3>2, <3>3
  <2>6. CASE n # 1
    <3> DEFINE m == n - 1
    <3>1. m \in 1 .. Minute /\ m \in Nat \ {0} /\ n = m + 1
      BY <1>1, <2>6
    <3>2. grants'[t][n] = grants[t][m]
      BY <1>3, <2>6
    <3> HIDE DEF m
    <3>3. grants[t][m] \in Nat /\ grants[t][m] * Minute + InHand(t) =< Budget(m)
      BY <3>1 DEF ToolTypes, WithinBudget
    <3>4. grants[t][m] * Minute \in Nat /\ Budget(m) \in Nat /\ Budget(n) = Budget(m) + MaxRate
      BY <1>1, <3>1, <3>3, Products, Budgets
    <3> DEFINE given == grants[t][m] * Minute
    <3>5. grants'[t][n] * Minute = given /\ given \in Nat /\ given + InHand(t) =< Budget(m)
      BY <3>2, <3>3, <3>4
    <3> HIDE DEF given
    <3> QED BY <1>1, <2>3, <2>4, <3>4, <3>5
  <2> QED BY <2>5, <2>6
<1> QED BY <1>4, <1>5

LEMMA ToolsKeepToolInv ==
  ASSUME ToolInv, ToolNext
  PROVE  ToolInv'
<1> USE DEF ToolInv
<1>1. ASSUME NEW t \in Tools, NEW rate \in Rates, RegisterTool(t, rate) PROVE ToolInv'
  <2>1. \A s \in DOMAIN tools' : tools'[s] \in Rates
    BY <1>1 DEF RegisterTool, With, ToolTypes
  <2> QED BY <1>1, <2>1 DEF RegisterTool, ToolTypes, WithinBudget, InHand, Bucket, Budget
<1>2. ASSUME NEW c \in Callers, NEW t \in Tools, Invoke(c, t) PROVE ToolInv'
  <2>1. CASE t \in DOMAIN tools
    BY <1>2, <2>1, AttemptKeepsToolInv DEF Invoke, ToolTypes
  <2>2. CASE t \notin DOMAIN tools
    <3>1. UNCHANGED toolVars
      BY <1>2, <2>2 DEF Invoke, toolVars
    <3> QED BY <3>1 DEF ToolTypes, WithinBudget, InHand, Bucket, Budget, toolVars
  <2> QED BY <2>1, <2>2
<1>3. ASSUME NEW c \in Callers, Poll(c) PROVE ToolInv'
  BY <1>3, AttemptKeepsToolInv DEF Poll, ToolTypes
<1>4. ASSUME NEW c \in Callers, Return(c) PROVE ToolInv'
  <2>1. /\ UNCHANGED <<tools, buckets, grants>>
        /\ calls' = [calls EXCEPT ![c] = Ready]
    BY <1>4 DEF Return
  <2> QED BY <2>1 DEF Ready, ToolTypes, WithinBudget, InHand, Bucket, Budget
<1>5. CASE TickTools
  BY <1>5, TickKeepsToolInv
<1> QED BY <1>1, <1>2, <1>3, <1>4, <1>5 DEF ToolNext

LEMMA ToolInitSatisfiesToolInv == ToolInit => ToolInv
<1> SUFFICES ASSUME ToolInit PROVE ToolInv
  OBVIOUS
<1>1. MaxRate \in Nat /\ Minute \in Nat \ {0}
  BY RatesAreBounded, ToolAssumption
<1>2. \A t \in Tools : Bucket(t) = [level |-> 0, age |-> 0]
  BY DEF ToolInit, None, Bucket
<1>3. ToolTypes
  BY <1>2 DEF ToolInit, None, Ready, ToolTypes
<1>4. WithinBudget
  <2> SUFFICES ASSUME NEW t \in Tools, NEW n \in 1 .. Minute
               PROVE  grants[t][n] * Minute + InHand(t) =< Budget(n)
    BY DEF WithinBudget
  <2> DEFINE b == [level |-> 0, age |-> 0]
  <2>1. b.level = 0 /\ b.age = 0 /\ InHand(t) = Refilled(b, MaxRate)
    BY <1>2 DEF InHand
  <2> HIDE DEF b
  <2>2. 0 * MaxRate = 0 /\ 0 * Minute = 0 /\ MaxRate * Minute \in Nat /\ Budget(n) \in Nat
    BY <1>1, Products, Budgets
  <2>3. Refilled(b, MaxRate) = 0
    BY <1>1, <2>1, <2>2, RefilledIs
  <2>4. grants[t][n] = 0
    BY DEF ToolInit
  <2>5. grants[t][n] * Minute = 0
    BY <2>2, <2>4
  <2> QED BY <2>1, <2>2, <2>3, <2>5
<1> QED BY <1>3, <1>4 DEF ToolInv

LEMMA BudgetHonoured == ToolInv => RateHonoured
<1> SUFFICES ASSUME ToolInv, NEW t \in Tools, NEW n \in 1 .. Minute
             PROVE  grants[t][n] * Minute =< (Minute + n - 1) * MaxRate
  BY DEF RateHonoured
<1>1. MaxRate \in Nat /\ Minute \in Nat /\ n \in Nat \ {0} /\ grants[t][n] \in Nat
  BY RatesAreBounded, ToolAssumption DEF ToolInv, ToolTypes
<1>2. InHand(t) \in Nat
  BY <1>1, RefilledIs DEF ToolInv, ToolTypes, InHand
<1>3. grants[t][n] * Minute \in Nat /\ Budget(n) \in Nat
  BY <1>1, Products, Budgets
<1>4. grants[t][n] * Minute + InHand(t) =< Budget(n)
  BY DEF ToolInv, WithinBudget
<1> DEFINE given == grants[t][n] * Minute
<1>5. given =< Budget(n)
  <2> HIDE DEF given
  <2> QED BY <1>2, <1>3, <1>4 DEF given
<1> QED BY <1>5 DEF Budget

-------------------------------------------------------------------------------
(* Proofs: the metrics *)

\* What a registry's count is.
Shown(registry, observed) == IF registry = 0 THEN 0 ELSE Len(observed[registry])

LEMMA CountsAreShown ==
  /\ CountsAccount <=> \A r \in DOMAIN registries : Shown(registries[r], samples) = noted[r]
  /\ CountsAccount' <=> \A r \in DOMAIN registries' : Shown(registries'[r], samples') = noted'[r]
<1>1. Len(<<>>) = 0
  OBVIOUS
<1>2. \A r : Snapshot(r).count = Shown(registries[r], samples)
  BY <1>1 DEF Snapshot, Shown
<1>3. \A r : Snapshot(r)'.count = Shown(registries'[r], samples')
  BY <1>1 DEF Snapshot, Shown
<1> QED BY <1>2, <1>3 DEF CountsAccount, CountAccounts

\* The places of a thread, and the numbers it holds.
LEMMA ThreadFacts ==
  ASSUME MetricTypes, NEW th \in Threads
  PROVE  /\ threads[th].registry \in 0 .. Len(registries)
         /\ threads[th].metric \in 0 .. Len(samples)
         /\ threads[th].since \in Nat
         /\ Len(registries) \in Nat /\ Len(samples) \in Nat
         /\ DOMAIN registries = 1 .. Len(registries)
         /\ DOMAIN resets = DOMAIN registries /\ DOMAIN noted = DOMAIN registries
         /\ \A r \in DOMAIN registries : registries[r] \in 0 .. Len(samples) /\ resets[r] \in Nat /\ noted[r] \in Nat
         /\ DOMAIN samples = 1 .. Len(samples)
         /\ \A m \in DOMAIN samples : samples[m] \in Seq(Samples)
<1>1. threads[th] \in ThreadStates(Len(registries), Len(samples))
  BY DEF MetricTypes
<1>2. /\ Len(registries) \in Nat /\ Len(samples) \in Nat
      /\ DOMAIN registries = 1 .. Len(registries)
      /\ DOMAIN resets = DOMAIN registries /\ DOMAIN noted = DOMAIN registries
      /\ DOMAIN samples = 1 .. Len(samples)
      /\ \A m \in DOMAIN samples : samples[m] \in Seq(Samples)
  BY DEF MetricTypes
<1>3. \A r \in DOMAIN registries : registries[r] \in 0 .. Len(samples) /\ resets[r] \in Nat /\ noted[r] \in Nat
  BY <1>2 DEF MetricTypes
<1> QED BY <1>1, <1>2, <1>3 DEF ThreadStates

\* More registries and more metric objects leave a thread in a state it may be in.
LEMMA ThreadStatesGrow ==
  ASSUME NEW q \in Nat, NEW r \in Nat, NEW m \in Nat, NEW n \in Nat, q =< r, m =< n
  PROVE  ThreadStates(q, m) \subseteq ThreadStates(r, n)
BY DEF ThreadStates

LEMMA LookKeepsMetricInv ==
  ASSUME MetricInv, NEW th \in Threads, Look(th)
  PROVE  MetricInv'
<1> USE DEF MetricInv
<1>1. /\ UNCHANGED <<singleton, registries, samples, reset, resets, noted>>
      /\ \E at \in {"create", "return"} : threads' = [threads EXCEPT ![th].at = at]
      /\ threads[th].at = "start"
  BY DEF Look
<1>2. PICK at \in {"create", "return"} : threads' = [threads EXCEPT ![th].at = at]
  BY <1>1
<1>3. MetricTypes'
  BY <1>1, <1>2 DEF MetricTypes, ThreadStates
<1>4. ThreadsHold'
  BY <1>1, <1>2 DEF ThreadsHold, HoldsShown, MetricTypes, ThreadStates
<1>5. CountsAccount'
  BY <1>1 DEF CountsAccount, CountAccounts, Snapshot
<1>6. ResetKnows'
  BY <1>1 DEF ResetKnows
<1> QED BY <1>1, <1>3, <1>4, <1>5, <1>6 DEF OneRegistryEach

LEMMA ReturnKeepsMetricInv ==
  ASSUME MetricInv, NEW th \in Threads, ReturnRegistry(th)
  PROVE  MetricInv'
<1> USE DEF MetricInv
<1>1. /\ UNCHANGED <<singleton, registries, samples, reset, resets, noted>>
      /\ threads[th].at = "return"
  BY DEF ReturnRegistry
<1>2. PICK at \in {"failed", "holds"} :
        /\ at = "holds" => singleton # 0
        /\ threads' = [threads EXCEPT ![th].at = at, ![th].registry = singleton]
  BY DEF ReturnRegistry
<1>3. MetricTypes'
  BY <1>1, <1>2 DEF MetricTypes, ThreadStates
<1>4. ThreadsHold'
  BY <1>1, <1>2 DEF ThreadsHold, HoldsShown, MetricTypes, ThreadStates
<1>5. CountsAccount'
  BY <1>1 DEF CountsAccount, CountAccounts, Snapshot
<1>6. ResetKnows'
  BY <1>1 DEF ResetKnows
<1> QED BY <1>1, <1>3, <1>4, <1>5, <1>6 DEF OneRegistryEach

\* A new registry shows nothing yet.
LEMMA CreateKeepsMetricInv ==
  ASSUME MetricInv, NEW th \in Threads, Create(th)
  PROVE  MetricInv'
<1> USE DEF MetricInv
<1>1. /\ registries' = Append(registries, 0) /\ resets' = Append(resets, 0) /\ noted' = Append(noted, 0)
      /\ singleton' = Len(registries')
      /\ threads' = [threads EXCEPT ![th].at = "return"] /\ threads[th].at = "create"
      /\ samples' = samples /\ reset' = reset
  BY DEF Create
<1>2. /\ registries' \in Seq(Nat) /\ resets' \in Seq(Nat) /\ noted' \in Seq(Nat)
      /\ Len(registries) \in Nat
      /\ Len(registries') = Len(registries) + 1 /\ Len(resets') = Len(registries') /\ Len(noted') = Len(registries')
      /\ DOMAIN registries = 1 .. Len(registries) /\ DOMAIN registries' = 1 .. Len(registries) + 1
  <2>1. /\ registries \in Seq(Nat) /\ resets \in Seq(Nat) /\ noted \in Seq(Nat)
        /\ Len(resets) = Len(registries) /\ Len(noted) = Len(registries)
    BY DEF MetricTypes
  <2>2. \A q \in Seq(Nat) : Append(q, 0) \in Seq(Nat) /\ Len(Append(q, 0)) = Len(q) + 1 /\ Len(q) \in Nat
    OBVIOUS
  <2> QED BY <1>1, <2>1, <2>2
<1>3. \A r \in DOMAIN registries' :
        IF r = Len(registries) + 1 THEN registries'[r] = 0 /\ resets'[r] = 0 /\ noted'[r] = 0
        ELSE /\ r \in DOMAIN registries
             /\ registries'[r] = registries[r] /\ resets'[r] = resets[r] /\ noted'[r] = noted[r]
  BY <1>1, <1>2 DEF MetricTypes
<1>4. MetricTypes'
  <2>1. \A r \in DOMAIN registries' : registries'[r] =< Len(samples')
    BY <1>1, <1>2, <1>3 DEF MetricTypes
  <2>2. threads' \in [Threads -> ThreadStates(Len(registries'), Len(samples'))]
    <3>1. Len(samples) \in Nat
      BY DEF MetricTypes
    <3>2. ThreadStates(Len(registries), Len(samples)) \subseteq ThreadStates(Len(registries'), Len(samples'))
      BY <1>1, <1>2, <3>1 DEF ThreadStates
    <3>3. threads \in [Threads -> ThreadStates(Len(registries'), Len(samples'))]
      BY <3>2 DEF MetricTypes
    <3>4. [threads[th] EXCEPT !.at = "return"] \in ThreadStates(Len(registries'), Len(samples'))
      BY <3>3 DEF ThreadStates
    <3> QED BY <1>1, <3>3, <3>4
  <2> QED BY <1>1, <1>2, <2>1, <2>2 DEF MetricTypes
<1>5. OneRegistryEach'
  BY <1>2, <1>3 DEF OneRegistryEach
<1>6. ThreadsHold'
  <2> SUFFICES ASSUME NEW other \in Threads
               PROVE  /\ threads'[other].at = "holds" => threads'[other].registry # 0
                      /\ threads'[other].metric # 0 => HoldsShown(threads'[other], registries', resets')
    BY DEF ThreadsHold
  <2>1. CASE other = th
    BY <1>1, <2>1 DEF ThreadsHold, HoldsShown, MetricTypes
  <2>2. CASE other # th
    <3>1. threads'[other] = threads[other]
      BY <1>1, <2>2 DEF MetricTypes
    <3>2. threads[other].registry \in 0 .. Len(registries)
      BY ThreadFacts
    <3>3. threads[other].at = "holds" => threads[other].registry # 0
      BY DEF ThreadsHold
    <3>4. ASSUME threads[other].metric # 0 PROVE HoldsShown(threads[other], registries', resets')
      <4>1. HoldsShown(threads[other], registries, resets)
        BY <3>4 DEF ThreadsHold
      <4>2. threads[other].registry \in DOMAIN registries
        BY <1>2, <3>2, <3>3, <4>1 DEF HoldsShown
      <4>3. threads[other].at = "holds" /\ threads[other].since =< resets'[threads[other].registry]
        <5>1. threads[other].registry \in DOMAIN registries' /\ threads[other].registry # Len(registries) + 1
          <6>1. \A n \in Nat : \A k \in 1 .. n : k \in 1 .. n + 1 /\ k # n + 1
            OBVIOUS
          <6>2. Len(registries) \in Nat /\ threads[other].registry \in 1 .. Len(registries)
            BY <1>2, <4>2, Zenon
          <6>3. /\ threads[other].registry \in 1 .. Len(registries) + 1
                /\ threads[other].registry # Len(registries) + 1
            BY <6>1, <6>2, Zenon
          <6> QED BY <1>2, <6>3, Zenon
        <5>2. resets'[threads[other].registry] = resets[threads[other].registry]
          BY <1>3, <5>1
        <5>3. threads[other].at = "holds" /\ threads[other].since =< resets[threads[other].registry]
          BY <4>1 DEF HoldsShown
        <5> QED BY <5>2, <5>3
      <4>4. ASSUME NEW r \in DOMAIN registries'
            PROVE  registries'[r] = threads[other].metric <=>
                     r = threads[other].registry /\ threads[other].since = resets'[r]
        <5>1. CASE r = Len(registries) + 1
          <6>1. registries'[r] = 0
            BY <1>3, <5>1
          <6>2. r # threads[other].registry
            BY <1>2, <4>2, <5>1
          <6> QED BY <3>4, <6>1, <6>2
        <5>2. CASE r # Len(registries) + 1
          BY <1>3, <4>1, <5>2 DEF HoldsShown
        <5> QED BY <5>1, <5>2
      <4> QED BY <4>3, <4>4 DEF HoldsShown
    <3> QED BY <3>1, <3>3, <3>4
  <2> QED BY <2>1, <2>2
<1>7. CountsAccount'
  BY <1>1, <1>2, <1>3, CountsAreShown DEF Shown
<1>8. ResetKnows'
  BY <1>1, <1>2 DEF ResetKnows
<1> QED BY <1>4, <1>5, <1>6, <1>7, <1>8

\* A metric object that is made shows in one registry only.
LEMMA HistogramKeepsMetricInv ==
  ASSUME MetricInv, NEW th \in Threads, Histogram(th)
  PROVE  MetricInv'
<1> USE DEF MetricInv
<1> DEFINE r == threads[th].registry
<1>1. /\ threads[th].at = "holds"
      /\ threads' = [threads EXCEPT ![th].metric = registries'[r], ![th].since = resets[r]]
      /\ singleton' = singleton /\ reset' = reset /\ resets' = resets /\ noted' = noted
  BY DEF Histogram
<1>2. r \in DOMAIN registries /\ r \in DOMAIN resets /\ resets[r] \in Nat
  <2>1. r # 0 /\ r \in 0 .. Len(registries) /\ Len(registries) \in Nat
    BY <1>1, ThreadFacts DEF ThreadsHold
  <2>2. DOMAIN registries = 1 .. Len(registries) /\ DOMAIN resets = DOMAIN registries
        /\ \A q \in DOMAIN registries : resets[q] \in Nat
    BY ThreadFacts
  <2> HIDE DEF r
  <2> QED BY <2>1, <2>2
<1>3. /\ Len(samples) \in Nat /\ Len(registries) \in Nat
      /\ DOMAIN registries = 1 .. Len(registries) /\ DOMAIN samples = 1 .. Len(samples)
      /\ registries \in Seq(Nat) /\ samples \in Seq(Seq(Samples))
  BY ThreadFacts DEF MetricTypes
<1> HIDE DEF r
<1>4. /\ registries' \in Seq(Nat) /\ Len(registries') = Len(registries) /\ DOMAIN registries' = DOMAIN registries
      /\ registries'[r] \in 1 .. Len(samples')
      /\ \A q \in DOMAIN registries : q # r => registries'[q] = registries[q] /\ registries[q] # registries'[r]
      /\ samples' \in Seq(Seq(Samples)) /\ Len(samples') \in Nat /\ Len(samples) =< Len(samples')
      /\ \A m \in DOMAIN samples : samples'[m] = samples[m]
      /\ registries[r] # 0 => registries'[r] = registries[r]
      /\ registries[r] = 0 => Len(samples'[registries'[r]]) = 0 /\ registries'[r] = Len(samples) + 1
  <2>1. CASE registries[r] = 0
    <3>1. samples' = Append(samples, <<>>) /\ registries' = [registries EXCEPT ![r] = Len(samples')]
      BY <2>1 DEF Histogram, IsAbsent, r
    <3>2. /\ samples' \in Seq(Seq(Samples)) /\ Len(samples') = Len(samples) + 1
          /\ \A m \in DOMAIN samples : samples'[m] = samples[m]
          /\ samples'[Len(samples) + 1] = <<>>
      BY <1>3, <3>1
    <3>3. \A q \in DOMAIN registries : registries[q] =< Len(samples)
      BY DEF MetricTypes
    <3>4. /\ registries' \in Seq(Nat) /\ Len(registries') = Len(registries) /\ DOMAIN registries' = DOMAIN registries
          /\ registries'[r] = Len(samples) + 1
          /\ \A q \in DOMAIN registries : q # r => registries'[q] = registries[q]
      BY <1>2, <1>3, <3>1, <3>2
    <3>5. \A q \in DOMAIN registries : registries[q] # registries'[r]
      BY <1>3, <3>3, <3>4
    <3>6. Len(samples'[registries'[r]]) = 0
      BY <3>2, <3>4
    <3> QED BY <1>3, <2>1, <3>2, <3>4, <3>5, <3>6
  <2>2. CASE registries[r] # 0
    <3>1. samples' = samples /\ registries' = registries
      BY <2>2 DEF Histogram, IsAbsent, r
    <3>2. registries[r] \in 0 .. Len(samples)
      BY <1>2, ThreadFacts
    <3>3. \A q \in DOMAIN registries : q # r => registries[q] # registries[r]
      BY <1>2, <2>2 DEF OneRegistryEach
    <3> QED BY <1>3, <2>2, <3>1, <3>2, <3>3
  <2> QED BY <2>1, <2>2
<1>5. MetricTypes'
  <2>1. \A q \in DOMAIN registries' : registries'[q] =< Len(samples')
    <3>1. \A q \in DOMAIN registries : registries[q] \in 0 .. Len(samples)
      BY ThreadFacts
    <3>2. ASSUME NEW q \in DOMAIN registries PROVE registries'[q] =< Len(samples')
      <4>1. CASE q = r
        BY <1>4, <4>1
      <4>2. CASE q # r
        <5>1. registries'[q] = registries[q] /\ registries[q] \in 0 .. Len(samples)
          BY <1>4, <3>1, <4>2
        <5>2. Len(samples) =< Len(samples') /\ Len(samples') \in Nat
          BY <1>4
        <5> QED BY <1>3, <5>1, <5>2
      <4> QED BY <4>1, <4>2
    <3> QED BY <1>4, <3>2
  <2>2. threads' \in [Threads -> ThreadStates(Len(registries'), Len(samples'))]
    <3>1. ThreadStates(Len(registries), Len(samples)) \subseteq ThreadStates(Len(registries'), Len(samples'))
      BY <1>3, <1>4 DEF ThreadStates
    <3>2. threads \in [Threads -> ThreadStates(Len(registries'), Len(samples'))]
      BY <3>1 DEF MetricTypes
    <3>3. [threads[th] EXCEPT !.metric = registries'[r], !.since = resets[r]] \in ThreadStates(Len(registries'), Len(samples'))
      <4>1. threads[th] \in ThreadStates(Len(registries'), Len(samples')) /\ registries'[r] \in 0 .. Len(samples')
        BY <1>4, <3>2
      <4> QED BY <1>2, <4>1 DEF ThreadStates
    <3> QED BY <1>1, <3>2, <3>3
  <2> QED BY <1>1, <1>4, <2>1, <2>2 DEF MetricTypes
<1>6. OneRegistryEach'
  BY <1>4 DEF OneRegistryEach
<1>7. ThreadsHold'
  <2> SUFFICES ASSUME NEW other \in Threads
               PROVE  /\ threads'[other].at = "holds" => threads'[other].registry # 0
                      /\ threads'[other].metric # 0 => HoldsShown(threads'[other], registries', resets')
    BY DEF ThreadsHold
  <2>1. CASE other = th
    <3>1. /\ threads'[th].at = "holds" /\ threads'[th].registry = r
          /\ threads'[th].metric = registries'[r] /\ threads'[th].since = resets[r]
      BY <1>1 DEF MetricTypes, ThreadStates, r
    <3>2. r # 0
      BY <1>2, <1>3
    <3>3. HoldsShown(threads'[th], registries', resets')
      <4>1. \A q \in DOMAIN registries' : q # r => registries'[q] # registries'[r]
        BY <1>4
      <4>2. resets'[r] = resets[r] /\ resets[r] =< resets[r]
        BY <1>1, <1>2
      <4>3. ASSUME NEW q \in DOMAIN registries'
            PROVE  registries'[q] = registries'[r] <=> q = r /\ resets[r] = resets'[q]
        BY <4>1, <4>2
      <4> QED BY <3>1, <4>2, <4>3 DEF HoldsShown
    <3> QED BY <2>1, <3>1, <3>2, <3>3
  <2>2. CASE other # th
    <3>1. threads'[other] = threads[other]
      BY <1>1, <2>2 DEF MetricTypes
    <3>2. ASSUME threads[other].metric # 0 PROVE HoldsShown(threads[other], registries', resets')
      <4>1. HoldsShown(threads[other], registries, resets)
        BY <3>2 DEF ThreadsHold
      <4>2. threads[other].registry \in DOMAIN registries /\ threads[other].metric =< Len(samples)
        BY <1>3, <4>1, ThreadFacts DEF ThreadsHold, HoldsShown
      <4>3. ASSUME NEW q \in DOMAIN registries'
            PROVE  registries'[q] = threads[other].metric <=>
                     q = threads[other].registry /\ threads[other].since = resets[q]
        <5>1. q \in DOMAIN registries
          BY <1>4
        <5>2. CASE registries'[q] = registries[q]
          BY <4>1, <5>1, <5>2 DEF HoldsShown
        <5>3. CASE registries'[q] # registries[q]
          <6>1. q = r /\ registries[q] = 0 /\ registries'[q] = Len(samples) + 1
            BY <1>4, <5>1, <5>3
          <6>2. threads[other].metric \in Nat
            BY ThreadFacts
          <6>3. registries'[q] # threads[other].metric
            BY <1>3, <4>2, <6>1, <6>2
          <6> QED BY <3>2, <4>1, <5>1, <6>1, <6>3 DEF HoldsShown
        <5> QED BY <5>2, <5>3
      <4> QED BY <1>1, <4>1, <4>3 DEF HoldsShown
    <3> QED BY <3>1, <3>2 DEF ThreadsHold
  <2> QED BY <2>1, <2>2
<1>8. CountsAccount'
  <2>1. \A q \in DOMAIN registries : Shown(registries[q], samples) = noted[q]
    BY CountsAreShown
  <2>2. ASSUME NEW q \in DOMAIN registries'
        PROVE  Shown(registries'[q], samples') = Shown(registries[q], samples)
    <3>1. q \in DOMAIN registries /\ registries[q] \in 0 .. Len(samples)
      BY <1>4, ThreadFacts
    <3>2. CASE registries'[q] = registries[q]
      <4>1. registries[q] # 0 => samples'[registries[q]] = samples[registries[q]]
        BY <1>3, <1>4, <3>1
      <4> QED BY <3>2, <4>1 DEF Shown
    <3>3. CASE registries'[q] # registries[q]
      <4>1. q = r /\ registries[r] = 0
        BY <1>4, <3>1, <3>3
      <4> QED BY <1>4, <4>1 DEF Shown
    <3> QED BY <3>2, <3>3
  <2>3. \A q \in DOMAIN registries' : Shown(registries'[q], samples') = noted'[q]
    BY <1>1, <1>4, <2>1, <2>2
  <2> QED BY <2>3, CountsAreShown
<1>9. ResetKnows'
  BY <1>1, <1>4 DEF ResetKnows
<1> QED BY <1>5, <1>6, <1>7, <1>8, <1>9

\* An observation is counted where the object it went to is shown.
LEMMA ObserveKeepsMetricInv ==
  ASSUME MetricInv, NEW th \in Threads, NEW value \in Samples, Observe(th, value)
  PROVE  MetricInv'
<1> USE DEF MetricInv
<1> DEFINE m == threads[th].metric
           r == threads[th].registry
           counts == threads[th].since = resets[r]
<1>1. /\ m # 0
      /\ samples' = [samples EXCEPT ![m] = Append(samples[m], value)]
      /\ noted' = [noted EXCEPT ![r] = IF counts THEN noted[r] + 1 ELSE noted[r]]
      /\ UNCHANGED <<singleton, registries, threads, reset, resets>>
  BY DEF Observe
<1>2. HoldsShown(threads[th], registries, resets) /\ threads[th].at = "holds" /\ r # 0
  BY <1>1 DEF ThreadsHold, HoldsShown
<1>3. r \in DOMAIN registries /\ m \in DOMAIN samples
  <2>1. /\ r \in 0 .. Len(registries) /\ m \in 0 .. Len(samples)
        /\ DOMAIN registries = 1 .. Len(registries) /\ DOMAIN samples = 1 .. Len(samples)
        /\ Len(registries) \in Nat /\ Len(samples) \in Nat
    BY ThreadFacts
  <2> HIDE DEF m, r
  <2> QED BY <1>1, <1>2, <2>1
<1>4. \A q \in DOMAIN registries : registries[q] = m <=> q = r /\ counts
  BY <1>2, <1>3 DEF HoldsShown
<1> HIDE DEF m, r, counts
<1>5. /\ samples \in Seq(Seq(Samples)) /\ noted \in Seq(Nat) /\ DOMAIN noted = DOMAIN registries
      /\ samples[m] \in Seq(Samples) /\ noted[r] \in Nat
      /\ Append(samples[m], value) \in Seq(Samples)
      /\ Len(Append(samples[m], value)) = Len(samples[m]) + 1
  <2>1. samples \in Seq(Seq(Samples)) /\ noted \in Seq(Nat) /\ DOMAIN noted = DOMAIN registries
    BY ThreadFacts DEF MetricTypes
  <2>2. samples[m] \in Seq(Samples) /\ noted[r] \in Nat
    BY <1>3, <2>1
  <2> QED BY <2>1, <2>2
<1>6. /\ samples' \in Seq(Seq(Samples)) /\ Len(samples') = Len(samples) /\ DOMAIN samples' = DOMAIN samples
      /\ samples'[m] = Append(samples[m], value)
      /\ \A n \in DOMAIN samples : n # m => samples'[n] = samples[n]
  BY <1>1, <1>3, <1>5
<1>7. /\ noted' \in Seq(Nat) /\ Len(noted') = Len(noted)
      /\ \A q \in DOMAIN registries : noted'[q] = IF q = r /\ counts THEN noted[q] + 1 ELSE noted[q]
  BY <1>1, <1>3, <1>5
<1>8. MetricTypes'
  BY <1>1, <1>6, <1>7 DEF MetricTypes
<1>9. OneRegistryEach' /\ ThreadsHold' /\ ResetKnows'
  BY <1>1 DEF OneRegistryEach, ThreadsHold, HoldsShown, ResetKnows
<1>10. CountsAccount'
  <2>1. \A q \in DOMAIN registries : Shown(registries[q], samples) = noted[q]
    BY CountsAreShown
  <2>2. ASSUME NEW q \in DOMAIN registries
        PROVE  Shown(registries[q], samples') = noted'[q]
    <3>1. registries[q] \in 0 .. Len(samples) /\ DOMAIN samples = 1 .. Len(samples) /\ Len(samples) \in Nat
      BY ThreadFacts
    <3>2. CASE registries[q] = m
      <4>1. q = r /\ counts
        BY <1>4, <3>2
      <4>2. noted'[q] = noted[q] + 1
        BY <1>7, <4>1
      <4>3. Len(samples[m]) = noted[q]
        BY <1>1, <2>1, <3>2 DEF Shown
      <4>4. Len(samples'[m]) = Len(samples[m]) + 1
        BY <1>5, <1>6
      <4> QED BY <1>1, <3>2, <4>2, <4>3, <4>4 DEF Shown
    <3>3. CASE registries[q] # m
      <4>1. ~(q = r /\ counts)
        BY <1>4, <3>3
      <4>2. noted'[q] = noted[q]
        BY <1>7, <4>1
      <4>3. registries[q] # 0 => samples'[registries[q]] = samples[registries[q]]
        BY <1>6, <3>1, <3>3
      <4> QED BY <2>1, <4>2, <4>3 DEF Shown
    <3> QED BY <3>2, <3>3
  <2>3. \A q \in DOMAIN registries' : Shown(registries'[q], samples') = noted'[q]
    BY <1>1, <2>2
  <2> QED BY <2>3, CountsAreShown
<1> QED BY <1>8, <1>9, <1>10

\* Clearing a registry takes its object from every thread that holds it.
LEMMA ClearKeepsMetricInv ==
  ASSUME MetricInv, ClearRegistry
  PROVE  MetricInv'
<1> USE DEF MetricInv
<1> DEFINE r == reset.registry
<1>1. /\ reset.at = "clear" /\ reset' = [at |-> "forget", registry |-> 0]
      /\ registries' = [registries EXCEPT ![r] = 0]
      /\ resets' = [resets EXCEPT ![r] = resets[r] + 1]
      /\ noted' = [noted EXCEPT ![r] = 0]
      /\ UNCHANGED <<singleton, samples, threads>>
  BY DEF ClearRegistry
<1>2. /\ registries \in Seq(Nat) /\ resets \in Seq(Nat) /\ noted \in Seq(Nat)
      /\ DOMAIN registries = 1 .. Len(registries)
      /\ DOMAIN resets = DOMAIN registries /\ DOMAIN noted = DOMAIN registries
      /\ Len(resets) = Len(registries) /\ Len(noted) = Len(registries) /\ Len(registries) \in Nat
  BY ThreadFacts DEF MetricTypes
<1>3. r \in DOMAIN registries /\ resets[r] \in Nat
  BY <1>1, <1>2 DEF ResetKnows
<1> HIDE DEF r
<1>4. /\ registries' \in Seq(Nat) /\ Len(registries') = Len(registries) /\ DOMAIN registries' = DOMAIN registries
      /\ \A q \in DOMAIN registries : registries'[q] = IF q = r THEN 0 ELSE registries[q]
  BY <1>1, <1>2, <1>3
<1>5. /\ resets' \in Seq(Nat) /\ Len(resets') = Len(resets)
      /\ \A q \in DOMAIN registries : resets'[q] = IF q = r THEN resets[q] + 1 ELSE resets[q]
  BY <1>1, <1>2, <1>3
<1>6. /\ noted' \in Seq(Nat) /\ Len(noted') = Len(noted)
      /\ \A q \in DOMAIN registries : noted'[q] = IF q = r THEN 0 ELSE noted[q]
  BY <1>1, <1>2, <1>3
<1>7. MetricTypes'
  <2>1. \A q \in DOMAIN registries' : registries'[q] =< Len(samples')
    <3>1. Len(samples) \in Nat
      BY DEF MetricTypes
    <3> QED BY <1>1, <1>4, <3>1 DEF MetricTypes
  <2>2. threads' \in [Threads -> ThreadStates(Len(registries'), Len(samples'))]
    BY <1>1, <1>4 DEF MetricTypes
  <2>3. samples' \in Seq(Seq(Samples)) /\ singleton' \in 0 .. Len(registries')
    BY <1>1, <1>2, <1>4 DEF MetricTypes
  <2> QED BY <1>2, <1>4, <1>5, <1>6, <2>1, <2>2, <2>3 DEF MetricTypes
<1>8. OneRegistryEach'
  BY <1>4 DEF OneRegistryEach
<1>9. ThreadsHold'
  <2> SUFFICES ASSUME NEW other \in Threads, threads[other].metric # 0
               PROVE  HoldsShown(threads[other], registries', resets')
    BY <1>1 DEF ThreadsHold
  <2>1. HoldsShown(threads[other], registries, resets)
    BY DEF ThreadsHold
  <2>2. /\ threads[other].registry \in 0 .. Len(registries) /\ threads[other].since \in Nat
        /\ \A q \in DOMAIN registries : resets[q] \in Nat
    BY ThreadFacts
  <2>3. threads[other].registry \in DOMAIN registries /\ threads[other].since =< resets[threads[other].registry]
    BY <1>2, <2>1, <2>2 DEF HoldsShown, ThreadsHold
  <2>4. threads[other].since =< resets'[threads[other].registry]
    <3> DEFINE j == threads[other].registry
    <3>1. resets'[j] = resets[j] \/ resets'[j] = resets[j] + 1
      BY <1>5, <2>3
    <3>2. resets[j] \in Nat /\ threads[other].since \in Nat /\ threads[other].since =< resets[j]
      BY <2>2, <2>3
    <3> QED BY <3>1, <3>2
  <2>5. ASSUME NEW q \in DOMAIN registries
        PROVE  registries'[q] = threads[other].metric <=>
                 q = threads[other].registry /\ threads[other].since = resets'[q]
    <3>1. CASE q = r
      <4>1. registries'[q] # threads[other].metric
        BY <1>4, <3>1
      <4>2. resets'[q] = resets[q] + 1 /\ resets[q] \in Nat
        BY <1>5, <2>2, <3>1
      <4> QED BY <2>2, <2>3, <4>1, <4>2
    <3>2. CASE q # r
      BY <1>4, <1>5, <2>1, <3>2 DEF HoldsShown
    <3> QED BY <3>1, <3>2
  <2> QED BY <1>4, <2>1, <2>4, <2>5 DEF HoldsShown
<1>10. CountsAccount'
  <2>1. \A q \in DOMAIN registries : Shown(registries[q], samples) = noted[q]
    BY CountsAreShown
  <2>2. \A q \in DOMAIN registries' : Shown(registries'[q], samples') = noted'[q]
    BY <1>1, <1>4, <1>6, <2>1 DEF Shown
  <2> QED BY <2>2, CountsAreShown
<1>11. ResetKnows'
  BY <1>1 DEF ResetKnows
<1> QED BY <1>7, <1>8, <1>9, <1>10, <1>11

\* The other steps of reset_metrics() move the global or nothing.
LEMMA ResetStepsKeepMetricInv ==
  ASSUME MetricInv, LookForReset \/ ReadForReset \/ Forget
  PROVE  MetricInv'
<1> USE DEF MetricInv
<1>1. UNCHANGED <<registries, samples, threads, resets, noted>> /\ singleton' \in {0, singleton}
  BY DEF LookForReset, ReadForReset, Forget
<1>2. MetricTypes' /\ OneRegistryEach' /\ ThreadsHold'
  BY <1>1 DEF MetricTypes, OneRegistryEach, ThreadsHold, HoldsShown
<1>3. CountsAccount'
  BY <1>1, CountsAreShown
<1>4. ResetKnows'
  <2>1. singleton \in 0 .. Len(registries) /\ Len(registries) \in Nat /\ DOMAIN registries = 1 .. Len(registries)
    BY DEF MetricTypes
  <2>2. CASE LookForReset
    BY <2>2 DEF LookForReset, ResetKnows
  <2>3. CASE ReadForReset
    BY <2>1, <2>3 DEF ReadForReset, ResetKnows
  <2>4. CASE Forget
    BY <2>4 DEF Forget, NoReset, ResetKnows
  <2> QED BY <2>2, <2>3, <2>4
<1> QED BY <1>2, <1>3, <1>4

LEMMA MetricsKeepMetricInv ==
  ASSUME MetricInv, MetricsNext
  PROVE  MetricInv'
<1>1. CASE LookForReset \/ ReadForReset \/ ClearRegistry \/ Forget
  BY <1>1, ClearKeepsMetricInv, ResetStepsKeepMetricInv
<1>2. CASE \E th \in Threads : \/ Look(th) \/ Create(th) \/ ReturnRegistry(th) \/ Histogram(th)
                               \/ \E v \in Samples : Observe(th, v)
  BY <1>2, LookKeepsMetricInv, CreateKeepsMetricInv, ReturnKeepsMetricInv, HistogramKeepsMetricInv,
     ObserveKeepsMetricInv
<1> QED BY <1>1, <1>2 DEF MetricsNext

LEMMA MetricsInitSatisfiesMetricInv == MetricsInit => MetricInv
<1> SUFFICES ASSUME MetricsInit PROVE MetricInv
  OBVIOUS
<1>1. /\ singleton = 0 /\ registries = <<>> /\ samples = <<>> /\ resets = <<>> /\ noted = <<>>
      /\ threads = [th \in Threads |-> [at |-> "start", registry |-> 0, metric |-> 0, since |-> 0]]
      /\ reset = [at |-> "start", registry |-> 0]
  BY DEF MetricsInit, NoReset
<1>2. Len(<<>>) = 0 /\ DOMAIN registries = {}
  BY <1>1
<1>3. MetricTypes
  <2>1. threads \in [Threads -> ThreadStates(0, 0)]
    BY <1>1 DEF ThreadStates
  <2> QED BY <1>1, <1>2, <2>1 DEF MetricTypes
<1>4. ThreadsHold
  BY <1>1 DEF ThreadsHold
<1>5. ResetKnows
  BY <1>1 DEF ResetKnows
<1> QED BY <1>2, <1>3, <1>4, <1>5 DEF MetricInv, OneRegistryEach, CountsAccount

(* Every place of the sorted samples is taken by one of them.              *)
LEMMA PlacesTaken ==
  ASSUME NEW s \in Seq(Int), NEW k \in 1 .. Len(s)
  PROVE  \E i \in DOMAIN s : Place(s, i) = k
<1> DEFINE n == Len(s)
           UpTo(i) == {j \in DOMAIN s : s[j] < s[i] \/ (s[j] = s[i] /\ j =< i)}
           places == [i \in 1 .. n |-> Place(s, i)]
<1>1. n \in Nat /\ DOMAIN s = 1 .. n /\ \A i \in 1 .. n : s[i] \in Int
  OBVIOUS
<1>2. IsFiniteSet(1 .. n) /\ Cardinality(1 .. n) = n
  <2> HIDE DEF n
  <2>1. IsFiniteSet(1 .. n) /\ Cardinality(1 .. n) = IF 1 > n THEN 0 ELSE n - 1 + 1
    BY <1>1, FS_Interval
  <2> QED BY <1>1, <2>1
<1>3. \A i \in 1 .. n : UpTo(i) \subseteq 1 .. n /\ i \in UpTo(i) /\ Place(s, i) = Cardinality(UpTo(i))
  BY <1>1 DEF Place
<1>4. ASSUME NEW i \in 1 .. n, NEW j \in 1 .. n, s[i] < s[j] \/ (s[i] = s[j] /\ i < j)
      PROVE  UpTo(i) \subseteq UpTo(j) /\ j \notin UpTo(i)
  <2>1. i \in Int /\ j \in Int /\ s[i] \in Int /\ s[j] \in Int
    BY <1>1
  <2>2. ASSUME NEW m \in UpTo(i) PROVE m \in UpTo(j)
    BY <1>1, <1>4, <2>1, <2>2
  <2>3. j \notin UpTo(i)
    BY <1>1, <1>4, <2>1
  <2> QED BY <2>2, <2>3
<1> HIDE DEF UpTo, n
<1>5. \A i \in 1 .. n : IsFiniteSet(UpTo(i)) /\ Place(s, i) \in 1 .. n
  <2> SUFFICES ASSUME NEW i \in 1 .. n PROVE IsFiniteSet(UpTo(i)) /\ Place(s, i) \in 1 .. n
    OBVIOUS
  <2>1. IsFiniteSet(UpTo(i)) /\ Cardinality(UpTo(i)) =< n
    BY <1>2, <1>3, FS_Subset
  <2>2. Cardinality(UpTo(i)) \in Nat /\ Cardinality(UpTo(i)) # 0
    BY <1>3, <2>1, FS_CardinalityType, FS_EmptySet
  <2> QED BY <1>1, <1>3, <2>1, <2>2
<1>6. ASSUME NEW i \in 1 .. n, NEW j \in 1 .. n, s[i] < s[j] \/ (s[i] = s[j] /\ i < j)
      PROVE  Place(s, i) # Place(s, j)
  <2>1. UpTo(i) \subseteq UpTo(j) /\ UpTo(i) # UpTo(j)
    BY <1>3, <1>4, <1>6
  <2> QED BY <1>3, <1>5, <2>1, FS_Subset
<1>7. ASSUME NEW i \in 1 .. n, NEW j \in 1 .. n, Place(s, i) = Place(s, j)
      PROVE  i = j
  <2>1. s[i] \in Int /\ s[j] \in Int /\ i \in Int /\ j \in Int
    BY <1>1
  <2>2. ~(s[i] < s[j]) /\ ~(s[j] < s[i]) /\ ~(s[i] = s[j] /\ i < j) /\ ~(s[j] = s[i] /\ j < i)
    BY <1>6, <1>7
  <2> QED BY <2>1, <2>2
<1>8. places \in Injection(1 .. n, 1 .. n)
  <2>1. places \in [1 .. n -> 1 .. n]
    BY <1>5
  <2>2. \A i, j \in 1 .. n : places[i] = places[j] => i = j
    BY <1>7
  <2> HIDE DEF places
  <2> QED BY <2>1, <2>2 DEF Injection, IsInjective
<1>9. places \in Surjection(1 .. n, 1 .. n)
  <2> HIDE DEF places
  <2> QED BY <1>2, <1>8, FS_Injection
<1>10. \E i \in 1 .. n : places[i] = k
  <2> HIDE DEF places
  <2> QED BY <1>9 DEF Surjection, n
<1> QED BY <1>1, <1>10

(* A percentile divides the samples.                                       *)
LEMMA PercentileDivides ==
  ASSUME NEW s \in Seq(Int), s # <<>>, NEW p \in {50, 95, 99}
  PROVE  /\ 100 * Cardinality({i \in DOMAIN s : s[i] =< Percentile(p, s)}) >= p * Len(s)
         /\ 100 * Cardinality({i \in DOMAIN s : s[i] < Percentile(p, s)}) =< p * Len(s)
<1> DEFINE n == Len(s)
           share == (p * n) \div 100
           index == IF share < n THEN share ELSE n - 1
           i == CHOOSE j \in DOMAIN s : Place(s, j) = index + 1
           UpTo == {j \in DOMAIN s : s[j] < s[i] \/ (s[j] = s[i] /\ j =< i)}
           most == {j \in DOMAIN s : s[j] =< s[i]}
           below == {j \in DOMAIN s : s[j] < s[i]}
<1>1. n \in Nat /\ n >= 1 /\ DOMAIN s = 1 .. n /\ \A j \in 1 .. n : s[j] \in Int
  OBVIOUS
<1>2. share \in Nat /\ 100 * share =< p * n /\ p * n < 100 * (share + 1)
  BY <1>1
<1>3. index \in 0 .. n - 1 /\ 100 * index =< p * n /\ p * n =< 100 * (index + 1)
  <2> HIDE DEF n, share
  <2>1. CASE share < n
    BY <1>1, <1>2, <2>1
  <2>2. CASE ~(share < n)
    <3>1. index = n - 1 /\ index =< share
      BY <1>1, <1>2, <2>2
    <3>2. p * n =< 100 * n
      BY <1>1
    <3> QED BY <1>1, <1>2, <3>1, <3>2
  <2> QED BY <2>1, <2>2
<1> HIDE DEF index, share
<1>4. i \in 1 .. n /\ Place(s, i) = index + 1
  <2>1. index + 1 \in 1 .. Len(s)
    BY <1>1, <1>3
  <2>2. \E j \in DOMAIN s : Place(s, j) = index + 1
    BY <2>1, PlacesTaken
  <2> QED BY <1>1, <2>2
<1>5. Percentile(p, s) = s[i]
  BY DEF Percentile, index, share
<1>6. Cardinality(UpTo) = index + 1
  BY <1>4 DEF Place
<1> HIDE DEF i
<1>7. /\ UpTo \subseteq most /\ below \subseteq UpTo /\ i \in UpTo /\ i \notin below
      /\ most \subseteq 1 .. n /\ UpTo \subseteq 1 .. n
  <2>1. s[i] \in Int /\ i \in Int
    BY <1>1, <1>4
  <2> QED BY <1>1, <1>4, <2>1
<1>8. IsFiniteSet(1 .. n)
  BY <1>1, FS_Interval
<1> HIDE DEF UpTo, most, below, n
<1>9. /\ IsFiniteSet(UpTo) /\ IsFiniteSet(most) /\ IsFiniteSet(below)
      /\ Cardinality(UpTo) =< Cardinality(most) /\ Cardinality(below) =< Cardinality(UpTo)
      /\ Cardinality(below) # Cardinality(UpTo)
  <2>1. IsFiniteSet(UpTo) /\ IsFiniteSet(most)
    BY <1>7, <1>8, FS_Subset
  <2>2. below # UpTo
    BY <1>7
  <2> QED BY <1>7, <2>1, <2>2, FS_Subset
<1>10. Cardinality(most) \in Nat /\ Cardinality(below) \in Nat
  BY <1>9, FS_CardinalityType
<1>11. 100 * Cardinality(most) >= p * n /\ 100 * Cardinality(below) =< p * n
  <2>1. Cardinality(most) >= index + 1 /\ Cardinality(below) =< index
    BY <1>3, <1>6, <1>9, <1>10
  <2>2. p * n \in Nat
    BY <1>1
  <2> QED BY <1>3, <1>10, <2>1, <2>2
<1> QED BY <1>5, <1>11 DEF most, below, n

-------------------------------------------------------------------------------
(* The theorems *)

LEMMA InitSatisfiesIInv == Init => IInv
<1> SUFFICES ASSUME Init PROVE IInv
  OBVIOUS
<1>1. TtlInv
  BY DEF Init, TtlInit, NoEntry, TtlInv, TimesAreNumbers, OutlivedHasKeys, ExpiredStaysGone
<1> QED BY <1>1, ToolInitSatisfiesToolInv, MetricsInitSatisfiesMetricInv DEF Init, IInv

\* A step of one service leaves the variables of the others alone.
LEMMA OthersUndisturbed ==
  /\ TtlInv /\ UNCHANGED stateVars => TtlInv'
  /\ ToolInv /\ UNCHANGED toolVars => ToolInv'
  /\ MetricInv /\ UNCHANGED metricVars => MetricInv'
<1>1. TtlInv /\ UNCHANGED stateVars => TtlInv'
  BY DEF TtlInv, TimesAreNumbers, OutlivedHasKeys, ExpiredStaysGone, Expired, stateVars, history
<1>2. ToolInv /\ UNCHANGED toolVars => ToolInv'
  BY DEF ToolInv, ToolTypes, WithinBudget, InHand, Bucket, Budget, toolVars
<1>3. MetricInv /\ UNCHANGED metricVars => MetricInv'
  <2> SUFFICES ASSUME MetricInv, UNCHANGED metricVars PROVE MetricInv'
    OBVIOUS
  <2>1. MetricTypes' /\ OneRegistryEach' /\ ThreadsHold' /\ ResetKnows'
    BY DEF MetricInv, MetricTypes, OneRegistryEach, ThreadsHold, HoldsShown, ResetKnows, metricVars
  <2>2. CountsAccount'
    BY CountsAreShown DEF MetricInv, metricVars
  <2> QED BY <2>1, <2>2 DEF MetricInv
<1> QED BY <1>1, <1>2, <1>3

LEMMA NextKeepsIInv == IInv /\ [Next]_vars => IInv'
<1> SUFFICES ASSUME IInv, [Next]_vars PROVE IInv'
  OBVIOUS
<1>1. TtlInv /\ ToolInv /\ MetricInv
  BY DEF IInv
<1>2. CASE StateStep
  BY <1>1, <1>2, TtlKeepsTimes, TtlKeepsGone, OthersUndisturbed DEF StateStep, TtlInv, IInv, toolVars, metricVars
<1>3. CASE ToolStep
  BY <1>1, <1>3, ToolsKeepToolInv, OthersUndisturbed DEF ToolStep, IInv, stateVars, metricVars
<1>4. CASE MetricsStep
  BY <1>1, <1>4, MetricsKeepMetricInv, OthersUndisturbed DEF MetricsStep, IInv, stateVars, toolVars
<1>5. CASE UNCHANGED vars
  BY <1>1, <1>5, OthersUndisturbed DEF vars, IInv
<1> QED BY <1>2, <1>3, <1>4, <1>5 DEF Next

(* IInv holds of every reachable state.                                    *)
THEOREM Safety == Spec => []IInv
<1> QED BY InitSatisfiesIInv, NextKeepsIInv, PTL DEF Spec

(* RateLimiter.acquire(): whatever tools are registered, replaced and      *)
(* invoked at whatever rates, the tokens a tool was given in any window of *)
(* up to a minute are within the largest rate and its burst.               *)
THEOREM RatesAreHonoured == Spec => []RateHonoured
<1> QED BY Safety, BudgetHonoured, PTL DEF IInv

(* TTLStore: data that was there when the deadline of its key passed is    *)
(* out of sight for as long as it is there, unless set() or expire() gave  *)
(* the key another deadline, or none: every step that lifts the expiry     *)
(* otherwise takes the data away.                                          *)
THEOREM ExpiredKeysAreGone == Spec => []ExpiredStaysGone
<1> QED BY Safety, PTL DEF IInv, TtlInv

(* MetricsRegistry and Histogram: a snapshot accounts for the observations *)
(* since its registry was cleared, and each percentile divides them.       *)
THEOREM SnapshotsAccount == Spec => []SnapshotAccounts
<1>1. ASSUME MetricInv, NEW r \in DOMAIN registries PROVE PercentilesDivide(r)
  <2> DEFINE s == samples[registries[r]]
  <2>1. CASE registries[r] = 0
    <3>1. Snapshot(r).count = 0
      BY <2>1 DEF Snapshot
    <3> QED BY <3>1 DEF PercentilesDivide
  <2>2. CASE registries[r] # 0
    <3>1. s \in Seq(Int)
      <4>1. registries[r] \in DOMAIN samples /\ samples \in Seq(Seq(Samples))
        BY <1>1, <2>2 DEF MetricInv, MetricTypes
      <4>2. s \in Seq(Samples)
        BY <4>1
      <4>3. \A x \in Samples : x \in Int
        BY MetricsAssumption
      <4>4. Len(s) \in Nat /\ s \in [1 .. Len(s) -> Samples]
        BY <4>2
      <4> HIDE DEF s
      <4>5. s \in [1 .. Len(s) -> Int]
        BY <4>3, <4>4
      <4> QED BY <4>4, <4>5
    <3>2. /\ Snapshot(r).count = Len(s) /\ DOMAIN Snapshot(r).pct = {50, 95, 99}
          /\ s # <<>> => \A p \in {50, 95, 99} : Snapshot(r).pct[p] = Percentile(p, s)
      BY <2>2 DEF Snapshot
    <3> HIDE DEF s
    <3>3. Snapshot(r).count > 0 => s # <<>>
      BY <3>1, <3>2
    <3>4. Snapshot(r).count > 0 => \A p \in DOMAIN Snapshot(r).pct :
            /\ 100 * Cardinality({i \in DOMAIN s : s[i] =< Snapshot(r).pct[p]}) >= p * Snapshot(r).count
            /\ 100 * Cardinality({i \in DOMAIN s : s[i] < Snapshot(r).pct[p]}) =< p * Snapshot(r).count
      <4> SUFFICES ASSUME Snapshot(r).count > 0, NEW p \in {50, 95, 99}
                   PROVE  /\ 100 * Cardinality({i \in DOMAIN s : s[i] =< Snapshot(r).pct[p]}) >= p * Snapshot(r).count
                          /\ 100 * Cardinality({i \in DOMAIN s : s[i] < Snapshot(r).pct[p]}) =< p * Snapshot(r).count
        BY <3>2
      <4>1. s # <<>> /\ Snapshot(r).count = Len(s) /\ Snapshot(r).pct[p] = Percentile(p, s)
        BY <3>2, <3>3
      <4>2. /\ 100 * Cardinality({i \in DOMAIN s : s[i] =< Percentile(p, s)}) >= p * Len(s)
            /\ 100 * Cardinality({i \in DOMAIN s : s[i] < Percentile(p, s)}) =< p * Len(s)
        BY <3>1, <4>1, PercentileDivides
      <4> QED BY <4>1, <4>2
    <3> QED BY <3>4 DEF PercentilesDivide, s
  <2> QED BY <2>1, <2>2
<1>2. MetricInv => SnapshotAccounts
  BY <1>1 DEF MetricInv, CountsAccount, SnapshotAccounts
<1> QED BY <1>2, Safety, PTL DEF IInv
=============================================================================
