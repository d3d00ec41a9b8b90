------------------------------- MODULE TtlStore -------------------------------
(***************************************************************************)
(* InMemoryStateStore of intelliqx_state/store.py: strings, hashes and     *)
(* lists with one deadline per key.  Every method holds the asyncio lock   *)
(* from end to end, so each is one action.  A string is a number or Text,  *)
(* which incr() cannot parse.                                              *)
(***************************************************************************)
EXTENDS Integers, Sequences, FiniteSets, SequencesExt, Functions, Tables

CONSTANTS Keys, Fields, Values,  \* hash fields; what hashes and lists hold
          TTLs, Text,
          MaxNumber, MaxList,    \* bounds: numbers, list lengths
          MaxNow                 \* bound: the clock

ASSUME TtlAssumption == TTLs \subseteq Int

VARIABLES kv, expiry, hashes, lists, now,
          outlived,  \* history: <<key, table>> of data that was there when the deadline passed
          revived    \* history: keys that got another deadline, or none, after theirs had passed
history == <<outlived, revived>>
stateVars == <<kv, expiry, hashes, lists, now, history>>

NoEntry == [k \in {} |-> k]
TtlInit ==
  /\ kv = NoEntry /\ expiry = NoEntry /\ hashes = NoEntry /\ lists = NoEntry /\ now = 0
  /\ outlived = {} /\ revived = {}

Expired(k) == k \in DOMAIN expiry /\ expiry[k] =< now
Held ==
  {<<k, "string">> : k \in DOMAIN kv} \cup {<<k, "hash">> : k \in DOMAIN hashes} \cup {<<k, "list">> : k \in DOMAIN lists}

(* The history of a step in which time passes or a deadline is set, and of *)
(* one that removes data, of what is written anew and of whole keys.       *)
DeadlinesMove(written) ==
  LET late == {k \in Keys : ~Expired(k) /\ Expired(k)'}
  IN  /\ outlived' = (outlived \ written) \cup {d \in Held' : d[1] \in late}
      /\ revived' = (revived \ late) \cup {k \in Keys : Expired(k) /\ ~Expired(k)'}
DataLeave(written, keys) ==
  /\ outlived' = (outlived \ written) \cap Held'
  /\ revived' = revived \ keys
Without(f, k) == Restrict(f, DOMAIN f \ {k})
(* purge_expired() drops everything under a key whose deadline has passed. *)
Purged(f, k) == IF Expired(k) THEN Without(f, k) ELSE f

(* get, hgetall, hkeys and, before it writes, hset purge.                  *)
PurgedKeys(k) == {j \in {k} : Expired(j)}
ReadKeyPurgingString(k) ==
  /\ kv' = Purged(kv, k) /\ expiry' = Purged(expiry, k) /\ UNCHANGED <<hashes, lists, now>>
  /\ DataLeave({}, PurgedKeys(k))
ReadKey(k) ==
  /\ kv' = Purged(kv, k) /\ expiry' = Purged(expiry, k)
  /\ hashes' = Purged(hashes, k) /\ lists' = Purged(lists, k)
  /\ DataLeave({}, PurgedKeys(k))
  /\ UNCHANGED now

HSet(k, field, value) ==
  /\ LET kept == Purged(hashes, k)
     IN  hashes' = With(kept, k, With(IF k \in DOMAIN kept THEN kept[k] ELSE NoEntry, field, value))
  /\ kv' = Purged(kv, k) /\ expiry' = Purged(expiry, k) /\ lists' = Purged(lists, k)
  /\ DataLeave(PurgedKeys(k) \X {"hash"}, PurgedKeys(k))
  /\ UNCHANGED now

(* set() replaces the string and the deadline, or drops the deadline; a    *)
(* hash or a list under the key stays, expired or not.                     *)
SetKey(k, value) ==
  /\ kv' = With(kv, k, value)
  /\ \/ \E ttl \in TTLs : expiry' = With(expiry, k, now + ttl)
     \/ expiry' = Without(expiry, k)
  /\ UNCHANGED <<hashes, lists, now>>
  /\ DeadlinesMove({<<k, "string">>})

Expire(k, ttl) ==
  /\ expiry' = With(expiry, k, now + ttl)
  /\ UNCHANGED <<kv, hashes, lists, now>>
  /\ DeadlinesMove({})

(* incr, lpush and rpop go on from what is there, expired or not; incr     *)
(* raises on a string that is no number.                                   *)
Incr(k) ==
  /\ k \in DOMAIN kv => kv[k] # Text /\ kv[k] < MaxNumber
  /\ kv' = With(kv, k, IF k \in DOMAIN kv THEN kv[k] + 1 ELSE 1)
  /\ UNCHANGED <<expiry, hashes, lists, now, history>>

ListAt(k) == IF k \in DOMAIN lists THEN lists[k] ELSE <<>>
LPush(k, value) ==
  /\ Len(ListAt(k)) < MaxList
  /\ lists' = With(lists, k, <<value>> \o ListAt(k))
  /\ UNCHANGED <<kv, expiry, hashes, now, history>>
RPop(k) ==
  /\ ListAt(k) # <<>>
  /\ lists' = [lists EXCEPT ![k] = Front(@)]
  /\ UNCHANGED <<kv, expiry, hashes, now, history>>

Delete(k) ==
  /\ kv' = Without(kv, k) /\ expiry' = Without(expiry, k)
  /\ hashes' = Without(hashes, k) /\ lists' = Without(lists, k)
  /\ DataLeave({}, {k})
  /\ UNCHANGED now

ResetStore ==
  /\ kv' = NoEntry /\ expiry' = NoEntry /\ hashes' = NoEntry /\ lists' = NoEntry
  /\ DataLeave({}, Keys)
  /\ UNCHANGED now

Elapse ==
  /\ now < MaxNow
  /\ now' = now + 1
  /\ UNCHANGED <<kv, expiry, hashes, lists>>
  /\ DeadlinesMove({})

TtlNext ==
  \/ \E k \in Keys :
       \/ ReadKey(k) \/ Incr(k) \/ RPop(k) \/ Delete(k)
       \/ \E ttl \in TTLs : Expire(k, ttl)
       \/ \E v \in {0, Text} : SetKey(k, v)
       \/ \E v \in Values : LPush(k, v) \/ \E f \in Fields : HSet(k, f, v)
  \/ ResetStore \/ Elapse
------------------------------------------------------------------------------
(* What was there when the deadline of its key passed stays out of sight:  *)
(* as long as it is there the key is expired, so that get(), hgetall(),    *)
(* hkeys() and hset() find it so, answer that there is nothing and purge   *)
(* it.  The exception is a key revived by set() or expire().  Of the other *)
(* operations, incr() and rpop() ask for no deadline: what they continue   *)
(* or hand out may have outlived it.                                       *)
ExpiredStaysGone == \A d \in outlived : Expired(d[1]) \/ d[1] \in revived
==============================================================================
