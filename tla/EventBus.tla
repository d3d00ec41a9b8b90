------------------------------ MODULE EventBus ------------------------------
(***************************************************************************)
(* InMemoryEventBus of intelliqx_events/bus.py.                             *)
(*                                                                         *)
(* subscribe() makes a fresh EventHandler object every time (it wraps the  *)
(* callable or copies the handler), so a handler is a serial number here,  *)
(* and the list of handlers of a topic, which is only appended to and      *)
(* filtered, is a set of serial numbers read in increasing order.          *)
(*                                                                         *)
(* publish() awaits its handlers one after the other; while one of them    *)
(* runs, the handler itself or any other task may subscribe, unsubscribe,  *)
(* publish or reset the bus.                                               *)
(***************************************************************************)
EXTENDS Integers, FiniteSets, FiniteSetsExt

CONSTANTS
    Topics,
    Dlqs,         \* dead-letter queue names
    NoDlq,        \* a subscription without one
    Calls,        \* publish() calls; each publishes one event
    MaxHandlers,  \* bound on subscribe() calls
    MaxResets     \* bound on reset() calls

ASSUME BusAssumption ==
    /\ MaxHandlers \in Nat /\ MaxResets \in Nat
    /\ Topics # {}
    /\ NoDlq \notin Dlqs

Handler == 1..MaxHandlers
NoHandler == 0

VARIABLES
    subscriptions,     \* per topic, its handlers
    subscription_ids,  \* per subscription number, the handler it stands for
    next_sub_id,
    dlqs,              \* per dead-letter queue, how often each call's event is parked in it
    made,              \* how many handler objects were made
    subs,              \* per handler object: its topic, its dlq, the number it was given
    pub,               \* per publish() call: its progress
    resets             \* how often reset() was called

vars == <<subscriptions, subscription_ids, next_sub_id, dlqs, made, subs, pub, resets>>

NoSub == [topic |-> CHOOSE t \in Topics : TRUE, dlq |-> NoDlq, id |-> 0, epoch |-> 0]

\* A publish() call: the topic, the handler list it copied, the handlers it has been
\* through, those among them that failed and had the event parked (forgotten when reset()
\* empties the queues), and the handler it is in.
Idle == [state |-> "idle", snapshot |-> {}, visited |-> {}, parked |-> {}, in |-> NoHandler]

TypeOK ==
    /\ subscriptions \in [Topics -> SUBSET Handler]
    /\ subscription_ids \in [Handler -> Handler \cup {NoHandler}]
    /\ next_sub_id \in 0..MaxHandlers
    /\ dlqs \in [Dlqs -> [Calls -> Nat]]
    /\ made \in 0..MaxHandlers
    /\ subs \in [Handler -> [topic : Topics, dlq : Dlqs \cup {NoDlq}, id : 0..MaxHandlers,
                             epoch : 0..MaxResets]]
    /\ pub \in [Calls -> [state : {"idle", "running", "returned", "raised"},
                          snapshot : SUBSET Handler, visited : SUBSET Handler,
                          parked : SUBSET Handler, in : Handler \cup {NoHandler}]]
    /\ resets \in 0..MaxResets

Init ==
    /\ subscriptions = [t \in Topics |-> {}]
    /\ subscription_ids = [i \in Handler |-> NoHandler]
    /\ next_sub_id = 0
    /\ dlqs = [d \in Dlqs |-> [c \in Calls |-> 0]]
    /\ made = 0
    /\ subs = [h \in Handler |-> NoSub]
    /\ pub = [c \in Calls |-> Idle]
    /\ resets = 0

-----------------------------------------------------------------------------
\* A subscribe that counts the id once before and once after its use (for the mutation
\* checks).
SubscribeSkipping(t, d) ==
    LET h == made + 1
        i == next_sub_id + 1
    IN  /\ made < MaxHandlers
        /\ made' = h
        /\ next_sub_id' = i + 1
        /\ subs' = [subs EXCEPT ![h] = [topic |-> t, dlq |-> d, id |-> i, epoch |-> resets]]
        /\ subscriptions' = [subscriptions EXCEPT ![t] = @ \cup {h}]
        /\ subscription_ids' = [subscription_ids EXCEPT ![i] = h]
        /\ UNCHANGED <<dlqs, pub, resets>>

\* subscribe(): the next number, a fresh handler object, both indexes.
Subscribe(t, d) ==
    LET h == made + 1
        i == next_sub_id + 1
    IN  /\ made < MaxHandlers
        /\ made' = h
        /\ next_sub_id' = i
        /\ subs' = [subs EXCEPT ![h] = [topic |-> t, dlq |-> d, id |-> i, epoch |-> resets]]
        /\ subscriptions' = [subscriptions EXCEPT ![t] = @ \cup {h}]
        /\ subscription_ids' = [subscription_ids EXCEPT ![i] = h]
        /\ UNCHANGED <<dlqs, pub, resets>>

\* unsubscribe(id), for an id that is registered; any other id is ignored.
Unsubscribe(i) ==
    LET h == subscription_ids[i]
    IN  /\ h # NoHandler
        /\ subscription_ids' = [subscription_ids EXCEPT ![i] = NoHandler]
        /\ subscriptions' = [subscriptions EXCEPT ![subs[h].topic] = @ \ {h}]
        /\ UNCHANGED <<next_sub_id, dlqs, made, subs, pub, resets>>

\* An unsubscribe-all that numbers from the start again (for the mutation checks).
UnsubscribeAllRenumbering ==
    /\ subscriptions' = [t \in Topics |-> {}]
    /\ subscription_ids' = [i \in Handler |-> NoHandler]
    /\ next_sub_id' = 0
    /\ UNCHANGED <<dlqs, made, subs, pub, resets>>

\* unsubscribe() without an id.
UnsubscribeAll ==
    /\ subscriptions' = [t \in Topics |-> {}]
    /\ subscription_ids' = [i \in Handler |-> NoHandler]
    /\ UNCHANGED <<next_sub_id, dlqs, made, subs, pub, resets>>

\* reset(): publish() calls in progress keep their copy of the handler list.
Reset ==
    /\ resets < MaxResets
    /\ resets' = resets + 1
    /\ subscriptions' = [t \in Topics |-> {}]
    /\ subscription_ids' = [i \in Handler |-> NoHandler]
    /\ next_sub_id' = 0
    /\ dlqs' = [d \in Dlqs |-> [c \in Calls |-> 0]]
    /\ pub' = [c \in Calls |-> [pub[c] EXCEPT !.parked = {}]]
    /\ UNCHANGED <<made, subs>>

-----------------------------------------------------------------------------
\* Iterating the topic's own list by position, not a copy (for the mutation checks).
RemainingLive(p) ==
    {h \in UNION {subscriptions[t] : t \in Topics} :
        \E t \in Topics :
            /\ p.snapshot \cap subscriptions[t] # {}
            /\ h \in subscriptions[t]
            /\ Cardinality({g \in subscriptions[t] : g <= h}) > Cardinality(p.visited)}

\* The handlers a publish() call has still to go through.
Remaining(p) == p.snapshot \ p.visited

\* The call has been through the handler it is in; that one failed and was parked.
Through(p) == [p EXCEPT !.visited = @ \cup {p.in}]
Parked(p) == [p EXCEPT !.visited = @ \cup {p.in}, !.parked = @ \cup {p.in}]

\* The call goes on with the next handler, or returns after the last one.
Advance(p) ==
    IF Remaining(p) = {}
    THEN [p EXCEPT !.state = "returned", !.in = NoHandler]
    ELSE [p EXCEPT !.state = "running", !.in = Min(Remaining(p))]

Publish(c, t) ==
    /\ pub[c].state = "idle"
    /\ pub' = [pub EXCEPT ![c] = Advance([@ EXCEPT !.snapshot = subscriptions[t]])]
    /\ UNCHANGED <<subscriptions, subscription_ids, next_sub_id, dlqs, made, subs, resets>>

\* The handler the call is in returns.
Handled(c) ==
    /\ pub[c].state = "running"
    /\ pub' = [pub EXCEPT ![c] = Advance(Through(pub[c]))]
    /\ UNCHANGED <<subscriptions, subscription_ids, next_sub_id, dlqs, made, subs, resets>>

\* A failure that ends the fan-out although it was parked (for the mutation checks).
ParkAndStop(c) ==
    LET h == pub[c].in
        d == subs[h].dlq
    IN  /\ pub[c].state = "running"
        /\ d # NoDlq
        /\ dlqs' = [dlqs EXCEPT ![d][c] = @ + 1]
        /\ pub' = [pub EXCEPT ![c] = [Parked(pub[c]) EXCEPT !.state = "returned", !.in = NoHandler]]
        /\ UNCHANGED <<subscriptions, subscription_ids, next_sub_id, made, subs, resets>>

\* A failure parked under the first queue there is, not the handler's (for the mutation
\* checks).
ParkElsewhere(c) ==
    LET h == pub[c].in
        d == CHOOSE e \in Dlqs : TRUE
    IN  /\ pub[c].state = "running"
        /\ subs[h].dlq # NoDlq
        /\ dlqs' = [dlqs EXCEPT ![d][c] = @ + 1]
        /\ pub' = [pub EXCEPT ![c] = Advance(Parked(pub[c]))]
        /\ UNCHANGED <<subscriptions, subscription_ids, next_sub_id, made, subs, resets>>

\* The handler the call is in raises and has a dead-letter queue: the event is parked
\* there and the call goes on.
Park(c) ==
    LET h == pub[c].in
        d == subs[h].dlq
    IN  /\ pub[c].state = "running"
        /\ d # NoDlq
        /\ dlqs' = [dlqs EXCEPT ![d][c] = @ + 1]
        /\ pub' = [pub EXCEPT ![c] = Advance(Parked(pub[c]))]
        /\ UNCHANGED <<subscriptions, subscription_ids, next_sub_id, made, subs, resets>>

\* The handler the call is in raises and has none: publish() raises, and the handlers
\* after it are not called.
Raise(c) ==
    /\ pub[c].state = "running"
    /\ subs[pub[c].in].dlq = NoDlq
    /\ pub' = [pub EXCEPT ![c] = [@ EXCEPT !.state = "raised", !.in = NoHandler]]
    /\ UNCHANGED <<subscriptions, subscription_ids, next_sub_id, dlqs, made, subs, resets>>

\* The task of the call is cancelled while it awaits the handler: CancelledError is no
\* Exception, so the event is parked nowhere, whatever queue the handler has.
CancelPublish(c) ==
    /\ pub[c].state = "running"
    /\ pub' = [pub EXCEPT ![c] = [@ EXCEPT !.state = "raised", !.in = NoHandler]]
    /\ UNCHANGED <<subscriptions, subscription_ids, next_sub_id, dlqs, made, subs, resets>>

Next ==
    \/ \E t \in Topics, d \in Dlqs \cup {NoDlq} : Subscribe(t, d)
    \/ \E i \in Handler : Unsubscribe(i)
    \/ UnsubscribeAll
    \/ Reset
    \/ \E c \in Calls, t \in Topics : Publish(c, t)
    \/ \E c \in Calls : Handled(c) \/ Park(c) \/ Raise(c) \/ CancelPublish(c)

Spec == Init /\ [][Next]_vars

-----------------------------------------------------------------------------
(* Properties *)

\* A subscription id is never handed out twice between two resets, so an id kept after its
\* subscription is gone cannot remove somebody else's.
IdsNotReused ==
    \A g, h \in 1..made :
        subs[g].epoch = subs[h].epoch /\ subs[g].id = subs[h].id => g = h

\* publish() reaches every handler that was subscribed when it started, in the order of
\* subscription and each of them once, although handlers come and go meanwhile: the
\* handlers behind it are those before the one it is in, and when it returns none is left.
FanOutComplete ==
    \A c \in Calls :
        /\ pub[c].state = "running" =>
              /\ pub[c].in \in pub[c].snapshot
              /\ pub[c].visited = {h \in pub[c].snapshot : h < pub[c].in}
        /\ pub[c].state = "returned" => pub[c].visited = pub[c].snapshot

\* The dead-letter queues hold an event exactly as often as handlers with that queue
\* failed on it since the last reset: nothing is parked twice, dropped or parked in
\* another subscription's queue.
ParkedExactly ==
    \A d \in Dlqs, c \in Calls :
        dlqs[d][c] = Cardinality({h \in pub[c].parked : subs[h].dlq = d})
=============================================================================
