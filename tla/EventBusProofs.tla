--------------------------- MODULE EventBusProofs ---------------------------
(***************************************************************************)
(* Theorems about the event bus, for every set of topics, queues and calls *)
(* and every bound on subscriptions and resets.                            *)
(***************************************************************************)
EXTENDS EventBus, FiniteLemmas

(* The inductive invariant, in named parts. *)

\* Whatever a list, a copy of it or an id names was made before.
NamesMade ==
    /\ \A t \in Topics : subscriptions[t] \subseteq 1..made
    /\ \A i \in Handler : subscription_ids[i] <= made
    /\ \A c \in Calls : pub[c].snapshot \subseteq 1..made

\* An id stands for the handler that got it, since the last reset.
IdsStandForOwners ==
    \A i \in Handler : subscription_ids[i] # NoHandler =>
        /\ subs[subscription_ids[i]].id = i
        /\ subs[subscription_ids[i]].epoch = resets

\* The two indexes agree whatever is subscribed, unsubscribed and reset in the middle of a
\* fan-out: a topic's list holds exactly the handlers that some id still stands for, each
\* under its own topic, and no handler is registered under two ids.
IndexesAgree ==
    /\ \A t \in Topics :
          subscriptions[t] = {h \in 1..made : /\ subs[h].topic = t
                                              /\ \E i \in Handler : subscription_ids[i] = h}
    /\ \A i, j \in Handler :
          subscription_ids[i] # NoHandler /\ subscription_ids[i] = subscription_ids[j] => i = j

\* Numbers are counted up between two resets.
NumbersCounted ==
    /\ next_sub_id <= made
    /\ \A h \in 1..made : /\ subs[h].epoch <= resets
                          /\ subs[h].epoch = resets => subs[h].id <= next_sub_id

\* A call has been through handlers of its copy, and parked only what it has been through.
CallsProgress ==
    \A c \in Calls : /\ pub[c].parked \subseteq pub[c].visited
                     /\ pub[c].visited \subseteq pub[c].snapshot
                     /\ pub[c].state = "idle" => pub[c].visited = {}

IInv ==
    /\ TypeOK
    /\ NamesMade
    /\ IdsStandForOwners
    /\ NumbersCounted
    /\ IndexesAgree
    /\ IdsNotReused
    /\ CallsProgress
    /\ FanOutComplete
    /\ ParkedExactly

-----------------------------------------------------------------------------
(* The records the operations make. *)

Call == [state : {"idle", "running", "returned", "raised"}, snapshot : SUBSET Handler,
         visited : SUBSET Handler, parked : SUBSET Handler, in : Handler \cup {NoHandler}]

\* What FanOutComplete says of one call.
InStep(p) ==
    /\ p.state = "running" => /\ p.in \in p.snapshot
                              /\ p.visited = {h \in p.snapshot : h < p.in}
    /\ p.state = "returned" => p.visited = p.snapshot

LEMMA HandlersAreNats ==
    /\ Handler \subseteq Nat /\ NoHandler \notin Handler
    /\ \A S \in SUBSET Handler : IsFiniteSet(S)
<1>1. IsFiniteSet(Handler)
  BY BusAssumption, FS_Interval DEF Handler
<1>2. \A S \in SUBSET Handler : IsFiniteSet(S)
  BY <1>1, FS_Subset
<1> QED BY <1>2, BusAssumption DEF Handler, NoHandler

\* What Advance() makes of a call that has been through the handlers below h, h excluded
\* or included: it is in the next one, or it returns having been through all of them.
LEMMA AdvancedCall ==
    ASSUME NEW p \in Call, p.visited \subseteq p.snapshot,
           \A g \in p.visited, h \in p.snapshot \ p.visited : g < h
    PROVE  LET q == Advance(p)
           IN  /\ q \in Call
               /\ q.snapshot = p.snapshot /\ q.visited = p.visited /\ q.parked = p.parked
               /\ q.state # "idle" /\ InStep(q)
<1> DEFINE rest == Remaining(p)
<1>0. rest \in SUBSET Handler /\ rest \subseteq p.snapshot
  BY DEF Remaining, Call
<1>1. CASE rest = {}
  <2>1. Advance(p) = [p EXCEPT !.state = "returned", !.in = NoHandler]
    BY <1>1 DEF Advance
  <2>2. p.visited = p.snapshot
    BY <1>1 DEF Remaining
  <2> QED BY <2>1, <2>2 DEF Call, InStep
<1>2. CASE rest # {}
  <2>1. Advance(p) = [p EXCEPT !.state = "running", !.in = Min(rest)]
    BY <1>2 DEF Advance
  <2>2. Min(rest) \in rest /\ \A h \in rest : Min(rest) <= h
    BY <1>0, <1>2, HandlersAreNats, MinOfNats
  <2> DEFINE m == Min(rest)
  <2> HIDE DEF m
  <2>3. m \in rest /\ \A h \in rest : m <= h
    BY <2>2 DEF m
  <2>4. p.visited = {h \in p.snapshot : h < m}
    <3>1. p.snapshot \subseteq Nat /\ p.visited \subseteq Nat /\ m \in Nat
      BY <2>3, <1>0, HandlersAreNats DEF Call
    <3>2. ASSUME NEW h \in p.snapshot PROVE h \in p.visited <=> h < m
      BY <2>3, <3>1 DEF Remaining
    <3> QED BY <3>2
  <2>5. Advance(p) = [p EXCEPT !.state = "running", !.in = m]
    BY <2>1 DEF m
  <2>6. m \in Handler /\ m \in p.snapshot
    BY <1>0, <2>3
  <2> HIDE DEF rest
  <2> DEFINE q == [p EXCEPT !.state = "running", !.in = m]
  <2>7. /\ q \in Call /\ q.state = "running" /\ q.in = m
        /\ q.snapshot = p.snapshot /\ q.visited = p.visited /\ q.parked = p.parked
    BY <2>6 DEF Call
  <2> HIDE DEF q
  <2>8. /\ q.in \in q.snapshot
        /\ q.visited = {h \in q.snapshot : h < q.in}
    BY <2>4, <2>6, <2>7
  <2> QED BY <2>5, <2>7, <2>8 DEF q, InStep
<1> QED BY <1>1, <1>2

\* The call after it has been through the handler it is in, which may have parked the event.
LEMMA HandledCall ==
    ASSUME NEW p \in Call, p.state = "running", p.in \in p.snapshot,
           InStep(p), NEW K \in SUBSET Handler
    PROVE  LET q == Advance([p EXCEPT !.visited = p.visited \cup {p.in}, !.parked = K])
           IN  /\ q \in Call
               /\ q.snapshot = p.snapshot /\ q.visited = p.visited \cup {p.in} /\ q.parked = K
               /\ q.state # "idle" /\ InStep(q)
<1> DEFINE r == [p EXCEPT !.visited = p.visited \cup {p.in}, !.parked = K]
<1>1. /\ r \in Call /\ r.snapshot = p.snapshot
      /\ r.visited = p.visited \cup {p.in} /\ r.parked = K
  BY DEF Call
<1>0. p.visited = {h \in p.snapshot : h < p.in}
  BY DEF InStep
<1>2. r.visited \subseteq r.snapshot
  BY <1>0, <1>1
<1>3. \A g \in r.visited, h \in r.snapshot \ r.visited : g < h
  <2>1. p.snapshot \subseteq Nat /\ p.in \in Nat
    BY HandlersAreNats DEF Call
  <2> QED BY <1>0, <1>1, <2>1
<1> HIDE DEF r
<1>4. QED BY <1>1, <1>2, <1>3, AdvancedCall DEF r

-----------------------------------------------------------------------------
(* The invariant is inductive: one lemma per action. *)

LEMMA InitIInv == Init => IInv
<1> SUFFICES ASSUME Init PROVE IInv
  OBVIOUS
<1> USE BusAssumption DEF Init, Handler, NoHandler
<1>0. NoSub \in [topic : Topics, dlq : Dlqs \cup {NoDlq}, id : 0..MaxHandlers, epoch : 0..MaxResets]
  BY DEF NoSub
<1>1. Idle \in Call
  BY DEF Idle, Call
<1>2. TypeOK
  BY <1>0, <1>1 DEF TypeOK, Call
<1>3. NamesMade /\ IdsStandForOwners /\ NumbersCounted /\ IdsNotReused
  BY DEF NamesMade, IdsStandForOwners, NumbersCounted, IdsNotReused, Idle
<1>4. IndexesAgree
  BY DEF IndexesAgree
<1>5. CallsProgress /\ FanOutComplete
  BY DEF CallsProgress, FanOutComplete, Idle
<1>6. ParkedExactly
  <2>1. \A h \in {} : FALSE
    OBVIOUS
  <2>2. \A d \in Dlqs, c \in Calls : {h \in pub[c].parked : subs[h].dlq = d} = {}
    BY DEF Idle
  <2> QED BY <2>2, FS_EmptySet DEF ParkedExactly
<1> QED BY <1>2, <1>3, <1>4, <1>5, <1>6 DEF IInv

\* What subscribe() changes: the fresh handler and its number.
LEMMA SubscribeKeepsIInv ==
    ASSUME NEW t \in Topics, NEW d \in Dlqs \cup {NoDlq}, IInv, Subscribe(t, d)
    PROVE  IInv'
<1> USE BusAssumption DEF IInv, Handler, NoHandler
<1> DEFINE h == made + 1
           i == next_sub_id + 1
<1>0. /\ made \in Nat /\ next_sub_id \in Nat /\ made < MaxHandlers /\ next_sub_id <= made
      /\ resets \in 0..MaxResets
  BY DEF Subscribe, TypeOK, NumbersCounted
<1>1. /\ h \in Handler /\ i \in Handler /\ h \notin 1..made /\ h > made
      /\ 1..h = (1..made) \cup {h}
  BY <1>0
<1>2. /\ made' = h /\ next_sub_id' = i
      /\ subs' = [subs EXCEPT ![h] = [topic |-> t, dlq |-> d, id |-> i, epoch |-> resets]]
      /\ subscriptions' = [subscriptions EXCEPT ![t] = @ \cup {h}]
      /\ subscription_ids' = [subscription_ids EXCEPT ![i] = h]
      /\ UNCHANGED <<dlqs, pub, resets>>
  BY DEF Subscribe
<1>3. subscription_ids[i] = NoHandler
  <2> SUFFICES ASSUME subscription_ids[i] # NoHandler PROVE FALSE
    OBVIOUS
  <2> DEFINE owner == subscription_ids[i]
  <2>1. owner \in 1..made
    BY <1>1 DEF NamesMade, TypeOK
  <2>2. subs[owner].id = i /\ subs[owner].epoch = resets
    BY <1>1 DEF IdsStandForOwners
  <2>3. subs[owner].id <= next_sub_id
    BY <2>1, <2>2 DEF NumbersCounted
  <2> QED BY <1>0, <2>2, <2>3
<1> HIDE DEF h, i
<1>4. /\ \A g \in Handler : g # h => subs'[g] = subs[g]
      /\ subs'[h] = [topic |-> t, dlq |-> d, id |-> i, epoch |-> resets]
      /\ \A j \in Handler : j # i => subscription_ids'[j] = subscription_ids[j]
      /\ subscription_ids'[i] = h
      /\ \A s \in Topics : s # t => subscriptions'[s] = subscriptions[s]
      /\ subscriptions'[t] = subscriptions[t] \cup {h}
  BY <1>1, <1>2 DEF TypeOK
<1>5. TypeOK'
  <2>1. [topic |-> t, dlq |-> d, id |-> i, epoch |-> resets]
          \in [topic : Topics, dlq : Dlqs \cup {NoDlq}, id : 0..MaxHandlers, epoch : 0..MaxResets]
    BY <1>0, <1>1
  <2>2. made' \in 0..MaxHandlers /\ next_sub_id' \in 0..MaxHandlers
    BY <1>1, <1>2
  <2>3. subs' \in [Handler -> [topic : Topics, dlq : Dlqs \cup {NoDlq}, id : 0..MaxHandlers,
                               epoch : 0..MaxResets]]
    BY <1>1, <1>2, <2>1 DEF TypeOK
  <2>4. /\ subscriptions' \in [Topics -> SUBSET Handler]
        /\ subscription_ids' \in [Handler -> Handler \cup {NoHandler}]
    BY <1>1, <1>2 DEF TypeOK
  <2> QED BY <1>2, <2>2, <2>3, <2>4 DEF TypeOK
<1>a. /\ \A j \in Handler : subscription_ids[j] \in Nat /\ subscription_ids[j] <= made
      /\ \A j \in Handler : subscription_ids[j] # h
      /\ \A j \in Handler : subscription_ids[j] # NoHandler => subscription_ids[j] \in Handler
  <2>1. \A j \in Handler : subscription_ids[j] \in Handler \cup {NoHandler}
    BY DEF TypeOK
  <2>2. \A j \in Handler : subscription_ids[j] \in Nat /\ subscription_ids[j] <= made
    BY <2>1 DEF NamesMade
  <2>3. \A j \in Handler : subscription_ids[j] # h
    BY <2>2, <1>0, <1>1
  <2> QED BY <2>1, <2>2, <2>3
<1>6. NamesMade'
  <2>1. \A s \in Topics : subscriptions'[s] \subseteq 1..made'
    BY <1>1, <1>2, <1>4 DEF NamesMade
  <2>2. \A j \in Handler : subscription_ids'[j] <= made'
    BY <1>0, <1>1, <1>2, <1>4, <1>a
  <2>3. \A c \in Calls : pub'[c].snapshot \subseteq 1..made'
    BY <1>1, <1>2 DEF NamesMade
  <2> QED BY <2>1, <2>2, <2>3 DEF NamesMade
<1>7. IdsStandForOwners'
  <2> SUFFICES ASSUME NEW j \in Handler, subscription_ids'[j] # NoHandler
               PROVE  /\ subs'[subscription_ids'[j]].id = j
                      /\ subs'[subscription_ids'[j]].epoch = resets'
    BY DEF IdsStandForOwners
  <2>1. CASE j = i
    BY <2>1, <1>2, <1>4
  <2>2. CASE j # i
    BY <2>2, <1>2, <1>4, <1>a DEF IdsStandForOwners
  <2> QED BY <2>1, <2>2
<1>8. NumbersCounted'
  BY <1>0, <1>1, <1>2, <1>4 DEF NumbersCounted, TypeOK, i, h
<1>9. IdsNotReused'
  <2>1. \A g \in 1..made : g \in Handler /\ g # h
    BY <1>0, <1>1
  <2>2. \A g \in 1..made : subs'[g] = subs[g]
    BY <2>1, <1>4
  <2>3. \A g \in 1..made : ~(subs[g].epoch = resets /\ subs[g].id = i)
    BY <2>1, <1>0 DEF NumbersCounted, TypeOK, i
  <2> QED BY <1>1, <1>2, <1>4, <2>2, <2>3 DEF IdsNotReused
<1>10. IndexesAgree'
  <2>1. \A s \in Topics :
          subscriptions'[s] = {g \in 1..made' : /\ subs'[g].topic = s
                                                 /\ \E j \in Handler : subscription_ids'[j] = g}
    <3> TAKE s \in Topics
    <3>1. \A g \in 1..made : g \in Handler /\ g # h
      BY <1>0, <1>1
    <3>2. \A g \in 1..made : (\E j \in Handler : subscription_ids'[j] = g)
                               <=> (\E j \in Handler : subscription_ids[j] = g)
      BY <1>1, <1>3, <1>4, <3>1
    <3> QED BY <1>1, <1>2, <1>4, <3>1, <3>2 DEF IndexesAgree
  <2>2. \A j, k \in Handler :
          subscription_ids'[j] # NoHandler /\ subscription_ids'[j] = subscription_ids'[k] => j = k
    BY <1>4, <1>a DEF IndexesAgree
  <2> QED BY <2>1, <2>2 DEF IndexesAgree
<1>11. CallsProgress' /\ FanOutComplete'
  BY <1>2 DEF CallsProgress, FanOutComplete
<1>12. ParkedExactly'
  <2>1. \A c \in Calls : \A g \in pub[c].parked : g \in Handler /\ g # h
    BY <1>0, <1>1 DEF NamesMade, CallsProgress
  <2>2. \A c \in Calls, e \in Dlqs : {g \in pub'[c].parked : subs'[g].dlq = e}
                                        = {g \in pub[c].parked : subs[g].dlq = e}
    BY <1>2, <1>4, <2>1
  <2> QED BY <1>2, <2>2 DEF ParkedExactly
<1> QED BY <1>5, <1>6, <1>7, <1>8, <1>9, <1>10, <1>11, <1>12

LEMMA UnsubscribeKeepsIInv ==
    ASSUME NEW i \in Handler, IInv, Unsubscribe(i)
    PROVE  IInv'
<1> USE DEF IInv
<1> DEFINE h == subscription_ids[i]
           t == subs[h].topic
<1>1. /\ h # NoHandler /\ h \in Handler /\ t \in Topics
      /\ subscription_ids' = [subscription_ids EXCEPT ![i] = NoHandler]
      /\ subscriptions' = [subscriptions EXCEPT ![t] = @ \ {h}]
      /\ UNCHANGED <<next_sub_id, dlqs, made, subs, pub, resets>>
  BY DEF Unsubscribe, TypeOK
<1>2. \A j \in Handler : subscription_ids[j] = h => j = i
  BY <1>1 DEF IndexesAgree
<1>3. h \in Nat /\ made \in Nat /\ NoHandler \in Nat /\ NoHandler <= made
  BY <1>1, BusAssumption DEF TypeOK, Handler, NoHandler
<1>4. subscription_ids[i] = h
  OBVIOUS
<1> HIDE DEF h
<1>5. \A g : g \in Handler /\ g # h =>
        ((\E j \in Handler : subscription_ids'[j] = g) <=> (\E j \in Handler : subscription_ids[j] = g))
  BY <1>1, <1>4, HandlersAreNats DEF TypeOK
<1>6. ~ \E j \in Handler : subscription_ids'[j] = h
  BY <1>1, <1>2 DEF TypeOK
<1>7. TypeOK'
  BY <1>1 DEF TypeOK
<1>8. NamesMade' /\ IdsStandForOwners' /\ NumbersCounted' /\ IdsNotReused'
  BY <1>1, <1>3 DEF TypeOK, NamesMade, IdsStandForOwners, NumbersCounted, IdsNotReused
<1>9. IndexesAgree'
  <2>1. \A s \in Topics :
          subscriptions'[s] = {g \in 1..made' : /\ subs'[g].topic = s
                                                 /\ \E j \in Handler : subscription_ids'[j] = g}
    <3> TAKE s \in Topics
    <3>1. \A g \in 1..made : g \in Handler
      BY BusAssumption DEF TypeOK, Handler
    <3>2. CASE s = t
      <4>1. subscriptions'[s] = subscriptions[s] \ {h}
        BY <1>1, <3>2 DEF TypeOK
      <4> QED BY <1>1, <1>5, <1>6, <3>1, <4>1 DEF IndexesAgree
    <3>3. CASE s # t
      <4>1. subscriptions'[s] = subscriptions[s]
        BY <1>1, <3>3 DEF TypeOK
      <4> QED BY <1>1, <1>5, <1>6, <3>1, <3>3, <4>1 DEF IndexesAgree
    <3> QED BY <3>2, <3>3
  <2>2. \A j, k \in Handler :
          subscription_ids'[j] # NoHandler /\ subscription_ids'[j] = subscription_ids'[k] => j = k
    BY <1>1 DEF IndexesAgree, TypeOK
  <2> QED BY <2>1, <2>2 DEF IndexesAgree
<1>10. CallsProgress' /\ FanOutComplete' /\ ParkedExactly'
  BY <1>1 DEF CallsProgress, FanOutComplete, ParkedExactly
<1> QED BY <1>7, <1>8, <1>9, <1>10

\* unsubscribe() without an id, and reset(): no handler is registered any more.
LEMMA Emptied ==
    ASSUME TypeOK, subscriptions' = [t \in Topics |-> {}],
           subscription_ids' = [i \in Handler |-> NoHandler], UNCHANGED <<made, subs>>
    PROVE  IndexesAgree' /\ IdsStandForOwners'
BY HandlersAreNats, BusAssumption DEF IndexesAgree, IdsStandForOwners, NoHandler, TypeOK

LEMMA UnsubscribeAllKeepsIInv == IInv /\ UnsubscribeAll => IInv'
<1> SUFFICES ASSUME IInv, UnsubscribeAll PROVE IInv'
  OBVIOUS
<1> USE DEF IInv, UnsubscribeAll
<1>1. IndexesAgree' /\ IdsStandForOwners'
  BY Emptied
<1>2. TypeOK' /\ NamesMade'
  BY DEF TypeOK, NamesMade, NoHandler
<1>3. NumbersCounted' /\ IdsNotReused' /\ CallsProgress' /\ FanOutComplete' /\ ParkedExactly'
  BY DEF NumbersCounted, IdsNotReused, CallsProgress, FanOutComplete, ParkedExactly
<1> QED BY <1>1, <1>2, <1>3

LEMMA ResetKeepsIInv == IInv /\ Reset => IInv'
<1> SUFFICES ASSUME IInv, Reset PROVE IInv'
  OBVIOUS
<1> USE DEF IInv, Reset
<1>1. IndexesAgree' /\ IdsStandForOwners'
  BY Emptied
<1>2. /\ pub \in [Calls -> Call] /\ resets \in Nat /\ made \in Nat
      /\ \A c \in Calls : /\ pub'[c] \in Call /\ pub'[c].parked = {}
                           /\ pub'[c].state = pub[c].state /\ pub'[c].snapshot = pub[c].snapshot
                           /\ pub'[c].visited = pub[c].visited /\ pub'[c].in = pub[c].in
  BY BusAssumption DEF TypeOK, Call
<1>3. TypeOK'
  <2>1. pub' \in [Calls -> Call]
    BY <1>2
  <2>2. resets' \in 0..MaxResets
    BY BusAssumption DEF TypeOK
  <2>3. /\ subscriptions' \in [Topics -> SUBSET Handler]
        /\ subscription_ids' \in [Handler -> Handler \cup {NoHandler}]
        /\ next_sub_id' \in 0..MaxHandlers
        /\ dlqs' \in [Dlqs -> [Calls -> Nat]]
    BY BusAssumption
  <2> QED BY <2>1, <2>2, <2>3 DEF TypeOK, Call
<1>4. NamesMade'
  BY <1>2 DEF NamesMade, NoHandler
<1>5. NumbersCounted' /\ IdsNotReused'
  <2>1. \A h \in 1..made : subs[h].epoch <= resets /\ subs[h].epoch \in Nat
    BY BusAssumption DEF NumbersCounted, TypeOK, Handler
  <2> QED BY <1>2, <2>1 DEF NumbersCounted, IdsNotReused
<1>6. CallsProgress' /\ FanOutComplete'
  <2>1. CallsProgress'
    BY <1>2 DEF CallsProgress
  <2>2. FanOutComplete'
    BY <1>2 DEF FanOutComplete
  <2> QED BY <2>1, <2>2
<1>7. ParkedExactly'
  <2>1. \A d \in Dlqs, c \in Calls : {h \in pub'[c].parked : subs'[h].dlq = d} = {}
    BY <1>2
  <2> QED BY <2>1, FS_EmptySet DEF ParkedExactly
<1> QED BY <1>1, <1>3, <1>4, <1>5, <1>6, <1>7

\* A step of a call that touches no index: the call's new record keeps its part of the
\* invariant, and so do the queues it may have parked the event in.
LEMMA CallStep ==
    ASSUME IInv, NEW c \in Calls, NEW q \in Call,
           pub' = [pub EXCEPT ![c] = q],
           UNCHANGED <<subscriptions, subscription_ids, next_sub_id, made, subs, resets>>,
           dlqs' \in [Dlqs -> [Calls -> Nat]],
           q.snapshot \subseteq 1..made,
           q.parked \subseteq q.visited, q.visited \subseteq q.snapshot,
           q.state # "idle",
           InStep(q),
           \A d \in Dlqs, e \in Calls : e # c => dlqs'[d][e] = dlqs[d][e],
           \A d \in Dlqs : dlqs'[d][c] = Cardinality({h \in q.parked : subs[h].dlq = d})
    PROVE  IInv'
<1> USE DEF IInv
<1>1. /\ pub' \in [Calls -> Call] /\ pub'[c] = q
      /\ \A e \in Calls : e # c => pub'[e] = pub[e]
  BY DEF TypeOK, Call
<1>2. TypeOK'
  BY <1>1 DEF TypeOK, Call
<1>3. NamesMade' /\ CallsProgress' /\ FanOutComplete'
  BY <1>1 DEF NamesMade, CallsProgress, FanOutComplete, InStep
<1>4. IdsStandForOwners' /\ NumbersCounted' /\ IdsNotReused' /\ IndexesAgree'
  BY DEF IdsStandForOwners, NumbersCounted, IdsNotReused, IndexesAgree
<1>5. ParkedExactly'
  BY <1>1 DEF ParkedExactly
<1> QED BY <1>2, <1>3, <1>4, <1>5

LEMMA PublishKeepsIInv ==
    ASSUME NEW c \in Calls, NEW t \in Topics, IInv, Publish(c, t)
    PROVE  IInv'
<1> USE DEF IInv
<1> DEFINE p == [pub[c] EXCEPT !.snapshot = subscriptions[t]]
           q == Advance(p)
<1>1. /\ pub[c] \in Call /\ pub[c].state = "idle" /\ pub[c].visited = {}
      /\ pub[c].parked = {} /\ subscriptions[t] \in SUBSET Handler
  BY DEF Publish, TypeOK, Call, CallsProgress
<1>2. /\ p \in Call /\ p.snapshot = subscriptions[t] /\ p.visited = {} /\ p.parked = {}
  BY <1>1 DEF Call
<1>3. /\ pub' = [pub EXCEPT ![c] = q]
      /\ UNCHANGED <<subscriptions, subscription_ids, next_sub_id, dlqs, made, subs, resets>>
  BY DEF Publish
<1> HIDE DEF p
<1>4. /\ q \in Call
      /\ q.snapshot = subscriptions[t] /\ q.visited = {} /\ q.parked = {}
      /\ q.state # "idle" /\ InStep(q)
  BY <1>2, AdvancedCall
<1> HIDE DEF q
<1>5. \A d \in Dlqs : dlqs[d][c] = Cardinality({h \in q.parked : subs[h].dlq = d})
  BY <1>1, <1>4 DEF ParkedExactly
<1>6. q.snapshot \subseteq 1..made /\ dlqs' \in [Dlqs -> [Calls -> Nat]]
  BY <1>3, <1>4 DEF NamesMade, TypeOK
<1> QED BY <1>3, <1>4, <1>5, <1>6, CallStep

LEMMA HandledKeepsIInv ==
    ASSUME NEW c \in Calls, IInv, Handled(c)
    PROVE  IInv'
<1> USE DEF IInv
<1> DEFINE p == pub[c]
           q == Advance(Through(p))
<1>1. /\ p \in Call /\ p.state = "running" /\ p.in \in p.snapshot
      /\ InStep(p) /\ p.visited = {g \in p.snapshot : g < p.in} /\ p.parked \in SUBSET Handler
      /\ p.parked \subseteq p.visited /\ p.snapshot \subseteq 1..made
  BY DEF Handled, TypeOK, Call, FanOutComplete, CallsProgress, NamesMade, InStep
<1>2. /\ pub' = [pub EXCEPT ![c] = q]
      /\ UNCHANGED <<subscriptions, subscription_ids, next_sub_id, dlqs, made, subs, resets>>
  BY DEF Handled
<1>3. \A d \in Dlqs : dlqs[d][c] = Cardinality({h \in p.parked : subs[h].dlq = d})
  BY DEF ParkedExactly
<1> HIDE DEF p
<1> DEFINE K == p.parked
<1>4. q = Advance([p EXCEPT !.visited = p.visited \cup {p.in}, !.parked = K])
  BY <1>1 DEF Call, Through
<1>5. /\ q \in Call
      /\ q.snapshot = p.snapshot /\ q.visited = p.visited \cup {p.in} /\ q.parked = p.parked
      /\ q.state # "idle" /\ InStep(q)
  <2>1. K = p.parked
    OBVIOUS
  <2> HIDE DEF K, q
  <2> QED BY <1>1, <1>4, <2>1, HandledCall
<1> HIDE DEF q
<1>6. dlqs' \in [Dlqs -> [Calls -> Nat]]
  BY <1>2 DEF TypeOK
<1>7. /\ q.snapshot \subseteq 1..made /\ q.parked \subseteq q.visited /\ q.visited \subseteq q.snapshot
  BY <1>1, <1>5
<1> QED BY <1>2, <1>3, <1>5, <1>6, <1>7, CallStep

LEMMA ParkKeepsIInv ==
    ASSUME NEW c \in Calls, IInv, Park(c)
    PROVE  IInv'
<1> USE DEF IInv
<1> DEFINE p == pub[c]
           h == p.in
           d == subs[h].dlq
           q == Advance(Parked(p))
<1>1. /\ p \in Call /\ p.state = "running" /\ p.in \in p.snapshot
      /\ InStep(p) /\ p.visited = {g \in p.snapshot : g < p.in} /\ p.parked \in SUBSET Handler
      /\ p.parked \subseteq p.visited /\ p.snapshot \subseteq 1..made
  BY DEF Park, TypeOK, Call, FanOutComplete, CallsProgress, NamesMade, InStep
<1>2. /\ pub' = [pub EXCEPT ![c] = q]
      /\ dlqs' = [dlqs EXCEPT ![d][c] = @ + 1] /\ d # NoDlq
      /\ UNCHANGED <<subscriptions, subscription_ids, next_sub_id, made, subs, resets>>
  BY DEF Park
<1>3. \A e \in Dlqs : dlqs[e][c] = Cardinality({g \in p.parked : subs[g].dlq = e})
  BY DEF ParkedExactly
<1>4. h \in Handler /\ d \in Dlqs
  BY <1>1, <1>2 DEF TypeOK, Call
<1> HIDE DEF p
<1> DEFINE K == p.parked \cup {h}
<1>5. K \in SUBSET Handler /\ h \notin p.parked
  BY <1>1, <1>4, HandlersAreNats
<1>6. /\ q \in Call
      /\ q.snapshot = p.snapshot /\ q.visited = p.visited \cup {p.in} /\ q.parked = K
      /\ q.state # "idle" /\ InStep(q)
  <2>1. q = Advance([p EXCEPT !.visited = p.visited \cup {p.in}, !.parked = K])
    BY DEF Parked
  <2> HIDE DEF K, q
  <2> QED BY <1>1, <1>5, <2>1, HandledCall
<1> HIDE DEF q
<1>7. dlqs' \in [Dlqs -> [Calls -> Nat]]
  BY <1>2, <1>4 DEF TypeOK
<1>8. \A e \in Dlqs : dlqs'[e][c] = Cardinality({g \in q.parked : subs[g].dlq = e})
  <2> TAKE e \in Dlqs
  <2> DEFINE before == {g \in p.parked : subs[g].dlq = e}
             after == {g \in K : subs[g].dlq = e}
  <2>1. IsFiniteSet(before) /\ h \notin before
    BY <1>1, <1>5, HandlersAreNats
  <2>2. CASE e = d
    <3>1. after = before \cup {h}
      BY <2>2
    <3>2. Cardinality(after) = Cardinality(before) + 1
      BY <2>1, <3>1, FS_AddElement
    <3>3. dlqs'[e][c] = dlqs[e][c] + 1
      BY <1>2, <1>4, <2>2 DEF TypeOK
    <3> QED BY <1>3, <1>6, <3>2, <3>3
  <2>3. CASE e # d
    <3>1. after = before
      BY <2>3
    <3>2. dlqs'[e][c] = dlqs[e][c]
      BY <1>2, <1>4, <2>3 DEF TypeOK
    <3> QED BY <1>3, <1>6, <3>1, <3>2
  <2> QED BY <2>2, <2>3
<1>9. \A e \in Dlqs, a \in Calls : a # c => dlqs'[e][a] = dlqs[e][a]
  BY <1>2, <1>4 DEF TypeOK
<1>10. /\ q.snapshot \subseteq 1..made /\ q.parked \subseteq q.visited /\ q.visited \subseteq q.snapshot
  BY <1>1, <1>6
<1> QED BY <1>2, <1>6, <1>7, <1>8, <1>9, <1>10, CallStep

LEMMA RaiseKeepsIInv ==
    ASSUME NEW c \in Calls, IInv, Raise(c) \/ CancelPublish(c)
    PROVE  IInv'
<1> USE DEF IInv
<1> DEFINE p == pub[c]
           q == [p EXCEPT !.state = "raised", !.in = NoHandler]
<1>1. /\ p \in Call /\ p.parked \subseteq p.visited /\ p.visited \subseteq p.snapshot
      /\ p.snapshot \subseteq 1..made
  BY DEF TypeOK, Call, CallsProgress, NamesMade
<1>2. /\ pub' = [pub EXCEPT ![c] = q]
      /\ UNCHANGED <<subscriptions, subscription_ids, next_sub_id, dlqs, made, subs, resets>>
  BY DEF Raise, CancelPublish
<1>3. \A d \in Dlqs : dlqs[d][c] = Cardinality({h \in p.parked : subs[h].dlq = d})
  BY DEF ParkedExactly
<1> HIDE DEF p
<1>4. /\ q \in Call /\ q.state = "raised" /\ q.snapshot = p.snapshot
      /\ q.visited = p.visited /\ q.parked = p.parked /\ InStep(q)
  BY <1>1 DEF Call, InStep
<1> HIDE DEF q
<1>5. dlqs' \in [Dlqs -> [Calls -> Nat]]
  BY <1>2 DEF TypeOK
<1> QED BY <1>1, <1>2, <1>3, <1>4, <1>5, CallStep

-----------------------------------------------------------------------------
(* The theorems. *)

\* The named parts hold at every moment of every behaviour of the bus: subscribe(),
\* unsubscribe(), publish() and reset() interleaved in every way.
THEOREM Safety == Spec => []IInv
<1>1. IInv /\ [Next]_vars => IInv'
  <2> SUFFICES ASSUME IInv, [Next]_vars PROVE IInv'
    OBVIOUS
  <2>1. ASSUME NEW t \in Topics, NEW d \in Dlqs \cup {NoDlq}, Subscribe(t, d) PROVE IInv'
    BY <2>1, SubscribeKeepsIInv
  <2>2. ASSUME NEW i \in Handler, Unsubscribe(i) PROVE IInv'
    BY <2>2, UnsubscribeKeepsIInv
  <2>3. CASE UnsubscribeAll
    BY <2>3, UnsubscribeAllKeepsIInv
  <2>4. CASE Reset
    BY <2>4, ResetKeepsIInv
  <2>5. ASSUME NEW c \in Calls, NEW t \in Topics, Publish(c, t) PROVE IInv'
    BY <2>5, PublishKeepsIInv
  <2>6. ASSUME NEW c \in Calls, Handled(c) PROVE IInv'
    BY <2>6, HandledKeepsIInv
  <2>7. ASSUME NEW c \in Calls, Park(c) PROVE IInv'
    BY <2>7, ParkKeepsIInv
  <2>8. ASSUME NEW c \in Calls, Raise(c) \/ CancelPublish(c) PROVE IInv'
    BY <2>8, RaiseKeepsIInv
  <2>9. CASE UNCHANGED vars
    BY <2>9 DEF vars, IInv, TypeOK, NamesMade, IdsStandForOwners, NumbersCounted, IndexesAgree,
                IdsNotReused, CallsProgress, FanOutComplete, ParkedExactly
  <2> QED BY <2>1, <2>2, <2>3, <2>4, <2>5, <2>6, <2>7, <2>8, <2>9 DEF Next
<1> QED BY <1>1, InitIInv, PTL DEF Spec

\* The variables of the bus keep their types.
THEOREM TypeCorrect == Spec => []TypeOK
<1>1. IInv => TypeOK
  BY DEF IInv
<1> QED BY <1>1, Safety, PTL

\* The handler lists of the topics and the map from ids to handlers name the same handlers,
\* however subscribing, unsubscribing and resets fall into a fan-out.
THEOREM Indexes == Spec => []IndexesAgree
<1>1. IInv => IndexesAgree
  BY DEF IInv
<1> QED BY <1>1, Safety, PTL

\* Between two resets no subscription id is given out twice.
THEOREM IdsAreFresh == Spec => []IdsNotReused
<1>1. IInv => IdsNotReused
  BY DEF IInv
<1> QED BY <1>1, Safety, PTL

\* A publish() that returns has been through exactly the handlers subscribed when it began.
THEOREM FanOut == Spec => []FanOutComplete
<1>1. IInv => FanOutComplete
  BY DEF IInv
<1> QED BY <1>1, Safety, PTL

\* A dead-letter queue holds an event once for every handler of that queue that failed on it.
THEOREM DeadLetters == Spec => []ParkedExactly
<1>1. IInv => ParkedExactly
  BY DEF IInv
<1> QED BY <1>1, Safety, PTL
=============================================================================
