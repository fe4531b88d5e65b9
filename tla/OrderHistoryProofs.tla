-------------------------- MODULE OrderHistoryProofs --------------------------
(***************************************************************************)
(* Proofs about OrderManager, continued: what the manager reports of an    *)
(* order (its history, its venue id, its cancelations) agrees with what    *)
(* happened to the order, although a report is written in another lock     *)
(* section than the change, with any calls in between.                     *)
(***************************************************************************)
EXTENDS OrderManagerProofs, FiniteSetTheorems

-----------------------------------------------------------------------------
(* Counting events.  K is a set of events.                                 *)

Stored(id, K) == {i \in DOMAIN events[id] : events[id][i] \in K}
Waits(id, K) == {t \in Tasks : /\ At(t, "event") /\ arg[t].id = id
                               /\ arg[t].ev \in K}
Tally(id, K) == Cardinality(Stored(id, K)) + Cardinality(Waits(id, K))

\* The tasks about to store an event.
Busy == {t \in Tasks : At(t, "event")}

\* The events that end an order of quantity q, and the fills of its unit n.
Ends(q) == {e \in Event : IF e.kind = "Filled" THEN e.cum = q
                                               ELSE e.kind \in Terminal}
Covering(n) == {e \in Event : e.kind = "Filled" /\ e.cum - e.qty < n /\ n <= e.cum}

Exact(id, qty, filled, closed) ==
  /\ \A n \in 1 .. qty : Tally(id, Covering(n)) = IF n <= filled THEN 1 ELSE 0
  /\ Tally(id, Ends(qty)) = IF closed THEN 1 ELSE 0

\* A step of task t leaves the other tasks alone.
OthersStay(t) == \A u \in Tasks \ {t} : pc'[u] = pc[u] /\ arg'[u] = arg[u]

LEMMA StoredFinite ==
  ASSUME NEW id, NEW K, events[id] \in Seq(Event)
  PROVE  IsFiniteSet(Stored(id, K))
<1>1. DOMAIN events[id] = 1 .. Len(events[id]) /\ Len(events[id]) \in Nat
  OBVIOUS
<1>2. 1 \in Int /\ Len(events[id]) \in Int BY <1>1
<1>3. IsFiniteSet(1 .. Len(events[id])) BY <1>2, FS_Interval
<1>4. Stored(id, K) \subseteq 1 .. Len(events[id]) BY <1>1 DEF Stored
<1> QED BY <1>3, <1>4, FS_Subset

LEMMA WaitsFinite ==
  ASSUME NEW id, NEW K, IsFiniteSet(Busy)
  PROVE  IsFiniteSet(Waits(id, K))
<1>1. Waits(id, K) \subseteq Busy BY DEF Waits, Busy
<1> QED BY <1>1, FS_Subset

\* The tasks waiting with an event of id, when t stops or starts to wait.
LEMMA WaitsChange ==
  ASSUME NEW t \in Tasks, OthersStay(t), NEW id, NEW K
  PROVE  /\ Waits(id, K) \ {t} = Waits(id, K)' \ {t}
         /\ t \in Waits(id, K) <=> /\ pc[t] = "event" /\ arg[t].id = id
                                   /\ arg[t].ev \in K
         /\ t \in Waits(id, K)' <=> /\ pc'[t] = "event" /\ arg'[t].id = id
                                    /\ arg'[t].ev \in K
         /\ Busy \ {t} = Busy' \ {t}
BY DEF OthersStay, Waits, Busy, At

LEMMA OneMore ==
  ASSUME NEW S, NEW T, NEW t, IsFiniteSet(S), S \ {t} = T \ {t}
  PROVE  /\ IsFiniteSet(T) /\ Cardinality(S) \in Nat /\ Cardinality(T) \in Nat
         /\ (t \in S <=> t \in T) => Cardinality(T) = Cardinality(S)
         /\ t \notin S /\ t \in T => Cardinality(T) = Cardinality(S) + 1
         /\ t \in S /\ t \notin T => Cardinality(S) = Cardinality(T) + 1
<1>1. IsFiniteSet(S \ {t}) BY FS_Subset
<1>2. CASE t \in S /\ t \in T
  <2>1. S = T BY <1>2
  <2> QED BY <1>2, <2>1, FS_CardinalityType
<1>3. CASE t \notin S /\ t \notin T
  <2>1. S = T BY <1>3
  <2> QED BY <1>3, <2>1, FS_CardinalityType
<1>4. CASE t \notin S /\ t \in T
  <2>1. T = S \cup {t} BY <1>4
  <2>2. IsFiniteSet(T) /\ Cardinality(T) = Cardinality(S) + 1
    BY <1>4, <2>1, FS_AddElement
  <2>3. Cardinality(S) \in Nat BY FS_CardinalityType
  <2> QED BY <1>4, <2>2, <2>3
<1>5. CASE t \in S /\ t \notin T
  <2>1. S = T \cup {t} /\ T = S \ {t} BY <1>5
  <2>2. IsFiniteSet(T) /\ Cardinality(S) = Cardinality(T) + 1
    BY <1>1, <1>5, <2>1, FS_AddElement
  <2>3. Cardinality(T) \in Nat BY <2>2, FS_CardinalityType
  <2> QED BY <1>5, <2>2, <2>3
<1> QED BY <1>2, <1>3, <1>4, <1>5

\* No event is stored, and t waits with an event neither before nor after.
LEMMA TallyStays ==
  ASSUME NEW t \in Tasks, OthersStay(t), IsFiniteSet(Busy), NEW id, NEW K,
         events'[id] = events[id], pc[t] # "event", pc'[t] # "event"
  PROVE  Tally(id, K)' = Tally(id, K)
<1>1. Waits(id, K)' = Waits(id, K) BY WaitsChange
<1>2. Stored(id, K)' = Stored(id, K) BY DEF Stored
<1> QED BY <1>1, <1>2 DEF Tally

\* t starts to wait with event e of order id.
LEMMA TallyEmit ==
  ASSUME NEW t \in Tasks, OthersStay(t), IsFiniteSet(Busy), NEW i, NEW K,
         events[i] \in Seq(Event), events'[i] = events[i],
         NEW id, NEW e, pc[t] # "event", pc'[t] = "event",
         arg'[t].id = id, arg'[t].ev = e
  PROVE  /\ Tally(i, K) \in Nat
         /\ Tally(i, K)' = Tally(i, K) + IF i = id /\ e \in K THEN 1 ELSE 0
<1>1. Stored(i, K)' = Stored(i, K) BY DEF Stored
<1>2. IsFiniteSet(Stored(i, K)) /\ Cardinality(Stored(i, K)) \in Nat
  BY StoredFinite, FS_CardinalityType
<1> DEFINE S == Waits(i, K)
           T == Waits(i, K)'
<1>3. /\ S \ {t} = T \ {t} /\ t \notin S
      /\ t \in T <=> (i = id /\ e \in K)
  BY WaitsChange
<1>4. IsFiniteSet(S) BY WaitsFinite
<1>5. Tally(i, K) = Cardinality(Stored(i, K)) + Cardinality(S)
      /\ Tally(i, K)' = Cardinality(Stored(i, K)) + Cardinality(T)
  BY <1>1 DEF Tally
<1> HIDE DEF S, T
<1>6. /\ Cardinality(S) \in Nat
      /\ Cardinality(T) = Cardinality(S) + IF i = id /\ e \in K THEN 1 ELSE 0
  BY <1>3, <1>4, OneMore
<1> QED BY <1>2, <1>5, <1>6

\* The event t waits with is stored.
LEMMA TallyStore ==
  ASSUME NEW t \in Tasks, OthersStay(t), IsFiniteSet(Busy), NEW i \in Ids, NEW K,
         events \in [Ids -> Seq(Event)], NEW id \in Ids, NEW e \in Event,
         pc[t] = "event", arg[t].id = id, arg[t].ev = e, pc'[t] # "event",
         events' = [events EXCEPT ![id] = Append(@, e)]
  PROVE  Tally(i, K)' = Tally(i, K)
<1>1. /\ Waits(i, K) \ {t} = Waits(i, K)' \ {t} /\ t \notin Waits(i, K)'
      /\ t \in Waits(i, K) <=> (i = id /\ e \in K)
  BY WaitsChange
<1> DEFINE S == Waits(i, K)
           T == Waits(i, K)'
           A == Stored(i, K)
           B == Stored(i, K)'
           n == Len(events[id]) + 1
<1>2. IsFiniteSet(S) BY WaitsFinite
<1>3. IsFiniteSet(A) BY StoredFinite
<1>4. /\ (A \ {n} = B \ {n} /\ n \notin A) \/ i # id
      /\ i # id => A = B
      /\ i = id => (n \in B <=> e \in K)
  <2>1. i # id => events'[i] = events[i] OBVIOUS
  <2>2. /\ events[id] \in Seq(Event) /\ events'[id] = Append(events[id], e)
        /\ Len(events[id]) \in Nat
        /\ DOMAIN events[id] = 1 .. Len(events[id])
        /\ DOMAIN events'[id] = 1 .. Len(events[id]) + 1
        /\ \A j \in DOMAIN events[id] : events'[id][j] = events[id][j]
        /\ events'[id][Len(events[id]) + 1] = e
    OBVIOUS
  <2>3. /\ n \notin DOMAIN events[id]
        /\ \A j : j \in DOMAIN events'[id] <=> j \in DOMAIN events[id] \/ j = n
    BY <2>2
  <2>4. i = id => A \ {n} = B \ {n} /\ n \notin A /\ (n \in B <=> e \in K)
    BY <2>2, <2>3 DEF Stored
  <2> QED BY <2>1, <2>4 DEF Stored
<1>5. Tally(i, K) = Cardinality(A) + Cardinality(S)
      /\ Tally(i, K)' = Cardinality(B) + Cardinality(T)
  BY DEF Tally
<1>6. S \ {t} = T \ {t} /\ t \notin T /\ (t \in S <=> (i = id /\ e \in K))
  BY <1>1
<1> HIDE DEF S, T, A, B, n
<1>7. /\ Cardinality(S) \in Nat /\ Cardinality(T) \in Nat
      /\ i = id /\ e \in K => Cardinality(S) = Cardinality(T) + 1
      /\ ~(i = id /\ e \in K) => Cardinality(S) = Cardinality(T)
  BY <1>2, <1>6, OneMore
<1>8. /\ Cardinality(A) \in Nat /\ Cardinality(B) \in Nat
      /\ i = id /\ e \in K => Cardinality(B) = Cardinality(A) + 1
      /\ ~(i = id /\ e \in K) => Cardinality(B) = Cardinality(A)
  <2>1. CASE i = id BY <1>3, <1>4, <2>1, OneMore
  <2>2. CASE i # id BY <1>3, <1>4, <2>2, FS_CardinalityType
  <2> QED BY <2>1, <2>2
<1> QED BY <1>5, <1>7, <1>8

-----------------------------------------------------------------------------
(* The invariants.  A step reports only an order that was inserted, the    *)
(* venue's id of an order is mapped before the order carries it, and the   *)
(* events told of an order add up to what became of it.                    *)

AfterInsert == {"index_instrument", "index_strategy", "event", "map_venue", "accept"}

SentInv ==
  /\ \A id \in Ids : Live(id) \/ events[id] # <<>> => inserts[id] > 0
  /\ \A t \in Tasks : /\ pc[t] \in AfterInsert => inserts[arg[t].id] > 0
                      /\ \A id \in arg[t].canceled : inserts[id] > 0

Mapped(id) == venueToClient[VenueIdOf[id]] = id

VenueInv ==
  /\ \A id \in Ids : FreshLive(id) =>
       \/ orders[id].venue = None
       \/ orders[id].venue = VenueIdOf[id] /\ Mapped(id)
  /\ \A t \in Tasks : pc[t] = "accept" /\ FreshLive(arg[t].id) => Mapped(arg[t].id)

ClearInv ==
  \A t \in Tasks : pc[t] = "clear_events" => \A id \in arg[t].todo : ~Live(id)

HistInv ==
  /\ IsFiniteSet(Busy)
  /\ \A id \in Ids : FreshLive(id) =>
       Exact(id, orders[id].qty, orders[id].filled, IsClosed(id))

-----------------------------------------------------------------------------
(* The shapes a step of task t can have.                                   *)

\* What is mapped of the orders that stay is still mapped, and a task that
\* goes on to accept an order has just mapped it.
MapKept(t) ==
  /\ \A id \in Ids : Live(id)' /\ Mapped(id) => Mapped(id)'
  /\ pc'[t] = "accept" => Mapped(arg[t].id)' /\ arg'[t].id = arg[t].id

\* Orders are removed at most, and no event is on its way.
Fades(t) ==
  /\ OthersStay(t) /\ MapKept(t) /\ inserts' = inserts
  /\ pc[t] # "event" /\ pc'[t] # "event"
  /\ \A id \in Ids : /\ orders'[id] \in {None, orders[id]}
                     /\ events'[id] \in {<<>>, events[id]}
                     /\ Live(id)' => events'[id] = events[id]
  /\ arg'[t].canceled \subseteq arg[t].canceled
  /\ pc'[t] \in AfterInsert => inserts[arg'[t].id] > 0
  /\ pc'[t] = "clear_events" => \A id \in arg'[t].todo : ~Live(id)'

\* Event e tells that order o has become p.
Tells(o, p, e) ==
  /\ p.qty = o.qty
  /\ \/ /\ e.kind # "Filled" /\ p.filled = o.filled
        /\ e.kind \in Terminal <=> p.status \in Terminal
     \/ /\ e.kind = "Filled" /\ e.cum = p.filled /\ p.filled = o.filled + e.qty
        /\ p.filled = p.qty <=> p.status \in Terminal

\* Order id becomes o in the section that t has just left.
Changes(t, id, o, e) ==
  /\ Live(id) /\ ~IsClosed(id) /\ Tells(orders[id], o, e)
  /\ orders' = [orders EXCEPT ![id] = o]
  /\ \/ o.venue = orders[id].venue
     \/ o.venue = VenueIdOf[id] /\ pc[t] = "accept" /\ arg[t].id = id
  /\ \/ arg'[t].canceled = arg[t].canceled
     \/ o.status = "Canceled" /\ arg'[t].canceled = arg[t].canceled \cup {id}

\* Task t is to store event e of order id.
Emits(t, id, e) ==
  /\ OthersStay(t) /\ UNCHANGED <<inserts, events, venueToClient>>
  /\ pc[t] # "event" /\ pc'[t] = "event" /\ arg'[t].id = id /\ arg'[t].ev = e
  /\ \/ /\ e.kind = "Initialized" /\ UNCHANGED orders /\ inserts[id] > 0
        /\ arg'[t].canceled = arg[t].canceled
     \/ \E o \in GoodOrder : Changes(t, id, o, e)

\* Goto, Return and Begin leave the other tasks alone.
LEMMA MoveShape ==
  ASSUME CallsInv, NEW t \in Tasks, NEW step, NEW a,
         pc' = [pc EXCEPT ![t] = step], arg' = [arg EXCEPT ![t] = a]
  PROVE  OthersStay(t) /\ pc'[t] = step /\ arg'[t] = a
BY DEF CallsInv, OthersStay

\* A section that changes nothing but where its task is.
LEMMA IdleFades ==
  ASSUME CallsInv, BookType, SentInv, NEW t \in Tasks, NEW step, NEW a,
         UNCHANGED <<orders, events, inserts, venueToClient>>,
         pc' = [pc EXCEPT ![t] = step], arg' = [arg EXCEPT ![t] = a],
         pc[t] # "event",
         step \notin {"event", "accept", "clear_events"},
         step \in AfterInsert => inserts[a.id] > 0,
         a.canceled \subseteq arg[t].canceled
  PROVE  Fades(t)
<1>1. OthersStay(t) /\ pc'[t] = step /\ arg'[t] = a
  BY MoveShape
<1>2. MapKept(t)
  BY <1>1 DEF MapKept, Mapped
<1> QED BY <1>1, <1>2 DEF Fades, Live

LEMMA BeginFades ==
  ASSUME TypeInv, SentInv, NEW t \in Tasks, NEW step, NEW a, Begin(t, step, a),
         a.canceled = {}, step \notin {"event", "accept", "clear_events"},
         step \in AfterInsert => inserts[a.id] > 0
  PROVE  Fades(t)
BY IdleFades DEF TypeInv, Begin, At, book

LEMMA CallFades ==
  ASSUME TypeInv, SentInv, NEW t \in Tasks, Call(t)
  PROVE  Fades(t)
<1>1. CASE CallSubmit(t)
  <2>1. PICK id \in Ids, inst \in Instruments, strat \in Strategies, q \in Quantities :
          Begin(t, "duplicate", [NoArg EXCEPT !.id = id, !.inst = inst,
                                              !.strat = strat, !.qty = q])
    BY <1>1 DEF CallSubmit
  <2> DEFINE a == [NoArg EXCEPT !.id = id, !.inst = inst, !.strat = strat, !.qty = q]
  <2>2. a.canceled = {}
    BY DEF NoArg
  <2>3. Begin(t, "duplicate", a) BY <2>1
  <2> HIDE DEF a
  <2> QED BY <2>2, <2>3, BeginFades DEF AfterInsert
<1>2. CASE CallTransition(t)
  <2>1. PICK id \in Ids, kind \in Transitions :
          Begin(t, "transition", [NoArg EXCEPT !.id = id, !.kind = kind])
    BY <1>2 DEF CallTransition
  <2> DEFINE a == [NoArg EXCEPT !.id = id, !.kind = kind]
  <2>2. a.canceled = {} BY DEF NoArg
  <2>3. Begin(t, "transition", a) BY <2>1
  <2> HIDE DEF a
  <2> QED BY <2>2, <2>3, BeginFades DEF AfterInsert
<1>3. CASE CallAccept(t)
  <2>1. PICK id \in Ids : Sent(id) /\ Begin(t, "map_venue", [NoArg EXCEPT !.id = id])
    BY <1>3 DEF CallAccept
  <2> DEFINE a == [NoArg EXCEPT !.id = id]
  <2>2. /\ a.canceled = {}
        /\ inserts[a.id] > 0
    BY <2>1 DEF NoArg, Sent
  <2>3. Begin(t, "map_venue", a) BY <2>1
  <2> HIDE DEF a
  <2> QED BY <2>2, <2>3, BeginFades
<1>4. CASE CallFill(t)
  <2>1. PICK id \in Ids, q \in FillQuantities :
          Begin(t, "fill", [NoArg EXCEPT !.id = id, !.qty = q])
    BY <1>4 DEF CallFill
  <2> DEFINE a == [NoArg EXCEPT !.id = id, !.qty = q]
  <2>2. a.canceled = {} BY DEF NoArg
  <2>3. Begin(t, "fill", a) BY <2>1
  <2> HIDE DEF a
  <2> QED BY <2>2, <2>3, BeginFades DEF AfterInsert
<1>5. CASE CallCancelAll(t)
  <2>1. PICK inst \in Instruments \cup {None} :
          Begin(t, "snapshot", [NoArg EXCEPT !.inst = inst, !.sweeping = TRUE])
    BY <1>5 DEF CallCancelAll
  <2> DEFINE a == [NoArg EXCEPT !.inst = inst, !.sweeping = TRUE]
  <2>2. a.canceled = {} BY DEF NoArg
  <2>3. Begin(t, "snapshot", a) BY <2>1
  <2> HIDE DEF a
  <2> QED BY <2>2, <2>3, BeginFades DEF AfterInsert
<1>6. CASE CallClear(t) \/ CallReset(t)
  <2>1. NoArg.canceled = {} BY DEF NoArg
  <2> QED BY <1>6, <2>1, BeginFades DEF CallClear, CallReset, AfterInsert
<1>7. CASE CallLookup(t)
  <2>1. PICK l \in Lookups, id \in Ids :
          Begin(t, "lookup", [NoArg EXCEPT !.kind = l, !.id = id])
    BY <1>7 DEF CallLookup
  <2> DEFINE a == [NoArg EXCEPT !.kind = l, !.id = id]
  <2>2. a.canceled = {} BY DEF NoArg
  <2>3. Begin(t, "lookup", a) BY <2>1
  <2> HIDE DEF a
  <2> QED BY <2>2, <2>3, BeginFades DEF AfterInsert
<1> QED BY <1>1, <1>2, <1>3, <1>4, <1>5, <1>6, <1>7 DEF Call

\* A section after which its task stands at step, with the same arguments or
\* with none.
LEMMA GotoFades ==
  ASSUME TypeInv, SentInv, NEW t \in Tasks, pc[t] # "event",
         UNCHANGED <<orders, events, inserts, venueToClient>>,
         \/ Return(t)
         \/ \E step : /\ Goto(t, step) /\ UNCHANGED arg
                      /\ step \notin {"event", "accept", "clear_events"}
                      /\ step \in AfterInsert => inserts[arg[t].id] > 0
  PROVE  Fades(t)
<1>0. CallsInv /\ BookType BY DEF TypeInv
<1>1. CASE Return(t)
  <2>1. NoArg.canceled = {} BY DEF NoArg
  <2> QED BY <1>0, <1>1, <2>1, IdleFades DEF Return, Goto, AfterInsert
<1>2. CASE \E step : /\ Goto(t, step) /\ UNCHANGED arg
                     /\ step \notin {"event", "accept", "clear_events"}
                     /\ step \in AfterInsert => inserts[arg[t].id] > 0
  <2>1. arg' = [arg EXCEPT ![t] = arg[t]] BY <1>0, <1>2 DEF CallsInv
  <2> QED BY <1>0, <1>2, <2>1, IdleFades DEF Goto
<1> QED BY <1>1, <1>2

LEMMA CheckFades ==
  ASSUME TypeInv, SentInv, NEW t \in Tasks,
         \/ CheckDuplicate(t) \/ CheckMaxOpen(t) \/ LockSymbolIndex(t)
         \/ CheckSymbol(t) \/ CheckSession(t) \/ Lookup(t) \/ CancelAllDone(t)
         \/ IndexInstrument(t)
  PROVE  Fades(t)
<1>1. UNCHANGED <<orders, events, inserts, venueToClient>> /\ pc[t] # "event"
  BY DEF CheckDuplicate, CheckMaxOpen, LockSymbolIndex, CheckSymbol, CheckSession,
         Lookup, LockIndex, ReadOrders, CancelAllDone, IndexInstrument, At, book
<1>2. CASE IndexInstrument(t)
  <2>1. inserts[arg[t].id] > 0
    BY <1>2 DEF IndexInstrument, At, SentInv, AfterInsert
  <2>2. Goto(t, "index_strategy") /\ UNCHANGED arg BY <1>2 DEF IndexInstrument
  <2> QED BY <1>1, <2>1, <2>2, GotoFades
<1>3. CASE ~IndexInstrument(t)
  <2>1. \/ Return(t)
        \/ \E step \in Steps \ (AfterInsert \cup {"clear_events"}) :
             Goto(t, step) /\ UNCHANGED arg
    BY <1>3 DEF CheckDuplicate, CheckMaxOpen, LockSymbolIndex, CheckSymbol,
                CheckSession, Lookup, LockIndex, ReadOrders, CancelAllDone,
                Steps, AfterInsert
  <2> QED BY <1>1, <2>1, GotoFades DEF AfterInsert
<1> QED BY <1>2, <1>3

LEMMA SnapshotFades ==
  ASSUME TypeInv, SentInv, NEW t \in Tasks, SnapshotCancelable(t)
  PROVE  Fades(t)
<1>0. CallsInv /\ BookType /\ arg[t] \in Arg BY DEF TypeInv, CallsInv
<1>1. PICK s : arg' = [arg EXCEPT ![t].todo = s] BY DEF SnapshotCancelable
<1> DEFINE a == [arg[t] EXCEPT !.todo = s]
<1>2. a.canceled = arg[t].canceled BY <1>0 DEF Arg
<1>3. arg' = [arg EXCEPT ![t] = a] BY <1>0, <1>1 DEF CallsInv
<1> HIDE DEF a
<1> QED BY <1>0, <1>2, <1>3, IdleFades
        DEF SnapshotCancelable, Goto, At, book, AfterInsert

\* clear_closed_orders: what it takes away is closed, and what it forgets of
\* an order it has taken away before.
LEMMA ClearFades ==
  ASSUME TypeInv, SentInv, ClearInv, NEW t \in Tasks, ClearClosed(t)
  PROVE  Fades(t)
<1>0. CallsInv /\ BookType /\ arg[t] \in Arg BY DEF TypeInv, CallsInv
<1>1. CASE ClearOrders(t)
  <2> DEFINE closed == {id \in Ids : IsClosed(id)}
             a == [arg[t] EXCEPT !.todo = closed]
  <2>1. a.canceled = arg[t].canceled /\ a.todo = closed BY <1>0 DEF Arg
  <2>2. arg' = [arg EXCEPT ![t] = a] /\ pc' = [pc EXCEPT ![t] = "clear_events"]
    BY <1>0, <1>1 DEF ClearOrders, Goto, CallsInv
  <2>3. \A id \in Ids : orders'[id] = IF id \in closed THEN None ELSE orders[id]
    BY <1>1 DEF ClearOrders
  <2>4. UNCHANGED <<events, inserts, venueToClient>> /\ pc[t] # "event"
    BY <1>1 DEF ClearOrders, At
  <2> HIDE DEF a
  <2>5. OthersStay(t) /\ pc'[t] = "clear_events" /\ arg'[t] = a
    BY <1>0, <2>2, MoveShape
  <2>6. MapKept(t) BY <2>4, <2>5 DEF MapKept, Mapped
  <2>7. \A id \in arg'[t].todo : ~Live(id)' BY <2>1, <2>3, <2>5 DEF Live
  <2> QED BY <2>1, <2>3, <2>4, <2>5, <2>6, <2>7 DEF Fades, AfterInsert
<1>2. CASE ClearEvents(t)
  <2>1. /\ UNCHANGED <<orders, inserts, venueToClient>> /\ pc[t] = "clear_events"
        /\ pc' = [pc EXCEPT ![t] = "idle"] /\ arg' = [arg EXCEPT ![t] = NoArg]
        /\ \A id \in Ids : events'[id] = IF id \in arg[t].todo THEN <<>> ELSE events[id]
    BY <1>2 DEF ClearEvents, Return, Goto, At
  <2>2. OthersStay(t) /\ pc'[t] = "idle" /\ arg'[t] = NoArg
    BY <1>0, <2>1, MoveShape
  <2>3. MapKept(t) BY <2>1, <2>2 DEF MapKept, Mapped
  <2>4. \A id \in arg[t].todo : ~Live(id) BY <2>1 DEF ClearInv
  <2>5. NoArg.canceled = {} BY DEF NoArg
  <2> QED BY <2>1, <2>2, <2>3, <2>4, <2>5 DEF Fades, AfterInsert, Live
<1> QED BY <1>1, <1>2 DEF ClearClosed

\* reset: there is no order from its first section to its last.
LEMMA ResetFades ==
  ASSUME TypeInv, SentInv, NoOrderInReset, NEW t \in Tasks, Reset(t)
  PROVE  Fades(t)
<1>0. CallsInv /\ BookType BY DEF TypeInv
<1>1. /\ \A id \in Ids : orders'[id] = None
      /\ UNCHANGED inserts /\ pc[t] # "event"
  BY DEF Reset, ResetOrders, ResetVenue, ResetInstrument, ResetStrategy,
         ResetEvents, NoOrderInReset, ResetSteps, Live, At
<1>2. \A id \in Ids : events'[id] \in {<<>>, events[id]}
  BY DEF Reset, ResetOrders, ResetVenue, ResetInstrument, ResetStrategy, ResetEvents
<1>3. \E step, a : /\ pc' = [pc EXCEPT ![t] = step]
                   /\ arg' = [arg EXCEPT ![t] = a]
                   /\ step \notin AfterInsert \cup {"clear_events"}
                   /\ a.canceled \subseteq arg[t].canceled
  <2>1. CASE ResetEvents(t)
    <3>1. NoArg.canceled = {} BY DEF NoArg
    <3> QED BY <2>1, <3>1 DEF ResetEvents, Return, Goto, AfterInsert
  <2>2. CASE ~ResetEvents(t)
    <3>1. arg' = [arg EXCEPT ![t] = arg[t]]
      BY <1>0, <2>2 DEF Reset, ResetOrders, ResetVenue, ResetInstrument,
                        ResetStrategy, CallsInv
    <3>2. \E step \in ResetSteps : pc' = [pc EXCEPT ![t] = step]
      BY <2>2 DEF Reset, ResetOrders, ResetVenue, ResetInstrument,
                  ResetStrategy, ResetSteps, Goto
    <3> QED BY <3>1, <3>2 DEF ResetSteps, AfterInsert
  <2> QED BY <2>1, <2>2
<1>4. PICK step, a : /\ pc' = [pc EXCEPT ![t] = step]
                     /\ arg' = [arg EXCEPT ![t] = a]
                     /\ step \notin AfterInsert \cup {"clear_events"}
                     /\ a.canceled \subseteq arg[t].canceled
  BY <1>3
<1>5. OthersStay(t) /\ pc'[t] = step /\ arg'[t] = a
  BY <1>0, <1>4, MoveShape
<1>6. MapKept(t) BY <1>1, <1>4, <1>5 DEF MapKept, Live, AfterInsert
<1> QED BY <1>1, <1>2, <1>4, <1>5, <1>6 DEF Fades, Live, AfterInsert

\* The venue ids of two orders differ, so mapping one keeps the other's.
LEMMA MapVenueFades ==
  ASSUME TypeInv, SentInv, NEW t \in Tasks, MapVenue(t)
  PROVE  Fades(t)
<1> DEFINE id == arg[t].id
<1>0. CallsInv /\ BookType /\ id \in Ids
  BY DEF TypeInv, CallsInv, MapVenue, At, WellFormed, IdSteps
<1>1. /\ UNCHANGED <<orders, events, inserts>> /\ pc[t] = "map_venue"
      /\ pc' = [pc EXCEPT ![t] = "accept"] /\ arg' = [arg EXCEPT ![t] = arg[t]]
      /\ venueToClient' = [venueToClient EXCEPT ![VenueIdOf[id]] = id]
  BY <1>0 DEF MapVenue, Goto, At, CallsInv
<1>2. OthersStay(t) /\ pc'[t] = "accept" /\ arg'[t] = arg[t]
  BY <1>0, <1>1, MoveShape
<1>3. \A i \in Ids : /\ VenueIdOf[i] \in VenueIds
                     /\ VenueIdOf[i] = VenueIdOf[id] => i = id
  BY <1>0, OrderManagerAssumption
<1>4. \A i \in Ids : venueToClient'[VenueIdOf[i]]
                       = IF i = id THEN id ELSE venueToClient[VenueIdOf[i]]
  BY <1>0, <1>1, <1>3 DEF BookType
<1>5. MapKept(t)
  BY <1>0, <1>2, <1>4 DEF MapKept, Mapped
<1>6. inserts[id] > 0 BY <1>1 DEF SentInv, AfterInsert
<1> QED BY <1>1, <1>2, <1>5, <1>6 DEF Fades, Live

\* A section that writes one order and emits what it did.
LEMMA WriteEmits ==
  ASSUME TypeInv, NEW t \in Tasks, NEW id \in Ids, NEW e \in Event, NEW a,
         NEW o \in GoodOrder, pc[t] # "event",
         UNCHANGED <<inserts, events, venueToClient>>,
         pc' = [pc EXCEPT ![t] = "event"], arg' = [arg EXCEPT ![t] = a],
         a.id = id, a.ev = e,
         Live(id), ~IsClosed(id), Tells(orders[id], o, e),
         orders' = [orders EXCEPT ![id] = o],
         \/ o.venue = orders[id].venue
         \/ o.venue = VenueIdOf[id] /\ pc[t] = "accept" /\ arg[t].id = id,
         \/ a.canceled = arg[t].canceled
         \/ o.status = "Canceled" /\ a.canceled = arg[t].canceled \cup {id}
  PROVE  Emits(t, id, e)
<1>1. OthersStay(t) /\ pc'[t] = "event" /\ arg'[t] = a
  BY MoveShape DEF TypeInv
<1>2. Changes(t, id, o, e) BY <1>1 DEF Changes
<1> QED BY <1>1, <1>2 DEF Emits

\* The arguments with which a handler other than a sweep goes on to "event".
LEMMA EmitArg ==
  ASSUME TypeInv, NEW t \in Tasks, NEW e, Emit(t, e)
  PROVE  \E a : /\ pc' = [pc EXCEPT ![t] = "event"]
                /\ arg' = [arg EXCEPT ![t] = a]
                /\ a.id = arg[t].id /\ a.ev = e /\ a.canceled = arg[t].canceled
<1> DEFINE a == [arg[t] EXCEPT !.ev = e]
<1>1. arg[t] \in Arg BY DEF TypeInv, CallsInv
<1>2. a.id = arg[t].id /\ a.ev = e /\ a.canceled = arg[t].canceled
  BY <1>1 DEF Arg
<1>3. arg' = [arg EXCEPT ![t] = a] /\ pc' = [pc EXCEPT ![t] = "event"]
  BY DEF Emit, Goto, TypeInv, CallsInv
<1> HIDE DEF a
<1> QED BY <1>2, <1>3

\* No status of an order that may still change is terminal.
LEMMA OpenTransitions ==
  ASSUME NEW o \in Order, NEW s, s \in CanTransitionTo[o.status]
  PROVE  o.status \notin Terminal
BY DEF CanTransitionTo, Order, Statuses, Terminal, OpenStatus

\* The event of a status change tells what became of the order.
LEMMA StatusTells ==
  ASSUME NEW o \in GoodOrder, NEW s \in Transitions \cup {"Accepted"},
         NEW p \in GoodOrder, p.status = s, p.qty = o.qty, p.filled = o.filled
  PROVE  Tells(o, p, Ev(s))
<1>1. s # "Filled" BY DEF Transitions
<1>2. Ev(s).kind = s BY DEF Ev
<1> QED BY <1>1, <1>2 DEF Tells

LEMMA StatusFacts ==
  ASSUME NEW o \in GoodOrder, NEW s, NEW v
  PROVE  /\ [o EXCEPT !.status = s].status = s
         /\ [o EXCEPT !.status = s].qty = o.qty
         /\ [o EXCEPT !.status = s].filled = o.filled
         /\ [o EXCEPT !.status = s].venue = o.venue
         /\ [o EXCEPT !.status = s, !.venue = v].status = s
         /\ [o EXCEPT !.status = s, !.venue = v].qty = o.qty
         /\ [o EXCEPT !.status = s, !.venue = v].filled = o.filled
         /\ [o EXCEPT !.status = s, !.venue = v].venue = v
BY DEF GoodOrder, Order

LEMMA TransitionShape ==
  ASSUME TypeInv, SentInv, NEW t \in Tasks, NEW kind \in Transitions,
         Transition(t, kind)
  PROVE  Fades(t) \/ \E id \in Ids, e \in Event : Emits(t, id, e)
<1> DEFINE id == arg[t].id
           o == [orders[id] EXCEPT !.status = kind]
<1>0. CallsInv /\ BookType /\ id \in Ids /\ pc[t] = "transition"
  BY DEF TypeInv, CallsInv, Transition, At, WellFormed, IdSteps
<1>1. CASE Allowed(id, kind)
  <2>1. Live(id) /\ orders[id] \in GoodOrder /\ orders[id] \in Order
    BY <1>0, <1>1 DEF Allowed, BookType, GoodOrder
  <2>2. o \in GoodOrder BY <1>1, <2>1, StatusType DEF Allowed
  <2>3. ~IsClosed(id) BY <1>1, <2>1, OpenTransitions DEF Allowed, IsClosed
  <2>4. orders' = [orders EXCEPT ![id] = o] /\ Emit(t, Ev(kind))
    BY <1>1 DEF Transition
  <2>5. Ev(kind) \in Event
    BY EventType DEF Kinds, Transitions, Statuses, OpenStatus, Terminal
  <2>6. o.status = kind /\ o.qty = orders[id].qty /\ o.filled = orders[id].filled
        /\ o.venue = orders[id].venue
    BY <2>1, StatusFacts
  <2>7. UNCHANGED <<inserts, events, venueToClient>> BY DEF Transition
  <2>8. PICK a : /\ pc' = [pc EXCEPT ![t] = "event"]
                 /\ arg' = [arg EXCEPT ![t] = a]
                 /\ a.id = id /\ a.ev = Ev(kind) /\ a.canceled = arg[t].canceled
    BY <2>4, EmitArg
  <2> HIDE DEF o
  <2>9. Tells(orders[id], o, Ev(kind)) BY <2>1, <2>2, <2>6, StatusTells
  <2>10. pc[t] # "event" BY <1>0
  <2>11. Emits(t, id, Ev(kind))
    BY <1>0, <2>1, <2>2, <2>3, <2>4, <2>5, <2>6, <2>7, <2>8, <2>9, <2>10, WriteEmits
  <2> QED BY <1>0, <2>5, <2>11
<1>2. CASE ~Allowed(id, kind)
  BY <1>0, <1>2, GotoFades DEF Transition
<1> QED BY <1>1, <1>2

LEMMA AcceptShape ==
  ASSUME TypeInv, SentInv, NEW t \in Tasks, MarkAccepted(t)
  PROVE  Fades(t) \/ \E id \in Ids, e \in Event : Emits(t, id, e)
<1> DEFINE id == arg[t].id
           v == VenueIdOf[id]
           o == [orders[id] EXCEPT !.status = "Accepted", !.venue = v]
           ok == Live(id) /\ "Accepted" \in CanTransitionTo[orders[id].status]
<1>0. CallsInv /\ BookType /\ id \in Ids /\ pc[t] = "accept" /\ v \in VenueIds
  BY OrderManagerAssumption
     DEF TypeInv, CallsInv, MarkAccepted, At, WellFormed, IdSteps
<1>1. CASE ok
  <2>1. Live(id) /\ orders[id] \in GoodOrder /\ orders[id] \in Order
    BY <1>0, <1>1 DEF BookType, GoodOrder
  <2>2. o \in GoodOrder BY <1>0, <1>1, <2>1, StatusType
  <2>3. ~IsClosed(id) BY <1>1, <2>1, OpenTransitions DEF IsClosed
  <2>4. orders' = [orders EXCEPT ![id] = o] /\ Emit(t, Ev("Accepted"))
    BY <1>0, <1>1 DEF MarkAccepted, BookType
  <2>5. Ev("Accepted") \in Event BY EventType DEF Kinds, Statuses, OpenStatus
  <2>6. o.status = "Accepted" /\ o.qty = orders[id].qty /\ o.venue = v
        /\ o.filled = orders[id].filled
    BY <2>1, StatusFacts
  <2>7. UNCHANGED <<inserts, events, venueToClient>> BY DEF MarkAccepted
  <2>8. PICK a : /\ pc' = [pc EXCEPT ![t] = "event"]
                 /\ arg' = [arg EXCEPT ![t] = a]
                 /\ a.id = id /\ a.ev = Ev("Accepted") /\ a.canceled = arg[t].canceled
    BY <2>4, EmitArg
  <2> HIDE DEF o
  <2>9. Tells(orders[id], o, Ev("Accepted")) BY <2>1, <2>2, <2>6, StatusTells
  <2>10. pc[t] # "event" BY <1>0
  <2>11. Emits(t, id, Ev("Accepted"))
    BY <1>0, <2>1, <2>2, <2>3, <2>4, <2>5, <2>6, <2>7, <2>8, <2>9, <2>10, WriteEmits
  <2> QED BY <1>0, <2>5, <2>11
<1>2. CASE ~ok
  BY <1>0, <1>2, GotoFades DEF MarkAccepted
<1> QED BY <1>1, <1>2

LEMMA FillShape ==
  ASSUME TypeInv, SentInv, NEW t \in Tasks, ApplyFill(t)
  PROVE  Fades(t) \/ \E id \in Ids, e \in Event : Emits(t, id, e)
<1> DEFINE id == arg[t].id
           q == arg[t].qty
           o == Filled(orders[id], q)
           e == FillEv(q, orders[id].filled + q)
           ok == Live(id) /\ ~IsClosed(id) /\ q <= orders[id].leaves
<1>0. CallsInv /\ BookType /\ id \in Ids /\ pc[t] = "fill" /\ q \in Nat
  BY DEF TypeInv, CallsInv, ApplyFill, At, WellFormed, IdSteps, Arg
<1>1. CASE ok
  <2>1. orders[id] \in GoodOrder /\ orders[id] \in Order
    BY <1>0, <1>1 DEF BookType, GoodOrder
  <2>2. o \in GoodOrder BY <1>0, <1>1, <2>1, FilledType
  <2>3. orders' = [orders EXCEPT ![id] = o] /\ Emit(t, e)
    BY <1>0, <1>1 DEF ApplyFill, BookType
  <2>4. orders[id].filled \in Nat /\ orders[id].qty \in Nat BY <2>1 DEF Order
  <2>5. e \in Event BY <1>0, <2>4, EventType
  <2>6. /\ o.venue = orders[id].venue /\ o.qty = orders[id].qty
        /\ o.filled = orders[id].filled + q
        /\ o.status = IF orders[id].qty = orders[id].filled + q
                      THEN "Filled" ELSE "PartiallyFilled"
    BY <2>1 DEF Filled, Order
  <2>7. e.kind = "Filled" /\ e.qty = q /\ e.cum = orders[id].filled + q
    BY DEF FillEv
  <2>8. UNCHANGED <<inserts, events, venueToClient>> BY DEF ApplyFill
  <2>9. PICK a : /\ pc' = [pc EXCEPT ![t] = "event"]
                 /\ arg' = [arg EXCEPT ![t] = a]
                 /\ a.id = id /\ a.ev = e /\ a.canceled = arg[t].canceled
    BY <2>3, EmitArg
  <2> HIDE DEF o, e
  <2>10. Tells(orders[id], o, e)
    BY <2>6, <2>7 DEF Tells, Terminal
  <2>11. pc[t] # "event" BY <1>0
  <2>12. Emits(t, id, e)
    BY <1>0, <1>1, <2>2, <2>3, <2>5, <2>6, <2>8, <2>9, <2>10, <2>11, WriteEmits
  <2> QED BY <1>0, <2>5, <2>12
<1>2. CASE ~ok
  BY <1>0, <1>2, GotoFades DEF ApplyFill
<1> QED BY <1>1, <1>2

LEMMA SweepShape ==
  ASSUME TypeInv, SentInv, NEW t \in Tasks, CancelNext(t)
  PROVE  Fades(t) \/ \E id \in Ids, e \in Event : Emits(t, id, e)
<1>0. CallsInv /\ BookType /\ arg[t] \in Arg /\ pc[t] = "cancel_next"
  BY DEF TypeInv, CallsInv, CancelNext, At
<1>1. PICK id \in arg[t].todo :
        IF IsCancelable(id)
        THEN /\ orders' = [orders EXCEPT ![id].status = "Canceled"]
             /\ arg' = [arg EXCEPT ![t].todo = @ \ {id}, ![t].id = id,
                                   ![t].canceled = @ \cup {id},
                                   ![t].ev = Ev("Canceled")]
             /\ Goto(t, "event")
        ELSE /\ arg' = [arg EXCEPT ![t].todo = @ \ {id}]
             /\ UNCHANGED <<orders, pc, calls>>
  BY DEF CancelNext
<1>2. id \in Ids BY <1>0 DEF Arg
<1>3. UNCHANGED <<inserts, events, venueToClient>> BY DEF CancelNext
<1>4. CASE IsCancelable(id)
  <2> DEFINE o == [orders[id] EXCEPT !.status = "Canceled"]
             e == Ev("Canceled")
             a == [arg[t] EXCEPT !.todo = @ \ {id}, !.id = id,
                                 !.canceled = @ \cup {id}, !.ev = e]
  <2>1. Live(id) /\ orders[id] \in GoodOrder /\ orders[id] \in Order
    BY <1>0, <1>2, <1>4 DEF IsCancelable, BookType, GoodOrder
  <2>2. /\ "Canceled" \in CanTransitionTo[orders[id].status]
        /\ orders[id].status \notin Terminal
    BY <1>4, <2>1 DEF IsCancelable, Cancelable, CanTransitionTo, Order, Statuses,
                      Terminal, OpenStatus
  <2>3. o \in GoodOrder BY <2>1, <2>2, StatusType DEF Transitions
  <2>4. ~IsClosed(id) BY <2>2 DEF IsClosed
  <2>5. orders' = [orders EXCEPT ![id] = o] BY <1>1, <1>4
  <2>6. e \in Event BY EventType DEF Kinds, Statuses, Terminal
  <2>7. o.status = "Canceled" /\ o.qty = orders[id].qty /\ o.venue = orders[id].venue
        /\ o.filled = orders[id].filled
    BY <2>1, StatusFacts
  <2>8. /\ pc' = [pc EXCEPT ![t] = "event"]
        /\ arg' = [arg EXCEPT ![t] = a]
    BY <1>0, <1>1, <1>4 DEF Goto, CallsInv
  <2>9. a.id = id /\ a.ev = e /\ a.canceled = arg[t].canceled \cup {id}
    BY <1>0 DEF Arg
  <2> HIDE DEF o, a
  <2>10. Tells(orders[id], o, e) BY <2>1, <2>3, <2>7, StatusTells DEF Transitions
  <2> HIDE DEF e
  <2>11. pc[t] # "event" BY <1>0
  <2>12. Emits(t, id, e)
    BY <1>2, <1>3, <2>1, <2>3, <2>4, <2>5, <2>6, <2>7, <2>8, <2>9, <2>10, <2>11,
       WriteEmits
  <2> QED BY <1>2, <2>6, <2>12
<1>5. CASE ~IsCancelable(id)
  <2> DEFINE a == [arg[t] EXCEPT !.todo = @ \ {id}]
  <2>1. a.canceled = arg[t].canceled BY <1>0 DEF Arg
  <2>2. arg' = [arg EXCEPT ![t] = a] /\ pc' = [pc EXCEPT ![t] = "cancel_next"]
    BY <1>0, <1>1, <1>5 DEF CallsInv
  <2>3. UNCHANGED orders BY <1>1, <1>5
  <2> HIDE DEF a
  <2> QED BY <1>0, <1>3, <2>1, <2>2, <2>3, IdleFades DEF AfterInsert
<1> QED BY <1>4, <1>5

LEMMA IndexStrategyShape ==
  ASSUME TypeInv, SentInv, NEW t \in Tasks, IndexStrategy(t)
  PROVE  \E id \in Ids, e \in Event : Emits(t, id, e)
<1> DEFINE id == arg[t].id
           e == Ev("Initialized")
<1>0. CallsInv /\ id \in Ids /\ pc[t] = "index_strategy"
  BY DEF TypeInv, CallsInv, IndexStrategy, At, WellFormed, IdSteps, SubmitSteps
<1>1. e \in Event /\ e.kind = "Initialized"
  BY EventType DEF Kinds, Statuses, OpenStatus, Ev
<1>2. Emit(t, e) /\ UNCHANGED <<orders, inserts, events, venueToClient>>
  BY DEF IndexStrategy
<1>3. PICK a : /\ pc' = [pc EXCEPT ![t] = "event"]
               /\ arg' = [arg EXCEPT ![t] = a]
               /\ a.id = id /\ a.ev = e /\ a.canceled = arg[t].canceled
  BY <1>2, EmitArg
<1> HIDE DEF e
<1>4. OthersStay(t) /\ pc'[t] = "event" /\ arg'[t] = a
  BY <1>0, <1>3, MoveShape
<1>5. inserts[id] > 0 BY <1>0 DEF SentInv, AfterInsert
<1>6. Emits(t, id, e) BY <1>0, <1>1, <1>2, <1>3, <1>4, <1>5 DEF Emits
<1> QED BY <1>0, <1>1, <1>6

LEMMA Shapes ==
  ASSUME TypeInv, NoOrderInReset, SentInv, ClearInv, NEW t \in Tasks,
         Call(t) \/ Continue(t)
  PROVE  \/ Fades(t) \/ InsertOrder(t) \/ StoreEvent(t)
         \/ \E id \in Ids, e \in Event : Emits(t, id, e)
<1>1. CASE Call(t) BY <1>1, CallFades
<1>2. CASE Submit(t) BY <1>2, CheckFades, IndexStrategyShape DEF Submit
<1>3. CASE ChangeStatus(t)
  BY <1>3, TransitionShape, AcceptShape, FillShape, MapVenueFades
     DEF ChangeStatus, MarkSubmitted, MarkRejected, MarkDenied, CancelOrder,
         ExpireOrder, MarkTriggered, Transitions
<1>4. CASE CancelAll(t)
  BY <1>4, SnapshotFades, SweepShape, CheckFades DEF CancelAll
<1>5. CASE ClearClosed(t) BY <1>5, ClearFades
<1>6. CASE Reset(t) BY <1>6, ResetFades
<1>7. CASE Lookup(t) BY <1>7, CheckFades
<1> QED BY <1>1, <1>2, <1>3, <1>4, <1>5, <1>6, <1>7 DEF Continue

-----------------------------------------------------------------------------
(* What the two sections with a shape of their own do.                     *)

LEMMA InsertFacts ==
  ASSUME TypeInv, NEW t \in Tasks, InsertOrder(t)
  PROVE  /\ arg[t].id \in Ids /\ OthersStay(t)
         /\ pc[t] = "insert" /\ pc'[t] = "index_instrument" /\ arg'[t] = arg[t]
         /\ UNCHANGED <<events, venueToClient>>
         /\ \A u \in Tasks : pc[u] # "clear_events"
         /\ NewOrder(arg[t]).venue = None /\ NewOrder(arg[t]).filled = 0
         /\ NewOrder(arg[t]).status = "Initialized"
         /\ \A id \in Ids :
              /\ orders'[id] = IF id = arg[t].id THEN NewOrder(arg[t]) ELSE orders[id]
              /\ inserts'[id] = IF id = arg[t].id THEN inserts[id] + 1 ELSE inserts[id]
<1>0. CallsInv /\ BookType /\ arg[t].id \in Ids /\ pc[t] = "insert"
  BY DEF TypeInv, CallsInv, InsertOrder, At, WellFormed, IdSteps, SubmitSteps
<1>1. OthersStay(t) /\ pc'[t] = "index_instrument" /\ arg'[t] = arg[t]
  BY <1>0 DEF InsertOrder, Goto, OthersStay, CallsInv
<1>2. \A u \in Tasks : pc[u] # "clear_events"
  BY <1>0 DEF InsertOrder, CanWrite, CanRead, WriteHeld, Steps
<1>3. /\ NewOrder(arg[t]).venue = None /\ NewOrder(arg[t]).filled = 0
      /\ NewOrder(arg[t]).status = "Initialized"
  BY DEF NewOrder
<1>4. \A id \in Ids :
        /\ orders'[id] = IF id = arg[t].id THEN NewOrder(arg[t]) ELSE orders[id]
        /\ inserts'[id] = IF id = arg[t].id THEN inserts[id] + 1 ELSE inserts[id]
  BY <1>0 DEF InsertOrder, BookType
<1> QED BY <1>0, <1>1, <1>2, <1>3, <1>4 DEF InsertOrder

LEMMA StoreFacts ==
  ASSUME TypeInv, NEW t \in Tasks, StoreEvent(t)
  PROVE  /\ arg[t].id \in Ids /\ arg[t].ev \in Event /\ OthersStay(t)
         /\ pc[t] = "event" /\ pc'[t] \in {"idle", "cancel_next"}
         /\ UNCHANGED <<orders, inserts, venueToClient>>
         /\ arg'[t].canceled \subseteq arg[t].canceled
         /\ events' = [events EXCEPT ![arg[t].id] = Append(@, arg[t].ev)]
<1>0. CallsInv /\ arg[t] \in Arg /\ arg[t].id \in Ids /\ arg[t].ev \in Event
      /\ pc[t] = "event"
  BY DEF TypeInv, CallsInv, StoreEvent, At, WellFormed, IdSteps
<1>1. \E step \in {"idle", "cancel_next"} : \E a :
        /\ pc' = [pc EXCEPT ![t] = step] /\ arg' = [arg EXCEPT ![t] = a]
        /\ a.canceled \subseteq arg[t].canceled
  <2>1. CASE arg[t].sweeping
    <3> DEFINE a == [arg[t] EXCEPT !.ev = None, !.id = None]
    <3>1. a.canceled = arg[t].canceled BY <1>0 DEF Arg
    <3>2. arg' = [arg EXCEPT ![t] = a] /\ pc' = [pc EXCEPT ![t] = "cancel_next"]
      BY <1>0, <2>1 DEF StoreEvent, Goto, CallsInv
    <3> HIDE DEF a
    <3> QED BY <3>1, <3>2
  <2>2. CASE ~arg[t].sweeping
    <3>1. NoArg.canceled = {} BY DEF NoArg
    <3>2. pc' = [pc EXCEPT ![t] = "idle"] /\ arg' = [arg EXCEPT ![t] = NoArg]
      BY <2>2 DEF StoreEvent, Return, Goto
    <3> QED BY <3>1, <3>2
  <2> QED BY <2>1, <2>2
<1>2. PICK step \in {"idle", "cancel_next"} : \E a :
        /\ pc' = [pc EXCEPT ![t] = step] /\ arg' = [arg EXCEPT ![t] = a]
        /\ a.canceled \subseteq arg[t].canceled
  BY <1>1
<1>3. PICK a : /\ pc' = [pc EXCEPT ![t] = step] /\ arg' = [arg EXCEPT ![t] = a]
               /\ a.canceled \subseteq arg[t].canceled
  BY <1>2
<1>4. OthersStay(t) /\ pc'[t] = step /\ arg'[t] = a
  BY <1>0, <1>3, MoveShape
<1> QED BY <1>0, <1>3, <1>4 DEF StoreEvent

\* Which orders are live after an emitting section, and what they are.
LEMMA EmitFacts ==
  ASSUME TypeInv, NEW t \in Tasks, NEW id \in Ids, NEW e \in Event, Emits(t, id, e)
  PROVE  /\ \A i \in Ids : Live(i)' => Live(i)
         /\ \A i \in Ids \ {id} : orders'[i] = orders[i]
<1>1. CASE UNCHANGED orders BY <1>1 DEF Live
<1>2. CASE \E o \in GoodOrder : Changes(t, id, o, e)
  BY <1>2 DEF Changes, TypeInv, BookType, Live
<1> QED BY <1>1, <1>2 DEF Emits

-----------------------------------------------------------------------------
(* Every shape keeps SentInv, ClearInv and VenueInv.                       *)

LEMMA SentStep ==
  ASSUME TypeInv, SentInv, NEW t \in Tasks,
         \/ Fades(t) \/ InsertOrder(t) \/ StoreEvent(t)
         \/ \E id \in Ids, e \in Event : Emits(t, id, e)
  PROVE  SentInv'
<1>1. CASE Fades(t)
  <2>1. \A id \in Ids : (Live(id) \/ events[id] # <<>>)' => Live(id) \/ events[id] # <<>>
    BY <1>1 DEF Fades, Live
  <2> QED BY <1>1, <2>1 DEF Fades, SentInv, OthersStay
<1>2. CASE InsertOrder(t)
  <2>1. \A id \in Ids : inserts[id] \in Nat BY DEF TypeInv, BookType
  <2>2. \A id \in Ids : inserts[id] > 0 \/ id = arg[t].id => inserts'[id] > 0
    BY <1>2, <2>1, InsertFacts
  <2>3. \A id \in Ids : Live(id)' => Live(id) \/ id = arg[t].id
    BY <1>2, InsertFacts DEF Live
  <2>4. UNCHANGED events /\ \A u \in Tasks : arg'[u] = arg[u]
    BY <1>2, InsertFacts DEF OthersStay
  <2>5. \A u \in Tasks : pc'[u] \in AfterInsert =>
          arg[u].id \in Ids /\ (pc[u] \in AfterInsert \/ u = t)
    <3>1. \A u \in Tasks : pc[u] \in AfterInsert => arg[u].id \in Ids
      BY DEF TypeInv, CallsInv, WellFormed, AfterInsert, IdSteps, SubmitSteps
    <3> QED BY <1>2, <3>1, InsertFacts DEF OthersStay
  <2>6. \A u \in Tasks : arg[u].canceled \subseteq Ids
    BY DEF TypeInv, CallsInv, Arg
  <2>7. \A u \in Tasks : pc'[u] \in AfterInsert => inserts'[arg'[u].id] > 0
    BY <2>2, <2>4, <2>5 DEF SentInv
  <2>8. \A u \in Tasks : \A id \in arg'[u].canceled : inserts'[id] > 0
    BY <2>2, <2>4, <2>6 DEF SentInv
  <2>9. \A id \in Ids : (Live(id) \/ events[id] # <<>>)' => inserts'[id] > 0
    BY <2>2, <2>3, <2>4 DEF SentInv
  <2> QED BY <2>7, <2>8, <2>9 DEF SentInv
<1>3. CASE StoreEvent(t)
  <2>1. inserts[arg[t].id] > 0 BY <1>3, StoreFacts DEF SentInv, AfterInsert
  <2>2. \A id \in Ids \ {arg[t].id} : events'[id] = events[id]
    BY <1>3, StoreFacts DEF TypeInv, BookType
  <2>3. pc'[t] \notin AfterInsert BY <1>3, StoreFacts DEF AfterInsert
  <2> QED BY <1>3, <2>1, <2>2, <2>3, StoreFacts DEF SentInv, OthersStay, Live
<1>4. ASSUME NEW id \in Ids, NEW e \in Event, Emits(t, id, e) PROVE SentInv'
  <2>1. inserts[id] > 0 BY <1>4 DEF Emits, Changes, SentInv
  <2>2. arg'[t].canceled \subseteq arg[t].canceled \cup {id}
    BY <1>4 DEF Emits, Changes
  <2>3. UNCHANGED <<inserts, events>> /\ arg'[t].id = id /\ OthersStay(t)
    BY <1>4 DEF Emits
  <2>4. \A i \in Ids : Live(i)' => Live(i) BY <1>4, EmitFacts
  <2> QED BY <2>1, <2>2, <2>3, <2>4 DEF SentInv, OthersStay
<1> QED BY <1>1, <1>2, <1>3, <1>4

LEMMA ClearStep ==
  ASSUME TypeInv, ClearInv, NEW t \in Tasks,
         \/ Fades(t) \/ InsertOrder(t) \/ StoreEvent(t)
         \/ \E id \in Ids, e \in Event : Emits(t, id, e)
  PROVE  ClearInv'
<1>0. \A u \in Tasks : arg[u].todo \subseteq Ids BY DEF TypeInv, CallsInv, Arg
<1>1. CASE Fades(t)
  <2>1. \A id \in Ids : Live(id)' => Live(id) BY <1>1 DEF Fades, Live
  <2> QED BY <1>0, <1>1, <2>1 DEF Fades, ClearInv, OthersStay
<1>2. CASE InsertOrder(t)
  <2>1. \A u \in Tasks : pc'[u] # "clear_events"
    BY <1>2, InsertFacts DEF OthersStay
  <2> QED BY <2>1 DEF ClearInv
<1>3. CASE StoreEvent(t)
  BY <1>3, StoreFacts DEF ClearInv, OthersStay, Live
<1>4. ASSUME NEW id \in Ids, NEW e \in Event, Emits(t, id, e) PROVE ClearInv'
  <2>1. \A i \in Ids : Live(i)' => Live(i) BY <1>4, EmitFacts
  <2>2. OthersStay(t) /\ pc'[t] = "event" BY <1>4 DEF Emits
  <2> QED BY <1>0, <2>1, <2>2 DEF ClearInv, OthersStay
<1> QED BY <1>1, <1>2, <1>3, <1>4

LEMMA VenueStep ==
  ASSUME TypeInv, SentInv, VenueInv, NEW t \in Tasks,
         \/ Fades(t) \/ InsertOrder(t) \/ StoreEvent(t)
         \/ \E id \in Ids, e \in Event : Emits(t, id, e)
  PROVE  VenueInv'
<1>0. \A u \in Tasks : pc[u] = "accept" => arg[u].id \in Ids
  BY DEF TypeInv, CallsInv, WellFormed, IdSteps
<1>1. CASE Fades(t)
  <2>1. \A id \in Ids : Live(id)' => Live(id) /\ orders'[id] = orders[id]
    BY <1>1 DEF Fades, Live
  <2>2. UNCHANGED inserts /\ OthersStay(t) /\ MapKept(t) BY <1>1 DEF Fades
  <2>3. \A id \in Ids : FreshLive(id)' => FreshLive(id)
    BY <2>1, <2>2 DEF FreshLive
  <2>4. ASSUME NEW id \in Ids, FreshLive(id)'
        PROVE  \/ orders[id].venue = None
               \/ orders[id].venue = VenueIdOf[id] /\ Mapped(id)'
    BY <2>2, <2>3, <2>4 DEF VenueInv, MapKept, FreshLive
  <2>5. ASSUME NEW u \in Tasks, pc'[u] = "accept", FreshLive(arg[u].id)'
        PROVE  Mapped(arg[u].id)'
    <3>1. CASE u = t BY <2>2, <2>5, <3>1 DEF MapKept
    <3>2. CASE u # t
      <4>1. pc[u] = "accept" /\ arg'[u] = arg[u] /\ arg[u].id \in Ids
        BY <1>0, <2>2, <2>5, <3>2 DEF OthersStay
      <4> DEFINE i == arg[u].id
      <4>2. i' = i BY <4>1
      <4>3. i \in Ids BY <4>1
      <4>4. FreshLive(i)' BY <2>5
      <4> QED BY <2>1, <2>2, <2>3, <2>5, <4>1, <4>2
              DEF VenueInv, MapKept, FreshLive, Live, Mapped
    <3> QED BY <3>1, <3>2
  <2> QED BY <2>1, <2>4, <2>5 DEF VenueInv, FreshLive
<1>2. CASE InsertOrder(t)
  <2> DEFINE new == arg[t].id
  <2>1. \A id \in Ids : inserts[id] \in Nat BY DEF TypeInv, BookType
  <2>2. \A id \in Ids : id # new /\ FreshLive(id)' => FreshLive(id)
    BY <1>2, InsertFacts DEF FreshLive, Live
  <2>3. UNCHANGED venueToClient /\ \A u \in Tasks : arg'[u] = arg[u]
    BY <1>2, InsertFacts DEF OthersStay
  <2>4. \A u \in Tasks : pc'[u] = "accept" => pc[u] = "accept"
    BY <1>2, InsertFacts DEF OthersStay
  <2>5. ASSUME NEW id \in Ids, FreshLive(id)'
        PROVE  (\/ orders[id].venue = None
                \/ orders[id].venue = VenueIdOf[id] /\ Mapped(id))'
    <3>1. CASE id = new BY <1>2, <3>1, InsertFacts
    <3>2. CASE id # new
      BY <1>2, <2>2, <2>3, <2>5, <3>2, InsertFacts DEF VenueInv, Mapped
    <3> QED BY <3>1, <3>2
  <2>6. ASSUME NEW u \in Tasks, pc'[u] = "accept", FreshLive(arg[u].id)'
        PROVE  Mapped(arg[u].id)'
    <3> DEFINE i == arg[u].id
    <3>1. pc[u] = "accept" /\ i \in Ids /\ inserts[i] > 0
      BY <1>0, <2>4, <2>6 DEF SentInv, AfterInsert
    <3>2. i' = i BY <2>3
    <3>3. inserts'[i] = 1 BY <2>6, <3>2 DEF FreshLive
    <3>4. i # new BY <1>2, <2>1, <3>1, <3>3, InsertFacts
    <3>5. orders'[i] = orders[i] /\ inserts'[i] = inserts[i]
      BY <1>2, <3>1, <3>4, InsertFacts
    <3>6. orders'[i] # None BY <2>6, <3>2 DEF FreshLive, Live
    <3>7. FreshLive(i) BY <3>3, <3>5, <3>6 DEF FreshLive, Live
    <3>8. Mapped(i) BY <3>1, <3>7 DEF VenueInv
    <3> QED BY <2>3, <3>8 DEF Mapped
  <2> QED BY <2>5, <2>6 DEF VenueInv
<1>3. CASE StoreEvent(t)
  <2>1. UNCHANGED <<orders, inserts, venueToClient>> BY <1>3, StoreFacts
  <2>2. \A u \in Tasks : pc'[u] = "accept" => pc[u] = "accept" /\ arg'[u] = arg[u]
    BY <1>3, StoreFacts DEF OthersStay
  <2> QED BY <2>1, <2>2 DEF VenueInv, FreshLive, Live, Mapped
<1>4. ASSUME NEW id \in Ids, NEW e \in Event, Emits(t, id, e) PROVE VenueInv'
  <2>1. UNCHANGED <<inserts, venueToClient>> BY <1>4 DEF Emits
  <2>2. \A u \in Tasks : pc'[u] = "accept" => pc[u] = "accept" /\ arg'[u] = arg[u]
    BY <1>4 DEF Emits, OthersStay
  <2>3. \A i \in Ids : FreshLive(i)' => FreshLive(i)
    BY <1>4, <2>1, EmitFacts DEF FreshLive
  <2>4. ASSUME NEW i \in Ids, FreshLive(i)'
        PROVE  (\/ orders[i].venue = None
                \/ orders[i].venue = VenueIdOf[i] /\ Mapped(i))'
    <3>1. FreshLive(i) BY <2>3, <2>4
    <3>2. \/ orders[i].venue = None
          \/ orders[i].venue = VenueIdOf[i] /\ Mapped(i)
      BY <3>1 DEF VenueInv
    <3>3. CASE orders'[i] = orders[i] BY <2>1, <3>2, <3>3 DEF Mapped
    <3>4. CASE orders'[i] # orders[i]
      <4>1. i = id BY <1>4, <3>4, EmitFacts
      <4>2. PICK o \in GoodOrder : Changes(t, id, o, e) BY <1>4, <3>4 DEF Emits
      <4>3. orders'[i] = o BY <4>1, <4>2 DEF Changes, TypeInv, BookType
      <4>4. \/ o.venue = orders[id].venue
            \/ o.venue = VenueIdOf[id] /\ pc[t] = "accept" /\ arg[t].id = id
        BY <4>2 DEF Changes
      <4>5. pc[t] = "accept" /\ arg[t].id = id => Mapped(id)
        BY <3>1, <4>1 DEF VenueInv
      <4> QED BY <2>1, <3>2, <4>1, <4>3, <4>4, <4>5 DEF Mapped
    <3> QED BY <3>3, <3>4
  <2>5. ASSUME NEW u \in Tasks, pc'[u] = "accept", FreshLive(arg[u].id)'
        PROVE  Mapped(arg[u].id)'
    <3> DEFINE i == arg[u].id
    <3>1. pc[u] = "accept" /\ i \in Ids /\ i' = i BY <1>0, <2>2, <2>5
    <3>2. FreshLive(i)
      <4>1. inserts'[i] = 1 /\ orders'[i] # None
        BY <2>5, <3>1 DEF FreshLive, Live
      <4>2. Live(i) BY <1>4, <3>1, <4>1, EmitFacts DEF Live
      <4> QED BY <2>1, <4>1, <4>2 DEF FreshLive
    <3>3. Mapped(i) BY <3>1, <3>2 DEF VenueInv
    <3> QED BY <2>1, <3>1, <3>3 DEF Mapped
  <2> QED BY <2>4, <2>5 DEF VenueInv
<1> QED BY <1>1, <1>2, <1>3, <1>4

-----------------------------------------------------------------------------
(* Every shape keeps HistInv: an order whose events add up still has events *)
(* that add up.                                                            *)

\* The same counts of the same events.
LEMMA ExactKept ==
  ASSUME NEW id, NEW q, NEW f, NEW c, Exact(id, q, f, c),
         \A n : Tally(id, Covering(n))' = Tally(id, Covering(n)),
         Tally(id, Ends(q))' = Tally(id, Ends(q))
  PROVE  Exact(id, q, f, c)'
BY DEF Exact

\* An order inserted for the first time has no event, stored or on its way.
LEMMA ExactNew ==
  ASSUME TypeInv, SentInv, NEW t \in Tasks, InsertOrder(t),
         NEW id \in Ids, id = arg[t].id, FreshLive(id)', NEW q
  PROVE  Exact(id, q, 0, FALSE)'
<1>1. inserts[id] = 0
  BY InsertFacts DEF FreshLive, TypeInv, BookType
<1>2. events[id] = <<>> /\ events' = events BY <1>1, InsertFacts DEF SentInv
<1>3. \A u \in Tasks : pc[u] = "event" => arg[u].id # id
  BY <1>1 DEF SentInv, AfterInsert
<1>4. \A u \in Tasks : ~(pc'[u] = "event" /\ arg'[u].id = id)
  BY <1>3, InsertFacts DEF OthersStay
<1>5. ASSUME NEW K PROVE Tally(id, K)' = 0
  <2>1. Stored(id, K)' = {} BY <1>2 DEF Stored
  <2>2. Waits(id, K)' = {} BY <1>4 DEF Waits, At
  <2>3. Cardinality({}) = 0 BY FS_EmptySet
  <2>4. Tally(id, K)' = Cardinality(Stored(id, K)') + Cardinality(Waits(id, K)')
    BY DEF Tally
  <2> QED BY <2>1, <2>2, <2>3, <2>4
<1>6. \A n \in 1 .. q : ~(n <= 0) OBVIOUS
<1> QED BY <1>5, <1>6 DEF Exact

\* The event of a change adds what the change adds.
LEMMA ExactChange ==
  ASSUME NEW id, NEW o \in GoodOrder, NEW p \in GoodOrder, NEW e \in Event,
         o.status \notin Terminal, Tells(o, p, e), Exact(id, o.qty, o.filled, FALSE),
         \A K : /\ Tally(id, K) \in Nat
                /\ Tally(id, K)' = Tally(id, K) + IF e \in K THEN 1 ELSE 0
  PROVE  Exact(id, p.qty, p.filled, p.status \in Terminal)'
<1> DEFINE q == o.qty
           f == o.filled
           g == p.filled
           c == p.status \in Terminal
<1>1. /\ q \in Nat /\ f \in Nat /\ g \in Nat /\ p.qty = q
      /\ e.qty \in Nat /\ e.cum \in Nat
  BY DEF GoodOrder, Order, Event, Tells
<1>2. /\ \A n \in 1 .. q : Tally(id, Covering(n)) = IF n <= f THEN 1 ELSE 0
      /\ Tally(id, Ends(q)) = 0
  BY DEF Exact
<1>3. \A n \in 1 .. q : e \in Covering(n) <=> f < n /\ n <= g
  <2>1. CASE e.kind # "Filled"
    <3>1. g = f BY <2>1 DEF Tells
    <3>2. \A n \in 1 .. q : ~(f < n /\ n <= f) BY <1>1
    <3> QED BY <2>1, <3>1, <3>2 DEF Covering
  <2>2. CASE e.kind = "Filled"
    <3>1. e.cum = g /\ g = f + e.qty BY <2>2 DEF Tells
    <3>2. e.cum - e.qty = f BY <1>1, <3>1
    <3> QED BY <2>2, <3>1, <3>2 DEF Covering
  <2> QED BY <2>1, <2>2
<1>4. f <= g BY <1>1 DEF Tells
<1>5. e \in Ends(q) <=> c
  BY <1>1 DEF Ends, Tells
<1> HIDE DEF q, f, g, c
<1>6. \A n \in 1 .. q : Tally(id, Covering(n))' = IF n <= g THEN 1 ELSE 0
  <2> TAKE n \in 1 .. q
  <2>1. Tally(id, Covering(n))' = Tally(id, Covering(n)) + IF e \in Covering(n) THEN 1 ELSE 0
    OBVIOUS
  <2>2. n \in Nat BY <1>1
  <2> QED BY <1>1, <1>2, <1>3, <1>4, <2>1, <2>2
<1>7. Tally(id, Ends(q))' = IF c THEN 1 ELSE 0
  <2>1. Tally(id, Ends(q))' = Tally(id, Ends(q)) + IF e \in Ends(q) THEN 1 ELSE 0
    OBVIOUS
  <2> QED BY <1>2, <1>5, <2>1
<1>8. Exact(id, q, g, c)'
  BY <1>6, <1>7 DEF Exact
<1> QED BY <1>1, <1>8 DEF q, g, c

LEMMA BusyStep ==
  ASSUME NEW t \in Tasks, OthersStay(t), IsFiniteSet(Busy)
  PROVE  IsFiniteSet(Busy)'
<1> DEFINE S == Busy
           T == Busy'
<1>1. S \ {t} = T \ {t} BY WaitsChange
<1>2. IsFiniteSet(S) OBVIOUS
<1> HIDE DEF S, T
<1>3. IsFiniteSet(T) BY <1>1, <1>2, OneMore
<1> QED BY <1>3 DEF T

LEMMA HistStep ==
  ASSUME TypeInv, SentInv, HistInv, NEW t \in Tasks,
         \/ Fades(t) \/ InsertOrder(t) \/ StoreEvent(t)
         \/ \E id \in Ids, e \in Event : Emits(t, id, e)
  PROVE  HistInv'
<1>0. IsFiniteSet(Busy) /\ BookType BY DEF HistInv, TypeInv
<1>1. IsFiniteSet(Busy)'
  <2>1. OthersStay(t) BY InsertFacts, StoreFacts DEF Fades, Emits
  <2> QED BY <1>0, <2>1, BusyStep
<1> SUFFICES ASSUME NEW id \in Ids, FreshLive(id)'
             PROVE  Exact(id, orders[id].qty, orders[id].filled, IsClosed(id))'
  BY <1>1 DEF HistInv
\* It is enough that the order and the counts of its events are the same.
<1>2. ASSUME FreshLive(id), orders'[id] = orders[id],
             \A K : Tally(id, K)' = Tally(id, K)
      PROVE  Exact(id, orders[id].qty, orders[id].filled, IsClosed(id))'
  <2>1. Exact(id, orders[id].qty, orders[id].filled, IsClosed(id))
    BY <1>2 DEF HistInv
  <2>2. IsClosed(id)' <=> IsClosed(id) BY <1>2 DEF IsClosed, Live
  <2> QED BY <1>2, <2>1, <2>2 DEF Exact
<1>3. CASE Fades(t)
  <2>1. FreshLive(id) /\ orders'[id] = orders[id] /\ events'[id] = events[id]
    BY <1>3 DEF Fades, FreshLive, Live
  <2>2. \A K : Tally(id, K)' = Tally(id, K)
    BY <1>0, <1>3, <2>1, TallyStays DEF Fades
  <2> QED BY <1>2, <2>1, <2>2
<1>4. CASE InsertOrder(t)
  <2>1. CASE id = arg[t].id
    <3>1. orders'[id].filled = 0 /\ ~IsClosed(id)'
      BY <1>4, <2>1, InsertFacts DEF IsClosed, Terminal
    <3>2. ASSUME NEW q PROVE Exact(id, q, 0, FALSE)' BY <1>4, <2>1, ExactNew
    <3> QED BY <3>1, <3>2 DEF Exact
  <2>2. CASE id # arg[t].id
    <3>1. FreshLive(id) /\ orders'[id] = orders[id] /\ events'[id] = events[id]
      BY <1>4, <2>2, InsertFacts DEF FreshLive, Live
    <3>2. pc[t] # "event" /\ pc'[t] # "event" /\ OthersStay(t)
      BY <1>4, InsertFacts
    <3>3. \A K : Tally(id, K)' = Tally(id, K)
      BY <1>0, <3>1, <3>2, TallyStays
    <3> QED BY <1>2, <3>1, <3>3
  <2> QED BY <2>1, <2>2
<1>5. CASE StoreEvent(t)
  <2>1. FreshLive(id) /\ orders'[id] = orders[id]
    BY <1>5, StoreFacts DEF FreshLive, Live
  <2>2. pc'[t] # "event" BY <1>5, StoreFacts
  <2>3. ASSUME NEW K, NEW a \in Ids, a = arg[t].id, NEW e \in Event, e = arg[t].ev
        PROVE  Tally(id, K)' = Tally(id, K)
    <3>1. /\ OthersStay(t) /\ pc[t] = "event"
          /\ events' = [events EXCEPT ![a] = Append(@, e)]
      BY <1>5, <2>3, StoreFacts
    <3>2. events \in [Ids -> Seq(Event)] BY <1>0 DEF BookType
    <3> QED BY <1>0, <2>2, <2>3, <3>1, <3>2, TallyStore
  <2>4. \A K : Tally(id, K)' = Tally(id, K) BY <1>5, <2>3, StoreFacts
  <2> QED BY <1>2, <2>1, <2>4
<1>6. ASSUME NEW i \in Ids, NEW e \in Event, Emits(t, i, e)
      PROVE  Exact(id, orders[id].qty, orders[id].filled, IsClosed(id))'
  <2>1. /\ OthersStay(t) /\ UNCHANGED <<inserts, events>>
        /\ pc[t] # "event" /\ pc'[t] = "event" /\ arg'[t].id = i /\ arg'[t].ev = e
    BY <1>6 DEF Emits
  <2>2. events[id] \in Seq(Event) BY <1>0 DEF BookType
  <2>3. \A K : /\ Tally(id, K) \in Nat
               /\ Tally(id, K)' = Tally(id, K) + IF id = i /\ e \in K THEN 1 ELSE 0
    BY <1>0, <2>1, <2>2, TallyEmit
  <2>4. FreshLive(id) BY <1>6, <2>1, EmitFacts DEF FreshLive
  <2>5. CASE id # i
    <3>1. orders'[id] = orders[id] BY <1>6, <2>5, EmitFacts
    <3>2. \A K : Tally(id, K)' = Tally(id, K) BY <2>3, <2>5
    <3> QED BY <1>2, <2>4, <3>1, <3>2
  <2>6. CASE id = i /\ e.kind = "Initialized" /\ UNCHANGED orders
    <3>1. Exact(id, orders[id].qty, orders[id].filled, IsClosed(id))
      BY <2>4 DEF HistInv
    <3>2. (\A n : e \notin Covering(n)) /\ (\A q : e \notin Ends(q))
      BY <2>6 DEF Covering, Ends, Terminal
    <3>3. /\ \A n : Tally(id, Covering(n))' = Tally(id, Covering(n))
          /\ \A q : Tally(id, Ends(q))' = Tally(id, Ends(q))
      BY <2>3, <3>2
    <3>4. IsClosed(id)' <=> IsClosed(id) BY <2>6 DEF IsClosed, Live
    <3> QED BY <2>6, <3>1, <3>3, <3>4 DEF Exact
  <2>7. CASE id = i /\ \E o \in GoodOrder : Changes(t, i, o, e)
    <3>1. PICK o \in GoodOrder : Changes(t, id, o, e) BY <2>7
    <3>2. orders[id] \in GoodOrder /\ orders'[id] = o /\ ~IsClosed(id)
          /\ Tells(orders[id], o, e) /\ Live(id)
      BY <1>0, <3>1 DEF Changes, BookType
    <3>3. Exact(id, orders[id].qty, orders[id].filled, FALSE)
      BY <2>4, <3>2 DEF HistInv, Exact
    <3>4. orders[id].status \notin Terminal BY <3>2 DEF IsClosed
    <3>5. \A K : /\ Tally(id, K) \in Nat
                 /\ Tally(id, K)' = Tally(id, K) + IF e \in K THEN 1 ELSE 0
      BY <2>3, <2>7
    <3>6. ASSUME NEW b \in GoodOrder, b = orders[id]
          PROVE  Exact(id, o.qty, o.filled, o.status \in Terminal)'
      BY <3>2, <3>3, <3>4, <3>5, <3>6, ExactChange
    <3>7. Exact(id, o.qty, o.filled, o.status \in Terminal)' BY <3>2, <3>6
    <3>8. IsClosed(id)' <=> o.status \in Terminal
      <4>1. orders'[id] # None BY DEF FreshLive, Live
      <4> QED BY <3>2, <4>1 DEF IsClosed, Live
    <3> QED BY <3>2, <3>7, <3>8 DEF Exact
  <2> QED BY <1>6, <2>5, <2>6, <2>7 DEF Emits
<1> QED BY <1>3, <1>4, <1>5, <1>6

\* Every shape keeps CancelReportedOnce: a sweep adds an order to its report
\* in the section that cancels it, and no other sweep could have before.
LEMMA CancelStep ==
  ASSUME TypeInv, SentInv, CancelReportedOnce, NEW t \in Tasks,
         \/ Fades(t) \/ InsertOrder(t) \/ StoreEvent(t)
         \/ \E id \in Ids, e \in Event : Emits(t, id, e)
  PROVE  CancelReportedOnce'
<1>1. CASE Fades(t)
  <2>1. \A u \in Tasks : arg'[u].canceled \subseteq arg[u].canceled
    BY <1>1 DEF Fades, OthersStay
  <2>2. \A id \in Ids : Live(id)' => Live(id) /\ orders'[id] = orders[id]
    BY <1>1 DEF Fades, Live
  <2>3. UNCHANGED inserts BY <1>1 DEF Fades
  <2> QED BY <2>1, <2>2, <2>3 DEF CancelReportedOnce
<1>2. CASE InsertOrder(t)
  <2>1. \A u \in Tasks : arg'[u] = arg[u]
    BY <1>2, InsertFacts DEF OthersStay
  <2>2. ASSUME NEW id \in Ids, NEW u \in Tasks, inserts'[id] = 1,
               id \in arg[u].canceled
        PROVE  orders'[id] = orders[id] /\ inserts[id] = 1
    <3>1. inserts[id] > 0 /\ inserts[id] \in Nat
      BY <2>2 DEF SentInv, TypeInv, BookType
    <3>2. id # arg[t].id BY <1>2, <2>2, <3>1, InsertFacts
    <3> QED BY <1>2, <2>2, <3>2, InsertFacts
  <2> QED BY <2>1, <2>2 DEF CancelReportedOnce, Live
<1>3. CASE StoreEvent(t)
  <2>1. \A u \in Tasks : arg'[u].canceled \subseteq arg[u].canceled
    BY <1>3, StoreFacts DEF OthersStay
  <2>2. UNCHANGED <<orders, inserts>> BY <1>3, StoreFacts
  <2> QED BY <2>1, <2>2 DEF CancelReportedOnce, Live
<1>4. ASSUME NEW i \in Ids, NEW e \in Event, Emits(t, i, e)
      PROVE  CancelReportedOnce'
  <2>1. UNCHANGED inserts /\ OthersStay(t) BY <1>4 DEF Emits
  <2>2. CASE arg'[t].canceled = arg[t].canceled /\ UNCHANGED orders
    BY <2>1, <2>2 DEF CancelReportedOnce, OthersStay, Live
  <2>3. ASSUME NEW o \in GoodOrder, Changes(t, i, o, e)
        PROVE  CancelReportedOnce'
    <3>1. /\ \A id \in Ids : orders'[id] = IF id = i THEN o ELSE orders[id]
          /\ Live(i) /\ orders[i].status # "Canceled"
      BY <2>3 DEF Changes, IsClosed, Terminal, TypeInv, BookType
    <3>2. inserts[i] = 1 => \A u \in Tasks : i \notin arg[u].canceled
      BY <3>1 DEF CancelReportedOnce
    <3>3. /\ \A u \in Tasks \ {t} : arg'[u].canceled = arg[u].canceled
          /\ \/ arg'[t].canceled = arg[t].canceled
             \/ o.status = "Canceled" /\ arg'[t].canceled = arg[t].canceled \cup {i}
      BY <2>1, <2>3 DEF Changes, OthersStay
    <3>4. ASSUME NEW id \in Ids, NEW u \in Tasks, inserts[id] = 1,
                 id \in arg'[u].canceled, id # i
          PROVE  /\ Live(id)' => orders'[id].status = "Canceled"
                 /\ \A w \in Tasks \ {u} : id \notin arg'[w].canceled
      BY <3>1, <3>3, <3>4 DEF CancelReportedOnce, Live
    <3>5. ASSUME NEW u \in Tasks, inserts[i] = 1, i \in arg'[u].canceled
          PROVE  /\ orders'[i].status = "Canceled"
                 /\ \A w \in Tasks \ {u} : i \notin arg'[w].canceled
      BY <3>1, <3>2, <3>3, <3>5
    <3> QED BY <2>1, <3>4, <3>5 DEF CancelReportedOnce
  <2> QED BY <1>4, <2>2, <2>3 DEF Emits
<1> QED BY <1>1, <1>2, <1>3, <1>4

-----------------------------------------------------------------------------
(* The theorems.                                                           *)

Reports == SentInv /\ ClearInv /\ VenueInv /\ HistInv /\ CancelReportedOnce

LEMMA ReportsInit == Init => Reports
<1> SUFFICES ASSUME Init PROVE Reports OBVIOUS
<1>1. \A t \in Tasks : pc[t] = "idle" /\ arg[t].canceled = {}
  BY DEF Init, NoArg
<1>2. \A id \in Ids : ~Live(id) /\ events[id] = <<>> /\ inserts[id] = 0
  BY DEF Init, Live
<1>3. Busy = {} BY <1>1 DEF Busy, At
<1>4. IsFiniteSet(Busy) BY <1>3, FS_EmptySet
<1>5. SentInv /\ ClearInv /\ VenueInv /\ CancelReportedOnce
  BY <1>1, <1>2 DEF SentInv, ClearInv, VenueInv, CancelReportedOnce, FreshLive,
                    AfterInsert
<1> QED BY <1>2, <1>4, <1>5 DEF Reports, HistInv, FreshLive

LEMMA ReportsStep ==
  TypeInv /\ IndexInv /\ Reports /\ [Next]_vars => Reports'
<1> SUFFICES ASSUME TypeInv, IndexInv, Reports, [Next]_vars PROVE Reports'
  OBVIOUS
<1>0. NoOrderInReset /\ SentInv /\ ClearInv /\ VenueInv /\ HistInv
      /\ CancelReportedOnce
  BY DEF IndexInv, Reports
<1>1. CASE UNCHANGED vars
  <2> USE <1>1 DEF vars, book
  <2>1. SentInv' /\ ClearInv' /\ VenueInv' /\ CancelReportedOnce'
    BY <1>0 DEF SentInv, ClearInv, VenueInv, CancelReportedOnce, FreshLive, Live,
                Mapped
  <2>2. HistInv'
    BY <1>0 DEF HistInv, Busy, At, Exact, Tally, Stored, Waits, FreshLive,
                IsClosed, Live
  <2> QED BY <2>1, <2>2 DEF Reports
<1>2. CASE Next
  <2>1. PICK t \in Tasks : Call(t) \/ Continue(t) BY <1>2 DEF Next
  <2>2. \/ Fades(t) \/ InsertOrder(t) \/ StoreEvent(t)
        \/ \E id \in Ids, e \in Event : Emits(t, id, e)
    BY <1>0, <2>1, Shapes
  <2> QED BY <1>0, <2>2, SentStep, ClearStep, VenueStep, HistStep, CancelStep
          DEF Reports
<1> QED BY <1>1, <1>2

LEMMA ReportsHold == Spec => []Reports
<1>1. Init => IndexInv
  BY DEF Init, IndexInv, IndexComplete, NoOrderInReset, Live, ResetSteps
<1> QED BY <1>1, ReportsInit, ReportsStep, IndexInvStep, TypeInvHolds, PTL DEF Spec

\* The history of an order, with the events on their way to it, covers each
\* filled unit exactly once and has one terminal event if and only if the
\* order is closed, although each event is stored after the order was unlocked.
THEOREM HistoryAlwaysExact == Spec => []HistoryExact
<1>1. TypeInv /\ Reports => HistoryExact
  <2> SUFFICES ASSUME TypeInv, Reports, NEW id \in Ids, FreshLive(id)
      PROVE LET EndsOrder(e) == IF e.kind = "Filled" THEN e.cum = orders[id].qty
                                                     ELSE e.kind \in Terminal
                Unit(n) == LET Covers(e) == e.kind = "Filled" /\ e.cum - e.qty < n
                                            /\ n <= e.cum
                           IN Recorded(id, Covers)
            IN /\ \A n \in 1 .. orders[id].qty :
                    Unit(n) = IF n <= orders[id].filled THEN 1 ELSE 0
               /\ Recorded(id, EndsOrder) = IF IsClosed(id) THEN 1 ELSE 0
    BY DEF HistoryExact
  <2> DEFINE q == orders[id].qty
             C(e, n) == e.kind = "Filled" /\ e.cum - e.qty < n /\ n <= e.cum
             E(e) == IF e.kind = "Filled" THEN e.cum = q ELSE e.kind \in Terminal
             H == events[id]
  <2>1. /\ \A i \in DOMAIN H : H[i] \in Event
        /\ \A t \in Tasks : pc[t] = "event" => arg[t].ev \in Event
    BY DEF TypeInv, BookType, CallsInv, WellFormed
  <2>2. ASSUME NEW n
        PROVE  /\ Stored(id, Covering(n)) = {i \in DOMAIN H : C(H[i], n)}
               /\ Waits(id, Covering(n)) = {t \in Tasks : /\ At(t, "event")
                                             /\ arg[t].id = id /\ C(arg[t].ev, n)}
    BY <2>1 DEF Stored, Waits, Covering, At
  <2>3. /\ Stored(id, Ends(q)) = {i \in DOMAIN H : E(H[i])}
        /\ Waits(id, Ends(q)) = {t \in Tasks : /\ At(t, "event")
                                    /\ arg[t].id = id /\ E(arg[t].ev)}
    BY <2>1 DEF Stored, Waits, Ends, At
  <2>4. Exact(id, q, orders[id].filled, IsClosed(id)) BY DEF Reports, HistInv
  <2>5. ASSUME NEW n \in 1 .. q
        PROVE  Cardinality({i \in DOMAIN H : C(H[i], n)})
               + Cardinality({t \in Tasks : At(t, "event") /\ arg[t].id = id
                                              /\ C(arg[t].ev, n)})
               = IF n <= orders[id].filled THEN 1 ELSE 0
    BY <2>2, <2>4 DEF Exact, Tally
  <2>6. Cardinality({i \in DOMAIN H : E(H[i])})
        + Cardinality({t \in Tasks : At(t, "event") /\ arg[t].id = id
                                       /\ E(arg[t].ev)})
        = IF IsClosed(id) THEN 1 ELSE 0
    BY <2>3, <2>4 DEF Exact, Tally
  <2> QED BY <2>5, <2>6 DEF Recorded, StoredOf, PendingOf
<1> QED BY <1>1, ReportsHold, TypeInvHolds, PTL

\* An accepted order can always be found by the venue id it carries, although
\* the mapping and the order are written under different locks.
THEOREM VenueAlwaysMapped == Spec => []VenueMapped
<1>1. Reports => VenueMapped
  BY DEF Reports, VenueInv, VenueMapped, Mapped
<1> QED BY <1>1, ReportsHold, PTL

\* However many sweeps run at once, an order is in the report of one of them
\* at most, and only once it is canceled.
THEOREM CancelAlwaysReportedOnce == Spec => []CancelReportedOnce
<1>1. Reports => CancelReportedOnce BY DEF Reports
<1> QED BY <1>1, ReportsHold, PTL

\* A closed order is final: no section changes it, whatever its call had read
\* before the order was closed; it can only be removed or submitted anew.
THEOREM ClosedAlwaysFinal == Spec => ClosedOrdersFinal
<1>1. TypeInv /\ IndexInv /\ Reports /\ [Next]_vars =>
        [\A id \in Ids : IsClosed(id) => \/ orders'[id] \in {orders[id], None}
                                         \/ inserts'[id] # inserts[id]]_vars
  <2> SUFFICES ASSUME TypeInv, IndexInv, Reports, Next, NEW id \in Ids, IsClosed(id)
               PROVE  \/ orders'[id] \in {orders[id], None}
                      \/ inserts'[id] # inserts[id]
    OBVIOUS
  <2>1. PICK t \in Tasks : Call(t) \/ Continue(t) BY DEF Next
  <2>2. \/ Fades(t) \/ InsertOrder(t) \/ StoreEvent(t)
        \/ \E i \in Ids, e \in Event : Emits(t, i, e)
    BY <2>1, Shapes DEF IndexInv, Reports
  <2>3. CASE Fades(t) BY <2>3 DEF Fades
  <2>4. CASE InsertOrder(t)
    <3>1. inserts[id] \in Nat BY DEF TypeInv, BookType
    <3> QED BY <2>4, <3>1, InsertFacts
  <2>5. CASE StoreEvent(t) BY <2>5, StoreFacts
  <2>6. ASSUME NEW i \in Ids, NEW e \in Event, Emits(t, i, e)
        PROVE  orders'[id] = orders[id]
    BY <2>6, EmitFacts DEF Emits, Changes
  <2> QED BY <2>2, <2>3, <2>4, <2>5, <2>6
<1>2. Init => IndexInv
  BY DEF Init, IndexInv, IndexComplete, NoOrderInReset, Live, ResetSteps
<1> QED BY <1>1, <1>2, IndexInvStep, ReportsHold, TypeInvHolds, PTL
        DEF Spec, ClosedOrdersFinal

=============================================================================
