---------------------------- MODULE OrderManager ----------------------------
(***************************************************************************)
(* The OrderManager of trading-common (orders/manager.rs) used by several  *)
(* asynchronous tasks at once.                                             *)
(*                                                                         *)
(* The manager keeps five maps, each behind a lock of its own, and a call  *)
(* is a sequence of lock sections with an await before each.  One action   *)
(* is one lock section; where the code keeps a lock while it waits for the *)
(* next one, the step reached (pc) names the locks held.  Quantities are   *)
(* small naturals; prices, commissions and timestamps are left out.        *)
(***************************************************************************)
EXTENDS Naturals, Sequences, FiniteSets

CONSTANTS
  Tasks,               \* the tasks that share the manager
  Ids,                 \* ClientOrderIds
  Instruments, Strategies, VenueIds,
  Quantities,          \* order quantities callers ask for
  FillQuantities,      \* quantities venues report as filled
  VenueIdOf,           \* the VenueOrderId the venue gives each order
  AllowDuplicateIds, MaxOpenOrders, MaxOrdersPerSymbol,  \* OrderManagerConfig
  ClosedMarkets,       \* instruments that strict session enforcement rejects
  Ops,                 \* the operations callers use
  MaxCalls,            \* bound: calls started in a behaviour
  None

ASSUME OrderManagerAssumption ==
  /\ None \notin Ids \cup VenueIds
  /\ Quantities \cup FillQuantities \subseteq Nat \ {0}
  /\ VenueIdOf \in [Ids -> VenueIds]
  /\ \A i, j \in Ids : VenueIdOf[i] = VenueIdOf[j] => i = j
  /\ AllowDuplicateIds \in BOOLEAN
  /\ MaxOpenOrders \in Nat /\ MaxOrdersPerSymbol \in Nat /\ MaxCalls \in Nat
  /\ ClosedMarkets \subseteq Instruments

VARIABLES
  orders,          \* client order id -> order, or None
  venueToClient,   \* venue order id -> client order id, or None
  byInstrument,    \* instrument -> client order ids, in insertion order
  byStrategy,      \* strategy -> client order ids, in insertion order
  events,          \* client order id -> its stored event history
  inserts,         \* history: how often each id was inserted into orders
  pc,              \* the lock section each task is about to enter
  arg,             \* the arguments and locals of each task's call
  calls            \* calls started so far

book == <<orders, venueToClient, byInstrument, byStrategy, events, inserts>>
vars == <<book, pc, arg, calls>>

-----------------------------------------------------------------------------
(* The order state machine (orders/types.rs, orders/order.rs).             *)

Terminal == {"Filled", "Canceled", "Rejected", "Expired", "Denied"}
OpenStatus == {"Initialized", "Submitted", "Accepted", "PartiallyFilled",
               "PendingCancel", "PendingUpdate", "Triggered"}
Cancelable == {"Initialized", "Submitted", "Accepted", "PartiallyFilled",
               "Triggered"}
Statuses == Terminal \cup OpenStatus

\* Mutant of CanTransitionTo: a closed order can still be rejected.
LaxTransitions == [s \in Statuses |->
  IF s \in Terminal THEN {"Rejected"} ELSE Statuses \ {s}]

CanTransitionTo == [s \in Statuses |->
  CASE s = "Initialized" -> {"Submitted", "Denied", "Canceled"}
    [] s = "Submitted" -> {"Accepted", "Rejected", "Canceled"}
    [] s = "Accepted" -> {"PartiallyFilled", "Filled", "PendingCancel",
                          "PendingUpdate", "Canceled", "Expired", "Triggered"}
    [] s = "PartiallyFilled" -> {"PartiallyFilled", "Filled", "PendingCancel",
                                 "Canceled", "Expired"}
    [] s = "PendingCancel" -> {"Canceled", "Filled"}
    [] s = "PendingUpdate" -> {"Accepted", "PartiallyFilled", "Rejected"}
    [] s = "Triggered" -> {"Accepted", "PartiallyFilled", "Filled",
                           "Rejected", "Canceled"}
    [] OTHER -> {}]

Order == [status : Statuses, qty : Nat, filled : Nat, leaves : Nat,
          inst : Instruments, strat : Strategies, venue : VenueIds \cup {None}]

\* OrderBuilder::build: what a caller hands to submit_order.
NewOrder(a) ==
  [status |-> "Initialized", qty |-> a.qty, filled |-> 0, leaves |-> a.qty,
   inst |-> a.inst, strat |-> a.strat, venue |-> None]

Live(id) == orders[id] # None
IsOpen(id) == Live(id) /\ orders[id].status \in OpenStatus
IsClosed(id) == Live(id) /\ orders[id].status \in Terminal
IsCancelable(id) == Live(id) /\ orders[id].status \in Cancelable

\* Mutant of Filled: only this fill, not the fills before it,
\* is subtracted from the quantity.
FilledOnce(o, q) ==
  [o EXCEPT !.filled = @ + q,
            !.leaves = o.qty - q,
            !.status = IF o.qty = o.filled + q THEN "Filled"
                                               ELSE "PartiallyFilled"]

\* Order::apply_fill on an order o that is not closed, with q <= o.leaves.
Filled(o, q) ==
  [o EXCEPT !.filled = @ + q,
            !.leaves = o.qty - (o.filled + q),
            !.status = IF o.qty = o.filled + q THEN "Filled"
                                               ELSE "PartiallyFilled"]

\* An OrderEventAny: its kind and, for a fill, last quantity and cum_qty.
Kinds == Statuses
Event == [kind : Kinds, qty : Nat, cum : Nat]
Ev(kind) == [kind |-> kind, qty |-> 0, cum |-> 0]
FillEv(q, cum) == [kind |-> "Filled", qty |-> q, cum |-> cum]

-----------------------------------------------------------------------------
(* Calls, steps and locks.                                                 *)

Locks == {"orders", "venue_to_client", "orders_by_instrument",
          "orders_by_strategy", "order_events"}
Lookups == {"orders_by_instrument", "orders_by_strategy", "venue_to_client"}
Transitions == {"Submitted", "Rejected", "Denied", "Canceled", "Expired",
                "Triggered"}

Steps == {"idle", "duplicate", "max_open", "symbol_index", "symbol_count",
          "session", "insert", "index_instrument", "index_strategy", "event",
          "transition", "map_venue", "accept", "fill", "snapshot",
          "cancel_next", "clear_orders", "clear_events", "reset_orders",
          "reset_venue", "reset_instrument", "reset_strategy", "reset_events",
          "lookup", "read_instrument", "read_strategy", "read_venue"}

\* Mutant of WriteHeld: reset drops each lock before it takes the next one.
ResetHoldsNothing == [s \in Steps |->
  IF s = "clear_events" THEN {"orders"} ELSE {}]

\* Mutant of WriteHeld: submit_order keeps orders locked for writing until the
\* new order is indexed, so that nobody sees it unindexed.
InsertHoldsOrders == [s \in Steps |->
  IF s \in {"index_instrument", "index_strategy", "clear_events"}
  THEN {"orders"} ELSE {}]

\* The locks a task keeps while it waits to enter a step.
WriteHeld == [s \in Steps |->
  CASE s \in {"clear_events", "reset_venue"} -> {"orders"}
    [] s = "reset_instrument" -> {"orders", "venue_to_client"}
    [] s = "reset_strategy" ->
         {"orders", "venue_to_client", "orders_by_instrument"}
    [] s = "reset_events" ->
         {"orders", "venue_to_client", "orders_by_instrument",
          "orders_by_strategy"}
    [] OTHER -> {}]

ReadHeld == [s \in Steps |->
  CASE s \in {"symbol_count", "read_instrument"} -> {"orders_by_instrument"}
    [] s = "read_strategy" -> {"orders_by_strategy"}
    [] s = "read_venue" -> {"venue_to_client"}
    [] OTHER -> {}]

\* tokio::sync::RwLock: many readers or one writer.
CanRead(l) == \A t \in Tasks : l \notin WriteHeld[pc[t]]
CanWrite(l) == CanRead(l) /\ \A t \in Tasks : l \notin ReadHeld[pc[t]]

\* The locks the section a task is about to enter takes.
ReadTaken(t) ==
  CASE pc[t] \in {"max_open", "symbol_count", "snapshot", "read_instrument",
                  "read_strategy", "read_venue"} -> {"orders"}
    [] pc[t] = "duplicate" -> IF AllowDuplicateIds THEN {} ELSE {"orders"}
    [] pc[t] = "symbol_index" -> {"orders_by_instrument"}
    [] pc[t] = "lookup" -> {arg[t].kind}
    [] OTHER -> {}

WriteTaken(t) ==
  CASE pc[t] \in {"insert", "transition", "accept", "fill", "clear_orders",
                  "reset_orders"} -> {"orders"}
    [] pc[t] = "cancel_next" -> IF arg[t].todo = {} THEN {} ELSE {"orders"}
    [] pc[t] \in {"map_venue", "reset_venue"} -> {"venue_to_client"}
    [] pc[t] \in {"index_instrument", "reset_instrument"} ->
         {"orders_by_instrument"}
    [] pc[t] \in {"index_strategy", "reset_strategy"} -> {"orders_by_strategy"}
    [] pc[t] \in {"event", "clear_events", "reset_events"} -> {"order_events"}
    [] OTHER -> {}

Arg == [id : Ids \cup {None}, inst : Instruments \cup {None},
        strat : Strategies \cup {None}, qty : Nat,
        kind : Transitions \cup Lookups \cup {None}, ev : Event \cup {None},
        todo : SUBSET Ids, canceled : SUBSET Ids, sweeping : BOOLEAN]

NoArg == [id |-> None, inst |-> None, strat |-> None, qty |-> 0,
          kind |-> None, ev |-> None, todo |-> {}, canceled |-> {},
          sweeping |-> FALSE]

At(t, step) == pc[t] = step
Goto(t, step) == pc' = [pc EXCEPT ![t] = step] /\ UNCHANGED calls
Return(t) == Goto(t, "idle") /\ arg' = [arg EXCEPT ![t] = NoArg]

\* A caller starts a call; its first lock section is a step of its own.
Begin(t, step, a) ==
  /\ At(t, "idle") /\ calls < MaxCalls
  /\ pc' = [pc EXCEPT ![t] = step]
  /\ arg' = [arg EXCEPT ![t] = a]
  /\ calls' = calls + 1
  /\ UNCHANGED book

\* The orders section of a call succeeded: its event is still to be stored.
Emit(t, ev) == Goto(t, "event") /\ arg' = [arg EXCEPT ![t].ev = ev]

-----------------------------------------------------------------------------
(* submit_order.                                                           *)

CallSubmit(t) ==
  /\ "submit" \in Ops
  /\ \E id \in Ids, inst \in Instruments, strat \in Strategies,
        q \in Quantities :
       Begin(t, "duplicate", [NoArg EXCEPT !.id = id, !.inst = inst,
                                           !.strat = strat, !.qty = q])

CheckDuplicate(t) ==
  /\ At(t, "duplicate") /\ (AllowDuplicateIds \/ CanRead("orders"))
  /\ IF Live(arg[t].id) /\ ~AllowDuplicateIds
     THEN Return(t)
     ELSE Goto(t, "max_open") /\ UNCHANGED arg
  /\ UNCHANGED book

OpenOrders == {id \in Ids : IsOpen(id)}

CheckMaxOpen(t) ==
  /\ At(t, "max_open") /\ CanRead("orders")
  /\ IF Cardinality(OpenOrders) >= MaxOpenOrders
     THEN Return(t)
     ELSE Goto(t, "symbol_index") /\ UNCHANGED arg
  /\ UNCHANGED book

\* The per-symbol check keeps the index locked while it waits for orders.
LockSymbolIndex(t) ==
  /\ At(t, "symbol_index") /\ CanRead("orders_by_instrument")
  /\ Goto(t, "symbol_count") /\ UNCHANGED <<arg, book>>

OpenEntries(inst) ==
  {i \in DOMAIN byInstrument[inst] : IsOpen(byInstrument[inst][i])}

CheckSymbol(t) ==
  /\ At(t, "symbol_count") /\ CanRead("orders")
  /\ IF /\ byInstrument[arg[t].inst] # <<>>
        /\ Cardinality(OpenEntries(arg[t].inst)) >= MaxOrdersPerSymbol
     THEN Return(t)
     ELSE Goto(t, "session") /\ UNCHANGED arg
  /\ UNCHANGED book

CheckSession(t) ==
  /\ At(t, "session")
  /\ IF arg[t].inst \in ClosedMarkets
     THEN Return(t)
     ELSE Goto(t, "insert") /\ UNCHANGED arg
  /\ UNCHANGED book

InsertOrder(t) ==
  /\ At(t, "insert") /\ CanWrite("orders")
  /\ orders' = [orders EXCEPT ![arg[t].id] = NewOrder(arg[t])]
  /\ inserts' = [inserts EXCEPT ![arg[t].id] = @ + 1]
  /\ Goto(t, "index_instrument")
  /\ UNCHANGED <<venueToClient, byInstrument, byStrategy, events, arg>>

IndexInstrument(t) ==
  /\ At(t, "index_instrument") /\ CanWrite("orders_by_instrument")
  /\ byInstrument' = [byInstrument EXCEPT ![arg[t].inst] = Append(@, arg[t].id)]
  /\ Goto(t, "index_strategy")
  /\ UNCHANGED <<orders, venueToClient, byStrategy, events, inserts, arg>>

IndexStrategy(t) ==
  /\ At(t, "index_strategy") /\ CanWrite("orders_by_strategy")
  /\ byStrategy' = [byStrategy EXCEPT ![arg[t].strat] = Append(@, arg[t].id)]
  /\ Emit(t, Ev("Initialized"))
  /\ UNCHANGED <<orders, venueToClient, byInstrument, events, inserts>>

\* store_and_dispatch_event: the history grows after the orders lock was
\* dropped.  A sweep (cancel_all_orders) then goes on with its next order.
StoreEvent(t) ==
  /\ At(t, "event") /\ CanWrite("order_events")
  /\ events' = [events EXCEPT ![arg[t].id] = Append(@, arg[t].ev)]
  /\ IF arg[t].sweeping
     THEN Goto(t, "cancel_next") /\ arg' = [arg EXCEPT ![t].ev = None,
                                                       ![t].id = None]
     ELSE Return(t)
  /\ UNCHANGED <<orders, venueToClient, byInstrument, byStrategy, inserts>>

-----------------------------------------------------------------------------
(* Status changes: mark_submitted, mark_rejected, mark_denied,             *)
(* cancel_order, expire_order and mark_triggered share one shape.          *)

CallTransition(t) ==
  /\ "transition" \in Ops
  /\ \E id \in Ids, kind \in Transitions :
       Begin(t, "transition", [NoArg EXCEPT !.id = id, !.kind = kind])

\* transition_to's own check, and cancel's is_cancelable before it.
Allowed(id, kind) ==
  /\ Live(id) /\ kind \in CanTransitionTo[orders[id].status]
  /\ kind = "Canceled" => IsCancelable(id)

Transition(t, kind) ==
  LET id == arg[t].id IN
  /\ At(t, "transition") /\ arg[t].kind = kind /\ CanWrite("orders")
  /\ IF Allowed(id, kind)
     THEN /\ orders' = [orders EXCEPT ![id].status = kind]
          /\ Emit(t, Ev(kind))
     ELSE Return(t) /\ UNCHANGED orders
  /\ UNCHANGED <<venueToClient, byInstrument, byStrategy, events, inserts>>

MarkSubmitted(t) == Transition(t, "Submitted")
MarkRejected(t) == Transition(t, "Rejected")
MarkDenied(t) == Transition(t, "Denied")
ExpireOrder(t) == Transition(t, "Expired")
MarkTriggered(t) == Transition(t, "Triggered")
CancelOrder(t) == Transition(t, "Canceled")

\* A venue answers only for orders that some caller submitted.
Sent(id) == inserts[id] > 0

(* mark_accepted maps the venue id before it looks the order up.           *)

CallAccept(t) ==
  /\ "accept" \in Ops
  /\ \E id \in Ids : /\ Sent(id)
                     /\ Begin(t, "map_venue", [NoArg EXCEPT !.id = id])

\* Mutant of MapVenue: the venue id is mapped only for an order that can
\* still be accepted, although the order is looked at again later.
MapVenueIfOpen(t) ==
  /\ At(t, "map_venue") /\ CanWrite("venue_to_client")
  /\ venueToClient' = [venueToClient EXCEPT ![VenueIdOf[arg[t].id]] =
       IF Live(arg[t].id) /\ orders[arg[t].id].status = "Submitted"
       THEN arg[t].id ELSE @]
  /\ Goto(t, "accept")
  /\ UNCHANGED <<orders, byInstrument, byStrategy, events, inserts, arg>>

MapVenue(t) ==
  /\ At(t, "map_venue") /\ CanWrite("venue_to_client")
  /\ venueToClient' = [venueToClient EXCEPT ![VenueIdOf[arg[t].id]] = arg[t].id]
  /\ Goto(t, "accept")
  /\ UNCHANGED <<orders, byInstrument, byStrategy, events, inserts, arg>>

MarkAccepted(t) ==
  LET id == arg[t].id IN
  /\ At(t, "accept") /\ CanWrite("orders")
  /\ IF Live(id) /\ "Accepted" \in CanTransitionTo[orders[id].status]
     THEN /\ orders' = [orders EXCEPT ![id].status = "Accepted",
                                      ![id].venue = VenueIdOf[id]]
          /\ Emit(t, Ev("Accepted"))
     ELSE Return(t) /\ UNCHANGED orders
  /\ UNCHANGED <<venueToClient, byInstrument, byStrategy, events, inserts>>

(* apply_fill.                                                             *)

CallFill(t) ==
  /\ "fill" \in Ops
  /\ \E id \in Ids, q \in FillQuantities :
       /\ Sent(id)
       /\ Begin(t, "fill", [NoArg EXCEPT !.id = id, !.qty = q])

\* Mutant of ApplyFill: more than the remaining quantity can be filled.
ApplyAnyFill(t) ==
  LET id == arg[t].id
      q == arg[t].qty
  IN /\ At(t, "fill") /\ CanWrite("orders")
     /\ IF Live(id) /\ ~IsClosed(id)
        THEN /\ orders' = [orders EXCEPT ![id] = Filled(@, q)]
             /\ Emit(t, FillEv(q, orders[id].filled + q))
        ELSE Return(t) /\ UNCHANGED orders
     /\ UNCHANGED <<venueToClient, byInstrument, byStrategy, events, inserts>>

ApplyFill(t) ==
  LET id == arg[t].id
      q == arg[t].qty
  IN /\ At(t, "fill") /\ CanWrite("orders")
     /\ IF Live(id) /\ ~IsClosed(id) /\ q <= orders[id].leaves
        THEN /\ orders' = [orders EXCEPT ![id] = Filled(@, q)]
             /\ Emit(t, FillEv(q, orders[id].filled + q))
        ELSE Return(t) /\ UNCHANGED orders
     /\ UNCHANGED <<venueToClient, byInstrument, byStrategy, events, inserts>>

-----------------------------------------------------------------------------
(* cancel_all_orders and cancel_orders_for_symbol: a snapshot of the       *)
(* cancelable orders, then one cancel_order after another.                 *)

CallCancelAll(t) ==
  /\ "cancel_all" \in Ops
  /\ \E inst \in Instruments \cup {None} :
       Begin(t, "snapshot", [NoArg EXCEPT !.inst = inst, !.sweeping = TRUE])

SnapshotCancelable(t) ==
  /\ At(t, "snapshot") /\ CanRead("orders")
  /\ arg' = [arg EXCEPT ![t].todo =
       {id \in Ids : IsCancelable(id) /\ arg[t].inst \in {None, orders[id].inst}}]
  /\ Goto(t, "cancel_next") /\ UNCHANGED book

\* Mutant of CancelNext: every order of the snapshot is canceled, whatever
\* became of it since.
CancelSnapshot(t) ==
  /\ At(t, "cancel_next") /\ CanWrite("orders")
  /\ \E id \in arg[t].todo :
       IF Live(id)
       THEN /\ orders' = [orders EXCEPT ![id].status = "Canceled"]
            /\ arg' = [arg EXCEPT ![t].todo = @ \ {id}, ![t].id = id,
                                  ![t].canceled = @ \cup {id},
                                  ![t].ev = Ev("Canceled")]
            /\ Goto(t, "event")
       ELSE /\ arg' = [arg EXCEPT ![t].todo = @ \ {id}]
            /\ UNCHANGED <<orders, pc, calls>>
  /\ UNCHANGED <<venueToClient, byInstrument, byStrategy, events, inserts>>

\* Mutant of CancelNext: an order that cannot be canceled is tried again.
CancelRetry(t) ==
  /\ At(t, "cancel_next") /\ CanWrite("orders")
  /\ \E id \in arg[t].todo :
       IF IsCancelable(id)
       THEN /\ orders' = [orders EXCEPT ![id].status = "Canceled"]
            /\ arg' = [arg EXCEPT ![t].todo = @ \ {id}, ![t].id = id,
                                  ![t].canceled = @ \cup {id},
                                  ![t].ev = Ev("Canceled")]
            /\ Goto(t, "event")
       ELSE UNCHANGED <<orders, arg, pc, calls>>
  /\ UNCHANGED <<venueToClient, byInstrument, byStrategy, events, inserts>>

CancelNext(t) ==
  /\ At(t, "cancel_next") /\ CanWrite("orders")
  /\ \E id \in arg[t].todo :
       IF IsCancelable(id)
       THEN /\ orders' = [orders EXCEPT ![id].status = "Canceled"]
            /\ arg' = [arg EXCEPT ![t].todo = @ \ {id}, ![t].id = id,
                                  ![t].canceled = @ \cup {id},
                                  ![t].ev = Ev("Canceled")]
            /\ Goto(t, "event")
       ELSE /\ arg' = [arg EXCEPT ![t].todo = @ \ {id}]
            /\ UNCHANGED <<orders, pc, calls>>
  /\ UNCHANGED <<venueToClient, byInstrument, byStrategy, events, inserts>>

CancelAllDone(t) ==
  /\ At(t, "cancel_next") /\ arg[t].todo = {}
  /\ Return(t) /\ UNCHANGED book

-----------------------------------------------------------------------------
(* clear_closed_orders and reset keep every lock they took to the end.     *)

CallClear(t) == "clear" \in Ops /\ Begin(t, "clear_orders", NoArg)

ClearOrders(t) ==
  /\ At(t, "clear_orders") /\ CanWrite("orders")
  /\ LET closed == {id \in Ids : IsClosed(id)} IN
       /\ orders' = [id \in Ids |-> IF id \in closed THEN None ELSE orders[id]]
       /\ arg' = [arg EXCEPT ![t].todo = closed]
  /\ Goto(t, "clear_events")
  /\ UNCHANGED <<venueToClient, byInstrument, byStrategy, events, inserts>>

ClearEvents(t) ==
  /\ At(t, "clear_events") /\ CanWrite("order_events")
  /\ events' = [id \in Ids |-> IF id \in arg[t].todo THEN <<>> ELSE events[id]]
  /\ Return(t)
  /\ UNCHANGED <<orders, venueToClient, byInstrument, byStrategy, inserts>>

CallReset(t) == "reset" \in Ops /\ Begin(t, "reset_orders", NoArg)

ResetOrders(t) ==
  /\ At(t, "reset_orders") /\ CanWrite("orders")
  /\ orders' = [id \in Ids |-> None]
  /\ Goto(t, "reset_venue")
  /\ UNCHANGED <<venueToClient, byInstrument, byStrategy, events, inserts, arg>>

ResetVenue(t) ==
  /\ At(t, "reset_venue") /\ CanWrite("venue_to_client")
  /\ venueToClient' = [v \in VenueIds |-> None]
  /\ Goto(t, "reset_instrument")
  /\ UNCHANGED <<orders, byInstrument, byStrategy, events, inserts, arg>>

ResetInstrument(t) ==
  /\ At(t, "reset_instrument") /\ CanWrite("orders_by_instrument")
  /\ byInstrument' = [i \in Instruments |-> <<>>]
  /\ Goto(t, "reset_strategy")
  /\ UNCHANGED <<orders, venueToClient, byStrategy, events, inserts, arg>>

ResetStrategy(t) ==
  /\ At(t, "reset_strategy") /\ CanWrite("orders_by_strategy")
  /\ byStrategy' = [s \in Strategies |-> <<>>]
  /\ Goto(t, "reset_events")
  /\ UNCHANGED <<orders, venueToClient, byInstrument, events, inserts, arg>>

ResetEvents(t) ==
  /\ At(t, "reset_events") /\ CanWrite("order_events")
  /\ events' = [id \in Ids |-> <<>>]
  /\ Return(t)
  /\ UNCHANGED <<orders, venueToClient, byInstrument, byStrategy, inserts>>

-----------------------------------------------------------------------------
(* Queries that hold an index while they wait for orders.  They change     *)
(* nothing, but they make others wait.                                     *)

CallLookup(t) ==
  /\ "lookup" \in Ops
  /\ \E l \in Lookups, id \in Ids :
       Begin(t, "lookup", [NoArg EXCEPT !.kind = l, !.id = id])

LockIndex(t) ==
  /\ At(t, "lookup") /\ CanRead(arg[t].kind)
  /\ CASE arg[t].kind = "orders_by_instrument" ->
            Goto(t, "read_instrument") /\ UNCHANGED arg
       [] arg[t].kind = "orders_by_strategy" ->
            Goto(t, "read_strategy") /\ UNCHANGED arg
       [] venueToClient[VenueIdOf[arg[t].id]] # None ->
            Goto(t, "read_venue") /\ UNCHANGED arg
       [] OTHER -> Return(t)
  /\ UNCHANGED book

ReadOrders(t) ==
  /\ pc[t] \in {"read_instrument", "read_strategy", "read_venue"}
  /\ CanRead("orders")
  /\ Return(t) /\ UNCHANGED book

-----------------------------------------------------------------------------
Init ==
  /\ orders = [id \in Ids |-> None]
  /\ venueToClient = [v \in VenueIds |-> None]
  /\ byInstrument = [i \in Instruments |-> <<>>]
  /\ byStrategy = [s \in Strategies |-> <<>>]
  /\ events = [id \in Ids |-> <<>>]
  /\ inserts = [id \in Ids |-> 0]
  /\ pc = [t \in Tasks |-> "idle"]
  /\ arg = [t \in Tasks |-> NoArg]
  /\ calls = 0

Submit(t) ==
  \/ CheckDuplicate(t) \/ CheckMaxOpen(t) \/ LockSymbolIndex(t)
  \/ CheckSymbol(t) \/ CheckSession(t) \/ InsertOrder(t)
  \/ IndexInstrument(t) \/ IndexStrategy(t)

ChangeStatus(t) ==
  \/ MarkSubmitted(t) \/ MarkRejected(t) \/ MarkDenied(t) \/ CancelOrder(t)
  \/ ExpireOrder(t) \/ MarkTriggered(t)
  \/ MapVenue(t) \/ MarkAccepted(t) \/ ApplyFill(t)

CancelAll(t) == SnapshotCancelable(t) \/ CancelNext(t) \/ CancelAllDone(t)
ClearClosed(t) == ClearOrders(t) \/ ClearEvents(t)

Reset(t) ==
  \/ ResetOrders(t) \/ ResetVenue(t) \/ ResetInstrument(t)
  \/ ResetStrategy(t) \/ ResetEvents(t)

Lookup(t) == LockIndex(t) \/ ReadOrders(t)

\* A started call goes on with its next lock section.
Continue(t) ==
  \/ Submit(t) \/ StoreEvent(t) \/ ChangeStatus(t) \/ CancelAll(t)
  \/ ClearClosed(t) \/ Reset(t) \/ Lookup(t)

Call(t) ==
  \/ CallSubmit(t) \/ CallTransition(t) \/ CallAccept(t) \/ CallFill(t)
  \/ CallCancelAll(t) \/ CallClear(t) \/ CallReset(t) \/ CallLookup(t)

Next == \E t \in Tasks : Call(t) \/ Continue(t)

Spec == Init /\ [][Next]_vars

\* tokio polls a woken task again and its RwLock queues waiters in order, so
\* a section that stays possible is entered.  Nobody has to start a call.
FairSpec == Spec /\ \A t \in Tasks : WF_vars(Continue(t))

-----------------------------------------------------------------------------
(* Properties.                                                             *)

\* Every variable has its type.
TypeOK ==
  /\ orders \in [Ids -> Order \cup {None}]
  /\ venueToClient \in [VenueIds -> Ids \cup {None}]
  /\ byInstrument \in [Instruments -> Seq(Ids)]
  /\ byStrategy \in [Strategies -> Seq(Ids)]
  /\ events \in [Ids -> Seq(Event)]
  /\ inserts \in [Ids -> Nat]
  /\ pc \in [Tasks -> Steps]
  /\ arg \in [Tasks -> Arg]
  /\ calls \in Nat

\* What an order says of its quantity is consistent whatever calls race on it:
\* filled and leaves add up to the quantity, and it is Filled exactly when
\* nothing is left (apply_fill reads and writes under one lock section).
OrderQuantities(o) ==
  /\ o.filled + o.leaves = o.qty
  /\ o.status = "Filled" <=> o.leaves = 0

QuantitiesConsistent == \A id \in Ids : Live(id) => OrderQuantities(orders[id])

Listed(index, key, id) == \E i \in DOMAIN index[key] : index[key][i] = id

\* An order in the orders map can be found through its instrument and its
\* strategy, or its submit_order is about to add it: no interleaving of
\* submissions, overwrites, clears and resets leaves an order unindexed
\* (reset keeps the orders lock until the indexes are empty).
InstrumentIndexed(id) ==
  \/ Listed(byInstrument, orders[id].inst, id)
  \/ \E t \in Tasks : /\ At(t, "index_instrument") /\ arg[t].id = id
                      /\ arg[t].inst = orders[id].inst

StrategyIndexed(id) ==
  \/ Listed(byStrategy, orders[id].strat, id)
  \/ \E t \in Tasks : /\ pc[t] \in {"index_instrument", "index_strategy"}
                      /\ arg[t].id = id /\ arg[t].strat = orders[id].strat

IndexComplete ==
  \A id \in Ids : Live(id) => InstrumentIndexed(id) /\ StrategyIndexed(id)

\* The ids below were given to one order only.
FreshLive(id) == Live(id) /\ inserts[id] = 1

StoredOf(id, P(_)) == Cardinality({i \in DOMAIN events[id] : P(events[id][i])})
PendingOf(id, P(_)) ==
  Cardinality({t \in Tasks : At(t, "event") /\ arg[t].id = id /\ P(arg[t].ev)})
Recorded(id, P(_)) == StoredOf(id, P) + PendingOf(id, P)

\* The history of an order, with the events still on their way to it, tells
\* what happened to the order: the fills cover each filled unit exactly once,
\* and there is one terminal event if the order is closed and none before.
HistoryExact ==
  \A id \in Ids : FreshLive(id) =>
    LET EndsOrder(e) == IF e.kind = "Filled" THEN e.cum = orders[id].qty
                                             ELSE e.kind \in Terminal
        Unit(n) == LET Covers(e) == e.kind = "Filled" /\ e.cum - e.qty < n /\ n <= e.cum
                   IN Recorded(id, Covers)
    IN /\ \A n \in 1 .. orders[id].qty :
            Unit(n) = IF n <= orders[id].filled THEN 1 ELSE 0
       /\ Recorded(id, EndsOrder) = IF IsClosed(id) THEN 1 ELSE 0

\* An accepted order can be found by the venue id it carries, although the
\* mapping and the order are written under different locks.
VenueMapped ==
  \A id \in Ids : FreshLive(id) /\ orders[id].venue # None =>
    venueToClient[orders[id].venue] = id

\* Concurrent cancel_all_orders calls report each canceled order once
\* (test_concurrent_cancel_all: "each order canceled once"), and what one
\* reports is canceled or gone.
CancelReportedOnce ==
  \A id \in Ids, t \in Tasks :
    inserts[id] = 1 /\ id \in arg[t].canceled =>
      /\ Live(id) => orders[id].status = "Canceled"
      /\ \A u \in Tasks \ {t} : id \notin arg[u].canceled

\* A closed order is final: no later call changes it. It can only be removed,
\* or replaced by a new submission under the same id.
ClosedOrdersFinal ==
  [][\A id \in Ids : IsClosed(id) => \/ orders'[id] \in {orders[id], None}
                                     \/ inserts'[id] # inserts[id]]_vars

\* Whatever the number of tasks, only one pattern of waiting can bring every
\* call to a standstill: a reset that wants an index for writing while another
\* task reads that index.  Calls without a reset among them always have one
\* that can go on (the locks are taken in the order index, orders,
\* order_events, and no call but reset keeps more than one).
MustWait(t) ==
  \/ \E l \in ReadTaken(t) : ~CanRead(l)
  \/ \E l \in WriteTaken(t) : ~CanWrite(l)

Standstill ==
  /\ \E t \in Tasks : ~At(t, "idle")
  /\ \A t \in Tasks : ~At(t, "idle") => MustWait(t)

ResetAgainstReader ==
  \E t, u \in Tasks :
    /\ pc[t] \in {"reset_venue", "reset_instrument", "reset_strategy"}
    /\ WriteTaken(t) \cap ReadHeld[pc[u]] # {}

OnlyResetStandsStill == Standstill => ResetAgainstReader

\* max_open_orders is the "Maximum number of open orders allowed".
OpenOrdersWithinLimit == Cardinality(OpenOrders) <= MaxOpenOrders

\* Every call returns.
CallsReturn == \A t \in Tasks : ~At(t, "idle") ~> At(t, "idle")

\* Every call returns, a sweep over orders that others fill, cancel or remove
\* included, unless all calls under way come to a standstill first, which
\* takes a reset (OnlyResetStandsStill): no call is passed over for ever while
\* others go on.
CallsReturnOrStandStill ==
  \A t \in Tasks : ~At(t, "idle") ~> At(t, "idle") \/ Standstill

=============================================================================
