------------------------- MODULE OrderManagerProofs -------------------------
(***************************************************************************)
(* Theorems about OrderManager for every value of its constants.  TypeInv  *)
(* strengthens TypeOK with what a call's arguments are at each step; it is *)
(* the invariant every other proof uses.                                   *)
(***************************************************************************)
EXTENDS OrderManager, TLAPS

SubmitSteps == {"duplicate", "max_open", "symbol_index", "symbol_count",
                "session", "insert", "index_instrument", "index_strategy"}
IdSteps == SubmitSteps \cup {"event", "transition", "map_venue", "accept",
                             "fill", "lookup"}

\* The arguments a has what the lock section step reads from it.
WellFormed(step, a) ==
  /\ step \in IdSteps => a.id \in Ids
  /\ step \in SubmitSteps => /\ a.inst \in Instruments /\ a.strat \in Strategies
                             /\ a.qty \in Quantities
  /\ step = "event" => a.ev \in Event

\* Orders of the declared type whose quantities are consistent.
GoodOrder == {o \in Order : OrderQuantities(o)}

BookType ==
  /\ \A id \in Ids : Live(id) => orders[id] \in GoodOrder
  /\ orders \in [Ids -> Order \cup {None}]
  /\ venueToClient \in [VenueIds -> Ids \cup {None}]
  /\ byInstrument \in [Instruments -> Seq(Ids)]
  /\ byStrategy \in [Strategies -> Seq(Ids)]
  /\ events \in [Ids -> Seq(Event)]
  /\ inserts \in [Ids -> Nat]

CallsInv ==
  /\ pc \in [Tasks -> Steps]
  /\ arg \in [Tasks -> Arg]
  /\ calls \in Nat
  /\ \A t \in Tasks : WellFormed(pc[t], arg[t])

TypeInv == BookType /\ CallsInv

-----------------------------------------------------------------------------
(* What the step helpers preserve.                                         *)

LEMMA NoArgType == NoArg \in Arg /\ WellFormed("idle", NoArg)
BY DEF NoArg, Arg, WellFormed, IdSteps, SubmitSteps

\* A task that moves to a step with arguments that fit it.
LEMMA MoveInv ==
  ASSUME CallsInv, NEW t \in Tasks, NEW step \in Steps, NEW a \in Arg,
         WellFormed(step, a), calls' \in Nat,
         pc' = [pc EXCEPT ![t] = step], arg' = [arg EXCEPT ![t] = a]
  PROVE  CallsInv'
<1>1. pc' \in [Tasks -> Steps] /\ arg' \in [Tasks -> Arg]
  BY DEF CallsInv
<1>2. ASSUME NEW u \in Tasks PROVE WellFormed(pc[u], arg[u])'
  <2>1. CASE u = t
    <3>1. pc'[u] = step /\ arg'[u] = a
      BY <2>1 DEF CallsInv
    <3> QED BY <3>1 DEF WellFormed
  <2>2. CASE u # t
    <3>1. pc'[u] = pc[u] /\ arg'[u] = arg[u]
      BY <2>2 DEF CallsInv
    <3> QED BY <3>1 DEF WellFormed, CallsInv
  <2> QED BY <2>1, <2>2
<1> QED BY <1>1, <1>2 DEF CallsInv

LEMMA BeginInv ==
  ASSUME TypeInv, NEW t \in Tasks, NEW step \in Steps, NEW a \in Arg,
         WellFormed(step, a), Begin(t, step, a)
  PROVE  TypeInv'
<1>1. CallsInv'
  BY MoveInv DEF TypeInv, CallsInv, Begin
<1> QED BY <1>1 DEF TypeInv, BookType, Live, Begin, book

LEMMA ReturnInv ==
  ASSUME CallsInv, NEW t \in Tasks, Return(t)
  PROVE  CallsInv'
BY NoArgType, MoveInv DEF Return, Goto, Steps, CallsInv

LEMMA GotoInv ==
  ASSUME CallsInv, NEW t \in Tasks, NEW step \in Steps, Goto(t, step),
         UNCHANGED arg, WellFormed(step, arg[t])
  PROVE  CallsInv'
<1>1. arg[t] \in Arg /\ arg' = [arg EXCEPT ![t] = arg[t]]
  BY DEF CallsInv
<1> QED BY <1>1, MoveInv DEF Goto, CallsInv

LEMMA EmitInv ==
  ASSUME CallsInv, NEW t \in Tasks, NEW ev \in Event, Emit(t, ev),
         arg[t].id \in Ids
  PROVE  CallsInv'
<1> DEFINE a == [arg[t] EXCEPT !.ev = ev]
<1>1. arg[t] \in Arg
  BY DEF CallsInv
<1>2. a \in Arg
  BY <1>1 DEF Arg
<1>3. a.id = arg[t].id /\ a.ev = ev
  BY <1>1 DEF Arg
<1>4. WellFormed("event", a)
  BY <1>3 DEF WellFormed, SubmitSteps
<1>5. arg' = [arg EXCEPT ![t] = a]
  BY DEF Emit
<1> HIDE DEF a
<1> QED BY <1>2, <1>4, <1>5, MoveInv DEF Emit, Goto, Steps, CallsInv

\* Events and orders built by the handlers are of their types.
LEMMA EventType ==
  /\ \A kind \in Kinds : Ev(kind) \in Event
  /\ \A q, c \in Nat : FillEv(q, c) \in Event
BY DEF Ev, FillEv, Event, Kinds, Statuses, Terminal

LEMMA NewOrderType ==
  ASSUME NEW a \in Arg, WellFormed("insert", a)
  PROVE  NewOrder(a) \in GoodOrder
<1>1. a.inst \in Instruments /\ a.strat \in Strategies /\ a.qty \in Nat \ {0}
  BY OrderManagerAssumption DEF WellFormed, SubmitSteps
<1>2. NewOrder(a) \in Order
  BY <1>1 DEF NewOrder, Order, Statuses, OpenStatus
<1>3. OrderQuantities(NewOrder(a))
  BY <1>1 DEF NewOrder, OrderQuantities
<1> QED BY <1>2, <1>3 DEF GoodOrder

\* A change of status by anything but a fill keeps the quantities.
LEMMA StatusType ==
  ASSUME NEW o \in GoodOrder, NEW s \in Transitions \cup {"Accepted"},
         s \in CanTransitionTo[o.status], NEW v \in VenueIds \cup {None}
  PROVE  /\ [o EXCEPT !.status = s] \in GoodOrder
         /\ [o EXCEPT !.status = s, !.venue = v] \in GoodOrder
<1>1. o \in Order /\ OrderQuantities(o)
  BY DEF GoodOrder
<1>2. o.status # "Filled"
  BY <1>1 DEF CanTransitionTo, Order, Statuses, Terminal, OpenStatus
<1>3. s \in Statuses /\ s # "Filled"
  BY DEF Transitions, Statuses, Terminal, OpenStatus
<1>4. [o EXCEPT !.status = s] \in Order /\ [o EXCEPT !.status = s, !.venue = v] \in Order
  BY <1>1, <1>3 DEF Order
<1>5. /\ OrderQuantities([o EXCEPT !.status = s])
      /\ OrderQuantities([o EXCEPT !.status = s, !.venue = v])
  BY <1>1, <1>2, <1>3 DEF OrderQuantities, Order
<1> QED BY <1>4, <1>5 DEF GoodOrder

LEMMA FilledType ==
  ASSUME NEW o \in GoodOrder, NEW q \in Nat, q <= o.leaves
  PROVE  Filled(o, q) \in GoodOrder
<1>1. o \in Order /\ OrderQuantities(o)
  BY DEF GoodOrder
<1>2. /\ o.qty \in Nat /\ o.filled \in Nat /\ o.leaves \in Nat
      /\ o.filled + o.leaves = o.qty
  BY <1>1 DEF Order, OrderQuantities
<1> DEFINE rest == o.qty - (o.filled + q)
           status == IF o.qty = o.filled + q THEN "Filled" ELSE "PartiallyFilled"
<1>3. rest \in Nat /\ (o.filled + q) \in Nat /\ status \in Statuses
  BY <1>2 DEF Statuses, Terminal, OpenStatus
<1>4. Filled(o, q) = [o EXCEPT !.filled = o.filled + q, !.leaves = rest,
                               !.status = status]
  BY <1>1 DEF Filled, Order
<1>5. rest = 0 <=> status = "Filled"
  BY <1>2
<1>6. o.filled + q + rest = o.qty
  BY <1>2
<1> HIDE DEF rest, status
<1>7. Filled(o, q) \in Order
  BY <1>1, <1>3, <1>4 DEF Order
<1>8. OrderQuantities(Filled(o, q))
  BY <1>1, <1>3, <1>4, <1>5, <1>6 DEF OrderQuantities, Order
<1> QED BY <1>7, <1>8 DEF GoodOrder

-----------------------------------------------------------------------------
(* Every action preserves TypeInv.                                         *)

LEMMA CallTypeInv ==
  ASSUME TypeInv, NEW t \in Tasks, Call(t)
  PROVE  TypeInv'
<1> USE DEF WellFormed, SubmitSteps, IdSteps
<1>1. CASE CallSubmit(t)
  <2>1. PICK id \in Ids, inst \in Instruments, strat \in Strategies, q \in Quantities :
          Begin(t, "duplicate", [NoArg EXCEPT !.id = id, !.inst = inst,
                                              !.strat = strat, !.qty = q])
    BY <1>1 DEF CallSubmit
  <2> DEFINE a == [NoArg EXCEPT !.id = id, !.inst = inst, !.strat = strat, !.qty = q]
  <2>2. a \in Arg /\ WellFormed("duplicate", a)
    BY OrderManagerAssumption DEF NoArg, Arg
  <2> HIDE DEF a
  <2> QED BY <2>1, <2>2, BeginInv DEF Steps, a
<1>2. CASE CallTransition(t)
  <2>1. PICK id \in Ids, kind \in Transitions :
          Begin(t, "transition", [NoArg EXCEPT !.id = id, !.kind = kind])
    BY <1>2 DEF CallTransition
  <2>2. /\ [NoArg EXCEPT !.id = id, !.kind = kind] \in Arg
        /\ WellFormed("transition", [NoArg EXCEPT !.id = id, !.kind = kind])
    BY DEF NoArg, Arg
  <2> QED BY <2>1, <2>2, BeginInv DEF Steps
<1>3. CASE CallAccept(t)
  <2>1. PICK id \in Ids : Begin(t, "map_venue", [NoArg EXCEPT !.id = id])
    BY <1>3 DEF CallAccept
  <2>2. /\ [NoArg EXCEPT !.id = id] \in Arg
        /\ WellFormed("map_venue", [NoArg EXCEPT !.id = id])
    BY DEF NoArg, Arg
  <2> QED BY <2>1, <2>2, BeginInv DEF Steps
<1>4. CASE CallFill(t)
  <2>1. PICK id \in Ids, q \in FillQuantities :
          Begin(t, "fill", [NoArg EXCEPT !.id = id, !.qty = q])
    BY <1>4 DEF CallFill
  <2>2. /\ [NoArg EXCEPT !.id = id, !.qty = q] \in Arg
        /\ WellFormed("fill", [NoArg EXCEPT !.id = id, !.qty = q])
    BY OrderManagerAssumption DEF NoArg, Arg
  <2> QED BY <2>1, <2>2, BeginInv DEF Steps
<1>5. CASE CallCancelAll(t)
  <2>1. PICK inst \in Instruments \cup {None} :
          Begin(t, "snapshot", [NoArg EXCEPT !.inst = inst, !.sweeping = TRUE])
    BY <1>5 DEF CallCancelAll
  <2>2. /\ [NoArg EXCEPT !.inst = inst, !.sweeping = TRUE] \in Arg
        /\ WellFormed("snapshot", [NoArg EXCEPT !.inst = inst, !.sweeping = TRUE])
    BY DEF NoArg, Arg
  <2> QED BY <2>1, <2>2, BeginInv DEF Steps
<1>6. CASE CallClear(t)
  BY <1>6, BeginInv, NoArgType DEF CallClear, Steps
<1>7. CASE CallReset(t)
  BY <1>7, BeginInv, NoArgType DEF CallReset, Steps
<1>8. CASE CallLookup(t)
  <2>1. PICK l \in Lookups, id \in Ids :
          Begin(t, "lookup", [NoArg EXCEPT !.kind = l, !.id = id])
    BY <1>8 DEF CallLookup
  <2>2. /\ [NoArg EXCEPT !.kind = l, !.id = id] \in Arg
        /\ WellFormed("lookup", [NoArg EXCEPT !.kind = l, !.id = id])
    BY DEF NoArg, Arg
  <2> QED BY <2>1, <2>2, BeginInv DEF Steps
<1> QED BY <1>1, <1>2, <1>3, <1>4, <1>5, <1>6, <1>7, <1>8 DEF Call

\* A section that leaves the book alone only has to keep CallsInv.
LEMMA SameBook ==
  ASSUME TypeInv, UNCHANGED book, CallsInv'
  PROVE  TypeInv'
BY DEF TypeInv, BookType, Live, book

\* A section that writes one order keeps BookType if the order is good.
LEMMA OrderUpdate ==
  ASSUME BookType, NEW id \in Ids, NEW o \in GoodOrder,
         orders' = [orders EXCEPT ![id] = o], inserts' \in [Ids -> Nat],
         UNCHANGED <<venueToClient, byInstrument, byStrategy, events>>
  PROVE  BookType'
<1>1. o \in Order
  BY DEF GoodOrder
<1>2. orders' \in [Ids -> Order \cup {None}]
  BY <1>1 DEF BookType
<1>3. ASSUME NEW i \in Ids, Live(i)' PROVE orders'[i] \in GoodOrder
  <2>1. orders'[i] = IF i = id THEN o ELSE orders[i]
    BY DEF BookType
  <2> QED BY <1>3, <2>1 DEF BookType, Live
<1> QED BY <1>2, <1>3 DEF BookType

LEMMA SubmitTypeInv ==
  ASSUME TypeInv, NEW t \in Tasks, Submit(t)
  PROVE  TypeInv'
<1> USE DEF TypeInv
<1>0. CallsInv /\ WellFormed(pc[t], arg[t]) /\ arg[t] \in Arg
  BY DEF CallsInv
<1>1. CASE CheckDuplicate(t)
  <2>1. WellFormed("max_open", arg[t])
    BY <1>0, <1>1 DEF CheckDuplicate, At, WellFormed, SubmitSteps, IdSteps
  <2>2. CallsInv'
    BY <1>1, <2>1, ReturnInv, GotoInv DEF CheckDuplicate, Steps
  <2> QED BY <1>1, <2>2, SameBook DEF CheckDuplicate
<1>2. CASE CheckMaxOpen(t)
  <2>1. WellFormed("symbol_index", arg[t])
    BY <1>0, <1>2 DEF CheckMaxOpen, At, WellFormed, SubmitSteps, IdSteps
  <2>2. CallsInv'
    BY <1>2, <2>1, ReturnInv, GotoInv DEF CheckMaxOpen, Steps
  <2> QED BY <1>2, <2>2, SameBook DEF CheckMaxOpen
<1>3. CASE LockSymbolIndex(t)
  <2>1. WellFormed("symbol_count", arg[t])
    BY <1>0, <1>3 DEF LockSymbolIndex, At, WellFormed, SubmitSteps, IdSteps
  <2>2. CallsInv'
    BY <1>3, <2>1, GotoInv DEF LockSymbolIndex, Steps
  <2> QED BY <1>3, <2>2, SameBook DEF LockSymbolIndex
<1>4. CASE CheckSymbol(t)
  <2>1. WellFormed("session", arg[t])
    BY <1>0, <1>4 DEF CheckSymbol, At, WellFormed, SubmitSteps, IdSteps
  <2>2. CallsInv'
    BY <1>4, <2>1, ReturnInv, GotoInv DEF CheckSymbol, Steps
  <2> QED BY <1>4, <2>2, SameBook DEF CheckSymbol
<1>5. CASE CheckSession(t)
  <2>1. WellFormed("insert", arg[t])
    BY <1>0, <1>5 DEF CheckSession, At, WellFormed, SubmitSteps, IdSteps
  <2>2. CallsInv'
    BY <1>5, <2>1, ReturnInv, GotoInv DEF CheckSession, Steps
  <2> QED BY <1>5, <2>2, SameBook DEF CheckSession
<1>6. CASE InsertOrder(t)
  <2>1. WellFormed("insert", arg[t]) /\ WellFormed("index_instrument", arg[t])
    BY <1>0, <1>6 DEF InsertOrder, At, WellFormed, SubmitSteps, IdSteps
  <2>2. CallsInv'
    BY <1>6, <2>1, GotoInv DEF InsertOrder, Steps
  <2>3. arg[t].id \in Ids /\ NewOrder(arg[t]) \in GoodOrder
    BY <1>0, <2>1, NewOrderType DEF WellFormed, IdSteps, SubmitSteps
  <2>4. inserts' \in [Ids -> Nat]
    BY <1>6, <2>3 DEF BookType, InsertOrder
  <2>5. BookType'
    BY <1>6, <2>3, <2>4, OrderUpdate DEF InsertOrder
  <2> QED BY <2>2, <2>5
<1>7. CASE IndexInstrument(t)
  <2>1. WellFormed("index_instrument", arg[t]) /\ WellFormed("index_strategy", arg[t])
    BY <1>0, <1>7 DEF IndexInstrument, At, WellFormed, SubmitSteps, IdSteps
  <2>2. CallsInv'
    BY <1>7, <2>1, GotoInv DEF IndexInstrument, Steps
  <2>3. arg[t].id \in Ids /\ arg[t].inst \in Instruments
    BY <2>1 DEF WellFormed, SubmitSteps, IdSteps
  <2>4. BookType'
    BY <1>7, <2>3 DEF BookType, IndexInstrument, Live
  <2> QED BY <2>2, <2>4
<1>8. CASE IndexStrategy(t)
  <2>1. arg[t].id \in Ids /\ arg[t].strat \in Strategies
    BY <1>0, <1>8 DEF IndexStrategy, At, WellFormed, SubmitSteps, IdSteps
  <2>2. Ev("Initialized") \in Event
    BY EventType DEF Kinds, Statuses, OpenStatus
  <2>3. CallsInv'
    BY <1>8, <2>1, <2>2, EmitInv DEF IndexStrategy
  <2>4. BookType'
    BY <1>8, <2>1 DEF BookType, IndexStrategy, Live
  <2> QED BY <2>3, <2>4
<1> QED BY <1>1, <1>2, <1>3, <1>4, <1>5, <1>6, <1>7, <1>8 DEF Submit

LEMMA StoreTypeInv ==
  ASSUME TypeInv, NEW t \in Tasks, StoreEvent(t)
  PROVE  TypeInv'
<1>0. CallsInv /\ BookType /\ arg[t] \in Arg
  BY DEF TypeInv, CallsInv
<1>1. arg[t].id \in Ids /\ arg[t].ev \in Event
  BY <1>0 DEF StoreEvent, At, CallsInv, WellFormed, IdSteps
<1>2. BookType'
  BY <1>0, <1>1 DEF StoreEvent, BookType, Live
<1>3. CallsInv'
  <2>1. CASE Return(t)
    BY <1>0, <2>1, ReturnInv
  <2>2. CASE /\ Goto(t, "cancel_next")
             /\ arg' = [arg EXCEPT ![t].ev = None, ![t].id = None]
    <3> DEFINE a == [arg[t] EXCEPT !.ev = None, !.id = None]
    <3>1. a \in Arg
      BY <1>0 DEF Arg
    <3>2. WellFormed("cancel_next", a)
      BY DEF WellFormed, IdSteps, SubmitSteps
    <3>3. arg' = [arg EXCEPT ![t] = a]
      BY <1>0, <2>2 DEF CallsInv
    <3> HIDE DEF a
    <3> QED BY <1>0, <2>2, <3>1, <3>2, <3>3, MoveInv DEF Goto, Steps, CallsInv
  <2> QED BY <2>1, <2>2 DEF StoreEvent
<1> QED BY <1>2, <1>3 DEF TypeInv

\* The handlers that end in transition_to.
LEMMA TransitionTypeInv ==
  ASSUME TypeInv, NEW t \in Tasks, NEW kind \in Transitions, Transition(t, kind)
  PROVE  TypeInv'
<1> DEFINE id == arg[t].id
           moved == [orders[id] EXCEPT !.status = kind]
<1>0. CallsInv /\ BookType /\ id \in Ids
  BY DEF TypeInv, CallsInv, Transition, At, WellFormed, IdSteps
<1>1. CASE Allowed(id, kind)
  <2>1. orders[id] \in GoodOrder
    BY <1>0, <1>1 DEF Allowed, BookType
  <2>2. moved \in GoodOrder
    BY <1>1, <2>1, StatusType DEF Allowed
  <2>3. orders' = [orders EXCEPT ![id] = moved] /\ Emit(t, Ev(kind))
    BY <1>1 DEF Transition
  <2>4. Ev(kind) \in Event
    BY EventType DEF Kinds, Transitions, Statuses, OpenStatus, Terminal
  <2>5. inserts' \in [Ids -> Nat] /\ UNCHANGED <<venueToClient, byInstrument, byStrategy, events>>
    BY <1>0 DEF Transition, BookType
  <2> HIDE DEF moved
  <2>6. BookType'
    BY <1>0, <2>2, <2>3, <2>5, OrderUpdate
  <2>7. CallsInv'
    BY <1>0, <2>3, <2>4, EmitInv
  <2> QED BY <2>6, <2>7 DEF TypeInv
<1>2. CASE ~Allowed(id, kind)
  <2>1. Return(t) /\ UNCHANGED book
    BY <1>2 DEF Transition, book
  <2> QED BY <1>0, <2>1, ReturnInv, SameBook
<1> QED BY <1>1, <1>2

LEMMA AcceptTypeInv ==
  ASSUME TypeInv, NEW t \in Tasks, MapVenue(t) \/ MarkAccepted(t)
  PROVE  TypeInv'
<1> DEFINE id == arg[t].id
           moved == [orders[id] EXCEPT !.status = "Accepted", !.venue = VenueIdOf[id]]
<1>0. CallsInv /\ BookType /\ id \in Ids /\ VenueIdOf[id] \in VenueIds
  BY OrderManagerAssumption
     DEF TypeInv, CallsInv, MapVenue, MarkAccepted, At, WellFormed, IdSteps
<1>1. CASE MapVenue(t)
  <2>1. BookType'
    BY <1>0, <1>1 DEF MapVenue, BookType, Live
  <2>2. CallsInv'
    BY <1>0, <1>1, GotoInv DEF MapVenue, Steps, WellFormed, SubmitSteps
  <2> QED BY <2>1, <2>2 DEF TypeInv
<1>2. CASE MarkAccepted(t) /\ Live(id) /\ "Accepted" \in CanTransitionTo[orders[id].status]
  <2>1. orders[id] \in GoodOrder
    BY <1>0, <1>2 DEF BookType
  <2>2. moved \in GoodOrder
    BY <1>0, <1>2, <2>1, StatusType
  <2>3. orders' = [orders EXCEPT ![id] = moved] /\ Emit(t, Ev("Accepted"))
    BY <1>0, <1>2 DEF MarkAccepted, BookType
  <2>4. Ev("Accepted") \in Event
    BY EventType DEF Kinds, Statuses, OpenStatus
  <2>5. inserts' \in [Ids -> Nat] /\ UNCHANGED <<venueToClient, byInstrument, byStrategy, events>>
    BY <1>0, <1>2 DEF MarkAccepted, BookType
  <2> HIDE DEF moved
  <2>6. BookType'
    BY <1>0, <2>2, <2>3, <2>5, OrderUpdate
  <2>7. CallsInv'
    BY <1>0, <2>3, <2>4, EmitInv
  <2> QED BY <2>6, <2>7 DEF TypeInv
<1>3. CASE MarkAccepted(t) /\ ~(Live(id) /\ "Accepted" \in CanTransitionTo[orders[id].status])
  <2>1. Return(t) /\ UNCHANGED book
    BY <1>3 DEF MarkAccepted, book
  <2> QED BY <1>0, <2>1, ReturnInv, SameBook
<1> QED BY <1>1, <1>2, <1>3

LEMMA FillTypeInv ==
  ASSUME TypeInv, NEW t \in Tasks, ApplyFill(t)
  PROVE  TypeInv'
<1> DEFINE id == arg[t].id
           q == arg[t].qty
<1>0. CallsInv /\ BookType /\ id \in Ids /\ q \in Nat
  BY DEF TypeInv, CallsInv, ApplyFill, At, WellFormed, IdSteps, Arg
<1>1. CASE Live(id) /\ ~IsClosed(id) /\ q <= orders[id].leaves
  <2>1. orders[id] \in GoodOrder /\ orders[id].filled \in Nat
    BY <1>0, <1>1 DEF BookType, GoodOrder, Order
  <2>2. Filled(orders[id], q) \in GoodOrder
    BY <1>0, <1>1, <2>1, FilledType
  <2>3. /\ orders' = [orders EXCEPT ![id] = Filled(orders[id], q)]
        /\ Emit(t, FillEv(q, orders[id].filled + q))
    BY <1>0, <1>1 DEF ApplyFill, BookType
  <2>4. FillEv(q, orders[id].filled + q) \in Event
    BY <1>0, <2>1, EventType
  <2>5. inserts' \in [Ids -> Nat] /\ UNCHANGED <<venueToClient, byInstrument, byStrategy, events>>
    BY <1>0 DEF ApplyFill, BookType
  <2>6. BookType'
    BY <1>0, <2>2, <2>3, <2>5, OrderUpdate
  <2>7. CallsInv'
    BY <1>0, <2>3, <2>4, EmitInv
  <2> QED BY <2>6, <2>7 DEF TypeInv
<1>2. CASE ~(Live(id) /\ ~IsClosed(id) /\ q <= orders[id].leaves)
  <2>1. Return(t) /\ UNCHANGED book
    BY <1>2 DEF ApplyFill, book
  <2> QED BY <1>0, <2>1, ReturnInv, SameBook
<1> QED BY <1>1, <1>2

LEMMA CancelAllTypeInv ==
  ASSUME TypeInv, NEW t \in Tasks, CancelAll(t)
  PROVE  TypeInv'
<1>0. CallsInv /\ BookType /\ arg[t] \in Arg
  BY DEF TypeInv, CallsInv
<1>1. CASE SnapshotCancelable(t)
  <2> DEFINE ids == {id \in Ids : IsCancelable(id) /\ arg[t].inst \in {None, orders[id].inst}}
             a == [arg[t] EXCEPT !.todo = ids]
  <2>1. ids \in SUBSET Ids
    OBVIOUS
  <2>2. arg' = [arg EXCEPT ![t] = a] /\ Goto(t, "cancel_next") /\ UNCHANGED book
    BY <1>1 DEF SnapshotCancelable
  <2> HIDE DEF ids
  <2>3. a \in Arg
    BY <1>0, <2>1 DEF Arg
  <2> HIDE DEF a
  <2>4. WellFormed("cancel_next", a)
    BY DEF WellFormed, IdSteps, SubmitSteps
  <2>5. CallsInv'
    BY <1>0, <2>2, <2>3, <2>4, MoveInv DEF Goto, Steps, CallsInv
  <2> QED BY <2>2, <2>5, SameBook
<1>2. CASE CancelNext(t)
  <2>1. PICK id \in arg[t].todo :
          IF IsCancelable(id)
          THEN /\ orders' = [orders EXCEPT ![id].status = "Canceled"]
               /\ arg' = [arg EXCEPT ![t].todo = @ \ {id}, ![t].id = id,
                                     ![t].canceled = @ \cup {id},
                                     ![t].ev = Ev("Canceled")]
               /\ Goto(t, "event")
          ELSE /\ arg' = [arg EXCEPT ![t].todo = @ \ {id}]
               /\ UNCHANGED <<orders, pc, calls>>
    BY <1>2 DEF CancelNext
  <2>2. id \in Ids
    BY <1>0 DEF Arg
  <2>3. CASE IsCancelable(id)
    <3> DEFINE a == [arg[t] EXCEPT !.todo = @ \ {id}, !.id = id,
                                   !.canceled = @ \cup {id}, !.ev = Ev("Canceled")]
               moved == [orders[id] EXCEPT !.status = "Canceled"]
    <3>1. Ev("Canceled") \in Event
      BY EventType DEF Kinds, Statuses, Terminal
    <3>2. a \in Arg /\ a.id = id /\ a.ev = Ev("Canceled")
      BY <1>0, <2>2, <3>1 DEF Arg
    <3>3. WellFormed("event", a)
      BY <2>2, <3>1, <3>2 DEF WellFormed, SubmitSteps
    <3>4. arg' = [arg EXCEPT ![t] = a] /\ Goto(t, "event")
      BY <1>0, <2>1, <2>3 DEF CallsInv
    <3> HIDE DEF a
    <3>5. CallsInv'
      BY <1>0, <3>2, <3>3, <3>4, MoveInv DEF Goto, Steps, CallsInv
    <3>6. orders[id] \in GoodOrder
      BY <1>0, <2>2, <2>3 DEF BookType, IsCancelable
    <3>7. "Canceled" \in CanTransitionTo[orders[id].status]
      BY <2>3, <3>6 DEF IsCancelable, Cancelable, CanTransitionTo, Statuses, OpenStatus
    <3>8. moved \in GoodOrder
      BY <3>6, <3>7, StatusType DEF Transitions
    <3>9. orders' = [orders EXCEPT ![id] = moved]
      BY <2>1, <2>3
    <3>10. inserts' \in [Ids -> Nat] /\ UNCHANGED <<venueToClient, byInstrument, byStrategy, events>>
      BY <1>0, <1>2 DEF CancelNext, BookType
    <3> HIDE DEF moved
    <3>11. BookType'
      BY <1>0, <2>2, <3>8, <3>9, <3>10, OrderUpdate
    <3> QED BY <3>5, <3>11 DEF TypeInv
  <2>4. CASE ~IsCancelable(id)
    <3> DEFINE a == [arg[t] EXCEPT !.todo = @ \ {id}]
    <3>1. a \in Arg
      BY <1>0 DEF Arg
    <3>2. arg' = [arg EXCEPT ![t] = a] /\ UNCHANGED <<pc, calls>>
      BY <2>1, <2>4
    <3>3. pc' = [pc EXCEPT ![t] = "cancel_next"]
      BY <1>0, <1>2, <3>2 DEF CancelNext, At, CallsInv
    <3> HIDE DEF a
    <3>4. CallsInv'
      BY <1>0, <3>1, <3>2, <3>3, MoveInv
         DEF Steps, WellFormed, IdSteps, SubmitSteps, CallsInv
    <3>5. UNCHANGED book
      BY <1>2, <2>1, <2>4 DEF CancelNext, book
    <3> QED BY <3>4, <3>5, SameBook
  <2> QED BY <2>3, <2>4
<1>3. CASE CancelAllDone(t)
  BY <1>0, <1>3, ReturnInv, SameBook DEF CancelAllDone
<1> QED BY <1>1, <1>2, <1>3 DEF CancelAll

\* Removing orders keeps the orders that stay good.
LEMMA ClearTypeInv ==
  ASSUME TypeInv, NEW t \in Tasks, ClearClosed(t)
  PROVE  TypeInv'
<1>0. CallsInv /\ BookType /\ arg[t] \in Arg
  BY DEF TypeInv, CallsInv
<1>1. CASE ClearOrders(t)
  <2> DEFINE closed == {id \in Ids : IsClosed(id)}
             a == [arg[t] EXCEPT !.todo = closed]
  <2>1. closed \in SUBSET Ids
    OBVIOUS
  <2>2. /\ orders' = [id \in Ids |-> IF id \in closed THEN None ELSE orders[id]]
        /\ arg' = [arg EXCEPT ![t] = a]
        /\ Goto(t, "clear_events")
        /\ UNCHANGED <<venueToClient, byInstrument, byStrategy, events, inserts>>
    BY <1>1 DEF ClearOrders
  <2> HIDE DEF closed
  <2>3. a \in Arg
    BY <1>0, <2>1 DEF Arg
  <2> HIDE DEF a
  <2>4. CallsInv'
    BY <1>0, <2>2, <2>3, MoveInv
       DEF Goto, Steps, WellFormed, IdSteps, SubmitSteps, CallsInv
  <2>5. BookType'
    BY <1>0, <2>2 DEF BookType, Live
  <2> QED BY <2>4, <2>5 DEF TypeInv
<1>2. CASE ClearEvents(t)
  <2>1. CallsInv'
    BY <1>0, <1>2, ReturnInv DEF ClearEvents
  <2>2. BookType'
    BY <1>0, <1>2 DEF ClearEvents, BookType, Live
  <2> QED BY <2>1, <2>2 DEF TypeInv
<1> QED BY <1>1, <1>2 DEF ClearClosed

LEMMA ResetTypeInv ==
  ASSUME TypeInv, NEW t \in Tasks, Reset(t)
  PROVE  TypeInv'
<1>0. CallsInv /\ BookType
  BY DEF TypeInv
<1> USE DEF WellFormed, IdSteps, SubmitSteps
<1>1. CASE ResetOrders(t)
  <2>1. CallsInv'
    BY <1>0, <1>1, GotoInv DEF ResetOrders, Steps
  <2>2. BookType'
    BY <1>0, <1>1 DEF ResetOrders, BookType, Live
  <2> QED BY <2>1, <2>2 DEF TypeInv
<1>2. CASE ResetVenue(t)
  <2>1. CallsInv'
    BY <1>0, <1>2, GotoInv DEF ResetVenue, Steps
  <2>2. BookType'
    BY <1>0, <1>2 DEF ResetVenue, BookType, Live
  <2> QED BY <2>1, <2>2 DEF TypeInv
<1>3. CASE ResetInstrument(t)
  <2>1. CallsInv'
    BY <1>0, <1>3, GotoInv DEF ResetInstrument, Steps
  <2>2. BookType'
    BY <1>0, <1>3 DEF ResetInstrument, BookType, Live
  <2> QED BY <2>1, <2>2 DEF TypeInv
<1>4. CASE ResetStrategy(t)
  <2>1. CallsInv'
    BY <1>0, <1>4, GotoInv DEF ResetStrategy, Steps
  <2>2. BookType'
    BY <1>0, <1>4 DEF ResetStrategy, BookType, Live
  <2> QED BY <2>1, <2>2 DEF TypeInv
<1>5. CASE ResetEvents(t)
  <2>1. CallsInv'
    BY <1>0, <1>5, ReturnInv DEF ResetEvents
  <2>2. BookType'
    BY <1>0, <1>5 DEF ResetEvents, BookType, Live
  <2> QED BY <2>1, <2>2 DEF TypeInv
<1> QED BY <1>1, <1>2, <1>3, <1>4, <1>5 DEF Reset

LEMMA LookupTypeInv ==
  ASSUME TypeInv, NEW t \in Tasks, Lookup(t)
  PROVE  TypeInv'
<1>0. CallsInv /\ UNCHANGED book
  BY DEF TypeInv, Lookup, LockIndex, ReadOrders
<1>1. CASE Return(t)
  BY <1>0, <1>1, ReturnInv, SameBook
<1>2. CASE /\ UNCHANGED arg
           /\ \E s \in {"read_instrument", "read_strategy", "read_venue"} : Goto(t, s)
  <2>1. PICK s \in {"read_instrument", "read_strategy", "read_venue"} : Goto(t, s)
    BY <1>2
  <2>2. CallsInv'
    BY <1>0, <1>2, <2>1, GotoInv DEF Steps, WellFormed, IdSteps, SubmitSteps
  <2> QED BY <1>0, <2>2, SameBook
<1> QED BY <1>1, <1>2 DEF Lookup, LockIndex, ReadOrders

LEMMA TypeInvStep == TypeInv /\ [Next]_vars => TypeInv'
<1> SUFFICES ASSUME TypeInv, [Next]_vars PROVE TypeInv'
  OBVIOUS
<1>1. CASE UNCHANGED vars
  BY <1>1 DEF vars, book, TypeInv, BookType, CallsInv, Live
<1>2. CASE Next
  <2>1. PICK t \in Tasks : Call(t) \/ Continue(t)
    BY <1>2 DEF Next
  <2>2. CASE Call(t)
    BY <2>2, CallTypeInv
  <2>3. CASE Continue(t)
    <3>1. CASE ChangeStatus(t)
      BY <3>1, TransitionTypeInv, AcceptTypeInv, FillTypeInv
         DEF ChangeStatus, MarkSubmitted, MarkRejected, MarkDenied, CancelOrder,
             ExpireOrder, MarkTriggered, Transitions
    <3> QED BY <2>3, <3>1, SubmitTypeInv, StoreTypeInv, CancelAllTypeInv,
               ClearTypeInv, ResetTypeInv, LookupTypeInv DEF Continue
  <2> QED BY <2>1, <2>2, <2>3
<1> QED BY <1>1, <1>2

LEMMA TypeInvInit == Init => TypeInv
BY DEF Init, TypeInv, BookType, CallsInv, Live, NoArg, Arg, Steps, WellFormed,
       IdSteps, SubmitSteps

LEMMA TypeInvHolds == Spec => []TypeInv
BY TypeInvInit, TypeInvStep, PTL DEF Spec

\* Every variable of the manager keeps its type, whatever calls interleave.
THEOREM TypeCorrect == Spec => []TypeOK
<1>1. TypeInv => TypeOK
  BY DEF TypeInv, BookType, CallsInv, TypeOK
<1> QED BY <1>1, TypeInvHolds, PTL

\* No interleaving of fills, status changes, overwrites and removals makes an
\* order's filled and leaves quantities disagree with its quantity or status.
THEOREM QuantitiesAlwaysConsistent == Spec => []QuantitiesConsistent
<1>1. TypeInv => QuantitiesConsistent
  BY DEF TypeInv, BookType, GoodOrder, QuantitiesConsistent
<1> QED BY <1>1, TypeInvHolds, PTL

-----------------------------------------------------------------------------
(* Orders are always indexed.  The strengthening: a task inside reset has  *)
(* emptied the orders map and still holds its lock, so the indexes are     *)
(* only ever cleared while there is no order.                              *)

ResetSteps == {"reset_venue", "reset_instrument", "reset_strategy", "reset_events"}
IndexSteps == {"index_instrument", "index_strategy"}

NoOrderInReset ==
  \A t \in Tasks, id \in Ids : pc[t] \in ResetSteps => ~Live(id)

IndexInv == IndexComplete /\ NoOrderInReset

\* A step of task t that is not one of its index sections, adds no order and
\* moves no order to another instrument or strategy.
LEMMA IndexKept ==
  ASSUME TypeInv, IndexComplete, NEW t \in Tasks, pc[t] \notin IndexSteps,
         \A u \in Tasks \ {t} : pc'[u] = pc[u] /\ arg'[u] = arg[u],
         UNCHANGED <<byInstrument, byStrategy>>,
         \A id \in Ids : Live(id)' => /\ Live(id)
                                      /\ orders'[id].inst = orders[id].inst
                                      /\ orders'[id].strat = orders[id].strat
  PROVE  IndexComplete'
<1> SUFFICES ASSUME NEW id \in Ids, Live(id)'
             PROVE  InstrumentIndexed(id)' /\ StrategyIndexed(id)'
  BY DEF IndexComplete
<1>1. InstrumentIndexed(id) /\ StrategyIndexed(id)
  BY DEF IndexComplete
<1>2. InstrumentIndexed(id)'
  <2>1. CASE Listed(byInstrument, orders[id].inst, id)
    BY <2>1 DEF InstrumentIndexed, Listed
  <2>2. CASE \E u \in Tasks : /\ At(u, "index_instrument") /\ arg[u].id = id
                              /\ arg[u].inst = orders[id].inst
    <3>1. PICK u \in Tasks : /\ At(u, "index_instrument") /\ arg[u].id = id
                             /\ arg[u].inst = orders[id].inst
      BY <2>2
    <3>2. u # t
      BY <3>1 DEF At, IndexSteps
    <3> QED BY <3>1, <3>2 DEF InstrumentIndexed, At
  <2> QED BY <1>1, <2>1, <2>2 DEF InstrumentIndexed
<1>3. StrategyIndexed(id)'
  <2>1. CASE Listed(byStrategy, orders[id].strat, id)
    BY <2>1 DEF StrategyIndexed, Listed
  <2>2. CASE \E u \in Tasks : /\ pc[u] \in {"index_instrument", "index_strategy"}
                              /\ arg[u].id = id /\ arg[u].strat = orders[id].strat
    <3>1. PICK u \in Tasks : /\ pc[u] \in {"index_instrument", "index_strategy"}
                             /\ arg[u].id = id /\ arg[u].strat = orders[id].strat
      BY <2>2
    <3>2. u # t
      BY <3>1 DEF IndexSteps
    <3> QED BY <3>1, <3>2 DEF StrategyIndexed
  <2> QED BY <1>1, <2>1, <2>2 DEF StrategyIndexed
<1> QED BY <1>2, <1>3

\* A step that adds no order and enters no reset section.
LEMMA ResetKept ==
  ASSUME TypeInv, NoOrderInReset, NEW t \in Tasks,
         \A u \in Tasks \ {t} : pc'[u] = pc[u],
         pc'[t] \in ResetSteps => pc[t] \in ResetSteps,
         \A id \in Ids : Live(id)' => Live(id)
  PROVE  NoOrderInReset'
BY DEF NoOrderInReset

\* What Goto, Return, Emit and Begin do to the other tasks.
LEMMA OnlyThisTask ==
  ASSUME TypeInv, NEW t \in Tasks, NEW step,
         \/ Goto(t, step) /\ UNCHANGED arg
         \/ Return(t) /\ step = "idle"
         \/ (\E ev : Emit(t, ev)) /\ step = "event"
         \/ \E a : Begin(t, step, a)
  PROVE  /\ \A u \in Tasks \ {t} : pc'[u] = pc[u] /\ arg'[u] = arg[u]
         /\ pc'[t] = step
BY DEF TypeInv, CallsInv, Goto, Return, Emit, Begin

\* A section of t that matters to neither conjunct of IndexInv.
Quiet(t) ==
  /\ pc[t] \notin IndexSteps
  /\ \A u \in Tasks \ {t} : pc'[u] = pc[u] /\ arg'[u] = arg[u]
  /\ pc'[t] \in ResetSteps => pc[t] \in ResetSteps
  /\ UNCHANGED <<byInstrument, byStrategy>>
  /\ \A id \in Ids : Live(id)' => /\ Live(id)
                                  /\ orders'[id].inst = orders[id].inst
                                  /\ orders'[id].strat = orders[id].strat

LEMMA QuietKeeps ==
  ASSUME TypeInv, IndexInv, NEW t \in Tasks, Quiet(t)
  PROVE  IndexInv'
BY IndexKept, ResetKept DEF Quiet, IndexInv

\* Calls, checks, queries and event sections do not touch orders or indexes.
LEMMA BookQuiet ==
  ASSUME TypeInv, NEW t \in Tasks, UNCHANGED <<orders, byInstrument, byStrategy>>,
         pc[t] \notin IndexSteps,
         \/ \E step \in Steps \ ResetSteps : Goto(t, step) /\ UNCHANGED arg
         \/ Return(t)
  PROVE  Quiet(t)
<1>1. /\ \A u \in Tasks \ {t} : pc'[u] = pc[u] /\ arg'[u] = arg[u]
      /\ pc'[t] \notin ResetSteps
  <2>1. CASE Return(t)
    BY <2>1, OnlyThisTask DEF ResetSteps
  <2>2. CASE \E step \in Steps \ ResetSteps : Goto(t, step) /\ UNCHANGED arg
    <3>1. PICK step \in Steps \ ResetSteps : Goto(t, step) /\ UNCHANGED arg
      BY <2>2
    <3> QED BY <3>1, OnlyThisTask
  <2> QED BY <2>1, <2>2
<1> QED BY <1>1 DEF Quiet, Live

LEMMA CallQuiet ==
  ASSUME TypeInv, NEW t \in Tasks, Call(t)
  PROVE  Quiet(t)
<1>1. /\ pc[t] = "idle" /\ UNCHANGED book
      /\ \E step \in Steps \ ResetSteps : \E a : Begin(t, step, a)
  BY DEF Call, CallSubmit, CallTransition, CallAccept, CallFill, CallCancelAll,
         CallClear, CallReset, CallLookup, Begin, At, Steps, ResetSteps
<1>2. /\ \A u \in Tasks \ {t} : pc'[u] = pc[u] /\ arg'[u] = arg[u]
      /\ pc'[t] \notin ResetSteps
  BY <1>1, OnlyThisTask
<1> QED BY <1>1, <1>2 DEF Quiet, Live, book, IndexSteps

LEMMA CheckQuiet ==
  ASSUME TypeInv, NEW t \in Tasks,
         \/ CheckDuplicate(t) \/ CheckMaxOpen(t) \/ LockSymbolIndex(t)
         \/ CheckSymbol(t) \/ CheckSession(t) \/ Lookup(t)
  PROVE  Quiet(t)
<1>1. /\ UNCHANGED book /\ pc[t] \notin IndexSteps
      /\ \/ \E step \in Steps \ ResetSteps : Goto(t, step) /\ UNCHANGED arg
         \/ Return(t)
  BY DEF CheckDuplicate, CheckMaxOpen, LockSymbolIndex, CheckSymbol, CheckSession,
         Lookup, LockIndex, ReadOrders, At, Steps, ResetSteps, IndexSteps
<1> QED BY <1>1, BookQuiet DEF book

LEMMA StoreQuiet ==
  ASSUME TypeInv, NEW t \in Tasks, StoreEvent(t) \/ ClearEvents(t) \/ MapVenue(t)
                                   \/ CancelAllDone(t) \/ SnapshotCancelable(t)
  PROVE  Quiet(t)
<1>1. UNCHANGED <<orders, byInstrument, byStrategy>> /\ pc[t] \notin IndexSteps
  BY DEF StoreEvent, ClearEvents, MapVenue, CancelAllDone, SnapshotCancelable,
         At, IndexSteps, book
<1>2. \E step \in Steps \ ResetSteps : \E a :
        /\ pc' = [pc EXCEPT ![t] = step]
        /\ arg' = [arg EXCEPT ![t] = a]
  <2>1. arg = [arg EXCEPT ![t] = arg[t]]
    BY DEF TypeInv, CallsInv
  <2>2. CASE StoreEvent(t)
    <3>1. arg' = [arg EXCEPT ![t] = NoArg] \/
          arg' = [arg EXCEPT ![t] = [arg[t] EXCEPT !.ev = None, !.id = None]]
      BY <2>2 DEF StoreEvent, Return, TypeInv, CallsInv
    <3> QED BY <2>2, <3>1 DEF StoreEvent, Return, Goto, Steps, ResetSteps
  <2>3. CASE SnapshotCancelable(t)
    BY <2>3 DEF SnapshotCancelable, Goto, Steps, ResetSteps
  <2> QED BY <2>1, <2>2, <2>3
          DEF ClearEvents, MapVenue, CancelAllDone, Return, Goto, Steps, ResetSteps
<1>3. /\ \A u \in Tasks \ {t} : pc'[u] = pc[u] /\ arg'[u] = arg[u]
      /\ pc'[t] \notin ResetSteps
  BY <1>2 DEF TypeInv, CallsInv
<1> QED BY <1>1, <1>3 DEF Quiet, Live

\* A section that rewrites one live order in place.
LEMMA RewriteQuiet ==
  ASSUME TypeInv, NEW t \in Tasks, NEW id \in Ids, Live(id), NEW o \in GoodOrder,
         o.inst = orders[id].inst, o.strat = orders[id].strat,
         orders' = [orders EXCEPT ![id] = o],
         UNCHANGED <<byInstrument, byStrategy>>, pc[t] \notin IndexSteps,
         \A u \in Tasks \ {t} : pc'[u] = pc[u] /\ arg'[u] = arg[u],
         pc'[t] = "event"
  PROVE  Quiet(t)
<1>1. \A i \in Ids : orders'[i] = IF i = id THEN o ELSE orders[i]
  BY DEF TypeInv, BookType
<1> QED BY <1>1 DEF Quiet, Live, ResetSteps

LEMMA StatusQuiet ==
  ASSUME TypeInv, NEW t \in Tasks, ChangeStatus(t)
  PROVE  Quiet(t)
<1> DEFINE id == arg[t].id
<1>0. CallsInv /\ BookType
  BY DEF TypeInv
<1>1. ASSUME NEW kind \in Transitions, Transition(t, kind) PROVE Quiet(t)
  <2>1. pc[t] \notin IndexSteps /\ id \in Ids
    BY <1>0, <1>1 DEF Transition, At, IndexSteps, CallsInv, WellFormed, IdSteps
  <2>2. CASE Allowed(id, kind)
    <3> DEFINE o == [orders[id] EXCEPT !.status = kind]
    <3>1. orders[id] \in GoodOrder
      BY <1>0, <2>1, <2>2 DEF Allowed, BookType
    <3>2. o \in GoodOrder
      BY <2>2, <3>1, StatusType DEF Allowed
    <3>3. o.inst = orders[id].inst /\ o.strat = orders[id].strat
      BY <3>1 DEF GoodOrder, Order
    <3>4. orders' = [orders EXCEPT ![id] = o] /\ UNCHANGED <<byInstrument, byStrategy>>
      BY <1>1, <2>2 DEF Transition
    <3>5. /\ \A u \in Tasks \ {t} : pc'[u] = pc[u] /\ arg'[u] = arg[u]
          /\ pc'[t] = "event"
      BY <1>1, <2>2, OnlyThisTask DEF Transition
    <3> HIDE DEF o
    <3> QED BY <2>1, <2>2, <3>2, <3>3, <3>4, <3>5, RewriteQuiet DEF Allowed
  <2>3. CASE ~Allowed(id, kind)
    BY <1>1, <2>1, <2>3, BookQuiet DEF Transition
  <2> QED BY <2>2, <2>3
<1>2. CASE MarkAccepted(t)
  <2>1. pc[t] \notin IndexSteps /\ id \in Ids
    BY <1>0, <1>2 DEF MarkAccepted, At, IndexSteps, CallsInv, WellFormed, IdSteps
  <2>2. CASE Live(id) /\ "Accepted" \in CanTransitionTo[orders[id].status]
    <3> DEFINE o == [orders[id] EXCEPT !.status = "Accepted", !.venue = VenueIdOf[id]]
    <3>1. orders[id] \in GoodOrder /\ VenueIdOf[id] \in VenueIds
      BY <1>0, <2>1, <2>2, OrderManagerAssumption DEF BookType
    <3>2. o \in GoodOrder
      BY <2>2, <3>1, StatusType
    <3>3. o.inst = orders[id].inst /\ o.strat = orders[id].strat
      BY <3>1 DEF GoodOrder, Order
    <3>4. orders' = [orders EXCEPT ![id] = o] /\ UNCHANGED <<byInstrument, byStrategy>>
      BY <1>0, <1>2, <2>2 DEF MarkAccepted, BookType
    <3>5. /\ \A u \in Tasks \ {t} : pc'[u] = pc[u] /\ arg'[u] = arg[u]
          /\ pc'[t] = "event"
      BY <1>2, <2>2, OnlyThisTask DEF MarkAccepted
    <3> HIDE DEF o
    <3> QED BY <2>1, <2>2, <3>2, <3>3, <3>4, <3>5, RewriteQuiet
  <2>3. CASE ~(Live(id) /\ "Accepted" \in CanTransitionTo[orders[id].status])
    BY <1>2, <2>1, <2>3, BookQuiet DEF MarkAccepted
  <2> QED BY <2>2, <2>3
<1>3. CASE ApplyFill(t)
  <2> DEFINE q == arg[t].qty
  <2>1. pc[t] \notin IndexSteps /\ id \in Ids /\ q \in Nat
    BY <1>0, <1>3 DEF ApplyFill, At, IndexSteps, CallsInv, WellFormed, IdSteps, Arg
  <2>2. CASE Live(id) /\ ~IsClosed(id) /\ q <= orders[id].leaves
    <3> DEFINE o == Filled(orders[id], q)
    <3>1. orders[id] \in GoodOrder
      BY <1>0, <2>1, <2>2 DEF BookType
    <3>2. o \in GoodOrder
      BY <2>1, <2>2, <3>1, FilledType
    <3>3. o.inst = orders[id].inst /\ o.strat = orders[id].strat
      BY <3>1 DEF Filled, GoodOrder, Order
    <3>4. orders' = [orders EXCEPT ![id] = o] /\ UNCHANGED <<byInstrument, byStrategy>>
      BY <1>0, <1>3, <2>2 DEF ApplyFill, BookType
    <3>5. /\ \A u \in Tasks \ {t} : pc'[u] = pc[u] /\ arg'[u] = arg[u]
          /\ pc'[t] = "event"
      BY <1>3, <2>2, OnlyThisTask DEF ApplyFill
    <3> HIDE DEF o
    <3> QED BY <2>1, <2>2, <3>2, <3>3, <3>4, <3>5, RewriteQuiet
  <2>3. CASE ~(Live(id) /\ ~IsClosed(id) /\ q <= orders[id].leaves)
    BY <1>3, <2>1, <2>3, BookQuiet DEF ApplyFill
  <2> QED BY <2>2, <2>3
<1> QED
  BY <1>1, <1>2, <1>3, StoreQuiet
     DEF ChangeStatus, MarkSubmitted, MarkRejected, MarkDenied, CancelOrder,
         ExpireOrder, MarkTriggered, Transitions

\* Sweeps and clears: orders are rewritten in place or removed.
LEMMA SweepQuiet ==
  ASSUME TypeInv, NEW t \in Tasks, CancelAll(t) \/ ClearClosed(t)
  PROVE  Quiet(t)
<1>0. CallsInv /\ BookType /\ arg[t] \in Arg
  BY DEF TypeInv, CallsInv
<1>1. CASE CancelNext(t)
  <2>1. PICK id \in arg[t].todo :
          IF IsCancelable(id)
          THEN /\ orders' = [orders EXCEPT ![id].status = "Canceled"]
               /\ arg' = [arg EXCEPT ![t].todo = @ \ {id}, ![t].id = id,
                                     ![t].canceled = @ \cup {id},
                                     ![t].ev = Ev("Canceled")]
               /\ Goto(t, "event")
          ELSE /\ arg' = [arg EXCEPT ![t].todo = @ \ {id}]
               /\ UNCHANGED <<orders, pc, calls>>
    BY <1>1 DEF CancelNext
  <2>2. id \in Ids /\ pc[t] = "cancel_next"
    BY <1>0, <1>1 DEF Arg, CancelNext, At
  <2>3. \A u \in Tasks \ {t} : arg'[u] = arg[u]
    BY <1>0, <2>1 DEF CallsInv
  <2>4. (\A u \in Tasks \ {t} : pc'[u] = pc[u]) /\ pc'[t] \in {"event", "cancel_next"}
    BY <1>0, <2>1, <2>2 DEF CallsInv, Goto
  <2>5. ASSUME NEW i \in Ids, Live(i)'
        PROVE  /\ Live(i) /\ orders'[i].inst = orders[i].inst
               /\ orders'[i].strat = orders[i].strat
    <3>1. CASE UNCHANGED orders
      BY <2>5, <3>1 DEF Live
    <3>2. CASE IsCancelable(id) /\ i # id
      BY <1>0, <2>1, <2>5, <3>2 DEF Live, BookType
    <3>3. CASE IsCancelable(id) /\ i = id
      <4>1. orders[i] \in Order
        BY <1>0, <3>3 DEF IsCancelable, BookType, GoodOrder
      <4>2. orders'[i] = [orders[i] EXCEPT !.status = "Canceled"]
        BY <1>0, <2>1, <3>3 DEF BookType
      <4> QED BY <3>3, <4>1, <4>2 DEF IsCancelable, Order
    <3> QED BY <2>1, <3>1, <3>2, <3>3
  <2> QED BY <1>1, <2>2, <2>3, <2>4, <2>5 DEF Quiet, CancelNext, IndexSteps, ResetSteps
<1>2. CASE ClearOrders(t)
  <2>1. pc[t] = "clear_orders" /\ UNCHANGED <<byInstrument, byStrategy>>
    BY <1>2 DEF ClearOrders, At
  <2>2. \A i \in Ids : orders'[i] \in {None, orders[i]}
    BY <1>0, <1>2 DEF ClearOrders, BookType
  <2>3. \E a : arg' = [arg EXCEPT ![t] = a]
    BY <1>2 DEF ClearOrders
  <2>4. /\ \A u \in Tasks \ {t} : pc'[u] = pc[u] /\ arg'[u] = arg[u]
        /\ pc'[t] = "clear_events"
    BY <1>0, <1>2, <2>3 DEF ClearOrders, Goto, CallsInv
  <2> QED BY <2>1, <2>2, <2>4 DEF Quiet, Live, IndexSteps, ResetSteps
<1> QED BY <1>1, <1>2, StoreQuiet DEF CancelAll, ClearClosed

\* The sections that insert and index an order.
LEMMA InsertIndexInv ==
  ASSUME TypeInv, IndexInv, NEW t \in Tasks,
         InsertOrder(t) \/ IndexInstrument(t) \/ IndexStrategy(t)
  PROVE  IndexInv'
<1> DEFINE id == arg[t].id
           inst == arg[t].inst
           strat == arg[t].strat
<1>0. /\ CallsInv /\ BookType
      /\ id \in Ids /\ inst \in Instruments /\ strat \in Strategies
  BY DEF TypeInv, CallsInv, InsertOrder, IndexInstrument, IndexStrategy, At,
         WellFormed, IdSteps, SubmitSteps
<1>1. CASE InsertOrder(t)
  <2>1. /\ pc' = [pc EXCEPT ![t] = "index_instrument"] /\ UNCHANGED arg
        /\ UNCHANGED <<byInstrument, byStrategy>>
        /\ pc[t] = "insert"
        /\ orders' = [orders EXCEPT ![id] = NewOrder(arg[t])]
    BY <1>1 DEF InsertOrder, Goto, At
  <2>2. NewOrder(arg[t]).inst = inst /\ NewOrder(arg[t]).strat = strat
    BY DEF NewOrder
  <2>3. NoOrderInReset'
    <3>1. \A u \in Tasks : pc[u] \notin ResetSteps
      BY <1>0, <1>1 DEF InsertOrder, CanWrite, CanRead, WriteHeld, ResetSteps, Steps
    <3>2. \A u \in Tasks : pc'[u] \notin ResetSteps
      BY <1>0, <2>1, <3>1 DEF CallsInv, ResetSteps
    <3> QED BY <3>2 DEF NoOrderInReset
  <2>4. ASSUME NEW i \in Ids, Live(i)' PROVE InstrumentIndexed(i)' /\ StrategyIndexed(i)'
    <3>1. CASE i = id
      <4>1. orders'[i].inst = inst /\ orders'[i].strat = strat
        BY <1>0, <2>1, <2>2, <3>1 DEF BookType
      <4>2. pc'[t] = "index_instrument" /\ arg'[t].id = i
            /\ arg'[t].inst = inst /\ arg'[t].strat = strat
        BY <1>0, <2>1, <3>1 DEF CallsInv
      <4> QED BY <4>1, <4>2 DEF InstrumentIndexed, StrategyIndexed, At
    <3>2. CASE i # id
      <4>1. orders'[i] = orders[i] /\ Live(i)
        BY <1>0, <2>1, <2>4, <3>2 DEF BookType, Live
      <4>2. InstrumentIndexed(i) /\ StrategyIndexed(i)
        BY <4>1 DEF IndexInv, IndexComplete
      <4>3. \A u \in Tasks : pc[u] \in IndexSteps => pc'[u] = pc[u]
        BY <1>0, <2>1 DEF CallsInv, IndexSteps
      <4>4. InstrumentIndexed(i)'
        BY <2>1, <4>1, <4>2, <4>3 DEF InstrumentIndexed, Listed, At, IndexSteps
      <4>5. StrategyIndexed(i)'
        BY <2>1, <4>1, <4>2, <4>3 DEF StrategyIndexed, Listed, IndexSteps
      <4> QED BY <4>4, <4>5
    <3> QED BY <3>1, <3>2
  <2> QED BY <2>3, <2>4 DEF IndexInv, IndexComplete
<1>2. CASE IndexInstrument(t)
  <2>1. /\ pc' = [pc EXCEPT ![t] = "index_strategy"] /\ UNCHANGED arg
        /\ byInstrument' = [byInstrument EXCEPT ![inst] = Append(@, id)]
        /\ pc[t] = "index_instrument"
        /\ UNCHANGED <<orders, byStrategy>>
    BY <1>2 DEF IndexInstrument, Goto, At
  <2>2. NoOrderInReset'
    BY <1>0, <2>1 DEF NoOrderInReset, IndexInv, Live, ResetSteps, CallsInv
  <2>3. ASSUME NEW i \in Ids, Live(i)' PROVE InstrumentIndexed(i)' /\ StrategyIndexed(i)'
    <3>1. orders'[i] = orders[i] /\ Live(i) /\ orders[i] \in Order
      BY <1>0, <2>1, <2>3 DEF Live, BookType, GoodOrder
    <3>2. InstrumentIndexed(i) /\ StrategyIndexed(i)
      BY <3>1 DEF IndexInv, IndexComplete
    <3>3. StrategyIndexed(i)'
      <4>1. \A u \in Tasks : pc[u] \in IndexSteps => pc'[u] \in IndexSteps
        BY <1>0, <2>1 DEF CallsInv, IndexSteps
      <4>2. CASE Listed(byStrategy, orders[i].strat, i)
        BY <2>1, <3>1, <4>2 DEF StrategyIndexed, Listed
      <4>3. CASE \E u \in Tasks :
                   /\ pc[u] \in {"index_instrument", "index_strategy"}
                   /\ arg[u].id = i /\ arg[u].strat = orders[i].strat
        <5>1. \E u \in Tasks : /\ pc'[u] \in {"index_instrument", "index_strategy"}
                               /\ arg[u].id = i /\ arg[u].strat = orders[i].strat
          <6>1. CASE \E u \in Tasks \ {t} :
                       /\ pc[u] \in {"index_instrument", "index_strategy"}
                       /\ arg[u].id = i /\ arg[u].strat = orders[i].strat
            BY <1>0, <2>1, <6>1 DEF CallsInv
          <6>2. CASE arg[t].id = i /\ arg[t].strat = orders[i].strat
            BY <1>0, <2>1, <6>2 DEF CallsInv
          <6> QED BY <4>3, <6>1, <6>2
        <5> QED BY <2>1, <3>1, <5>1 DEF StrategyIndexed
      <4> QED BY <3>2, <4>2, <4>3 DEF StrategyIndexed
    <3>4. InstrumentIndexed(i)'
      <4>1. orders[i].inst \in Instruments
        BY <3>1 DEF Order
      <4>2. byInstrument[inst] \in Seq(Ids) /\ byInstrument[orders[i].inst] \in Seq(Ids)
        BY <1>0, <4>1 DEF BookType
      <4>3. CASE Listed(byInstrument, orders[i].inst, i)
        <5>1. PICK k \in DOMAIN byInstrument[orders[i].inst] :
                byInstrument[orders[i].inst][k] = i
          BY <4>3 DEF Listed
        <5>2. CASE orders[i].inst # inst
          <6>1. byInstrument'[orders[i].inst] = byInstrument[orders[i].inst]
            BY <1>0, <2>1, <4>1, <5>2 DEF BookType
          <6> QED BY <3>1, <5>1, <6>1 DEF InstrumentIndexed, Listed
        <5>3. CASE orders[i].inst = inst
          <6>1. byInstrument'[inst] = Append(byInstrument[inst], id)
            BY <1>0, <2>1 DEF BookType
          <6>2. /\ k \in DOMAIN Append(byInstrument[inst], id)
                /\ Append(byInstrument[inst], id)[k] = byInstrument[inst][k]
            BY <1>0, <4>2, <5>1, <5>3
          <6> QED BY <3>1, <5>1, <5>3, <6>1, <6>2 DEF InstrumentIndexed, Listed
        <5> QED BY <5>2, <5>3
      <4>4. CASE id = i /\ inst = orders[i].inst
        <5>1. byInstrument'[inst] = Append(byInstrument[inst], id)
          BY <1>0, <2>1 DEF BookType
        <5>2. /\ Len(byInstrument[inst]) + 1 \in DOMAIN Append(byInstrument[inst], id)
              /\ Append(byInstrument[inst], id)[Len(byInstrument[inst]) + 1] = id
          BY <1>0, <4>2
        <5> QED BY <3>1, <4>4, <5>1, <5>2 DEF InstrumentIndexed, Listed
      <4>5. CASE \E u \in Tasks \ {t} : /\ At(u, "index_instrument") /\ arg[u].id = i
                                        /\ arg[u].inst = orders[i].inst
        <5>1. PICK u \in Tasks \ {t} : /\ At(u, "index_instrument") /\ arg[u].id = i
                                       /\ arg[u].inst = orders[i].inst
          BY <4>5
        <5>2. pc'[u] = "index_instrument" /\ arg'[u] = arg[u]
          BY <1>0, <2>1, <5>1 DEF At, CallsInv
        <5> QED BY <3>1, <5>1, <5>2 DEF InstrumentIndexed, At
      <4> QED BY <3>2, <4>3, <4>4, <4>5 DEF InstrumentIndexed
    <3> QED BY <3>3, <3>4
  <2> QED BY <2>2, <2>3 DEF IndexInv, IndexComplete
<1>3. CASE IndexStrategy(t)
  <2>1. /\ pc' = [pc EXCEPT ![t] = "event"]
        /\ arg' = [arg EXCEPT ![t].ev = Ev("Initialized")]
        /\ byStrategy' = [byStrategy EXCEPT ![strat] = Append(@, id)]
        /\ pc[t] = "index_strategy"
        /\ UNCHANGED <<orders, byInstrument>>
    BY <1>3 DEF IndexStrategy, Emit, Goto, At
  <2>2. \A u \in Tasks \ {t} : pc'[u] = pc[u] /\ arg'[u] = arg[u]
    BY <1>0, <2>1 DEF CallsInv
  <2>3. NoOrderInReset'
    BY <1>0, <2>1 DEF NoOrderInReset, IndexInv, Live, ResetSteps, CallsInv
  <2>4. ASSUME NEW i \in Ids, Live(i)' PROVE InstrumentIndexed(i)' /\ StrategyIndexed(i)'
    <3>1. orders'[i] = orders[i] /\ Live(i) /\ orders[i] \in Order
      BY <1>0, <2>1, <2>4 DEF Live, BookType, GoodOrder
    <3>2. InstrumentIndexed(i) /\ StrategyIndexed(i)
      BY <3>1 DEF IndexInv, IndexComplete
    <3>3. InstrumentIndexed(i)'
      BY <2>1, <2>2, <3>1, <3>2 DEF InstrumentIndexed, Listed, At
    <3>4. StrategyIndexed(i)'
      <4>1. orders[i].strat \in Strategies
        BY <3>1 DEF Order
      <4>2. byStrategy[strat] \in Seq(Ids) /\ byStrategy[orders[i].strat] \in Seq(Ids)
        BY <1>0, <4>1 DEF BookType
      <4>3. CASE Listed(byStrategy, orders[i].strat, i)
        <5>1. PICK k \in DOMAIN byStrategy[orders[i].strat] :
                byStrategy[orders[i].strat][k] = i
          BY <4>3 DEF Listed
        <5>2. CASE orders[i].strat # strat
          <6>1. byStrategy'[orders[i].strat] = byStrategy[orders[i].strat]
            BY <1>0, <2>1, <4>1, <5>2 DEF BookType
          <6> QED BY <3>1, <5>1, <6>1 DEF StrategyIndexed, Listed
        <5>3. CASE orders[i].strat = strat
          <6>1. byStrategy'[strat] = Append(byStrategy[strat], id)
            BY <1>0, <2>1 DEF BookType
          <6>2. /\ k \in DOMAIN Append(byStrategy[strat], id)
                /\ Append(byStrategy[strat], id)[k] = byStrategy[strat][k]
            BY <1>0, <4>2, <5>1, <5>3
          <6> QED BY <3>1, <5>1, <5>3, <6>1, <6>2 DEF StrategyIndexed, Listed
        <5> QED BY <5>2, <5>3
      <4>4. CASE id = i /\ strat = orders[i].strat
        <5>1. byStrategy'[strat] = Append(byStrategy[strat], id)
          BY <1>0, <2>1 DEF BookType
        <5>2. /\ Len(byStrategy[strat]) + 1 \in DOMAIN Append(byStrategy[strat], id)
              /\ Append(byStrategy[strat], id)[Len(byStrategy[strat]) + 1] = id
          BY <1>0, <4>2
        <5> QED BY <3>1, <4>4, <5>1, <5>2 DEF StrategyIndexed, Listed
      <4>5. CASE \E u \in Tasks \ {t} :
                   /\ pc[u] \in {"index_instrument", "index_strategy"}
                   /\ arg[u].id = i /\ arg[u].strat = orders[i].strat
        <5>1. PICK u \in Tasks \ {t} :
                /\ pc[u] \in {"index_instrument", "index_strategy"}
                /\ arg[u].id = i /\ arg[u].strat = orders[i].strat
          BY <4>5
        <5> QED BY <2>2, <3>1, <5>1 DEF StrategyIndexed
      <4> QED BY <3>2, <4>3, <4>4, <4>5 DEF StrategyIndexed
    <3> QED BY <3>3, <3>4
  <2> QED BY <2>3, <2>4 DEF IndexInv, IndexComplete
<1> QED BY <1>1, <1>2, <1>3

\* Reset: the orders map is empty before the first index is.
LEMMA ResetIndexInv ==
  ASSUME TypeInv, IndexInv, NEW t \in Tasks, Reset(t)
  PROVE  IndexInv'
<1>0. CallsInv
  BY DEF TypeInv
<1>1. CASE ResetOrders(t)
  BY <1>1 DEF ResetOrders, IndexInv, IndexComplete, NoOrderInReset, Live
<1>2. CASE ~ResetOrders(t)
  <2>1. UNCHANGED orders /\ pc[t] \in ResetSteps
    BY <1>2 DEF Reset, ResetVenue, ResetInstrument, ResetStrategy, ResetEvents,
                At, ResetSteps
  <2>2. \A id \in Ids : ~Live(id)
    BY <2>1 DEF IndexInv, NoOrderInReset
  <2>3. \A id \in Ids : ~Live(id)'
    BY <2>1, <2>2 DEF Live
  <2> QED BY <2>3 DEF IndexInv, IndexComplete, NoOrderInReset
<1> QED BY <1>1, <1>2

LEMMA IndexInvStep == TypeInv /\ IndexInv /\ [Next]_vars => IndexInv'
<1> SUFFICES ASSUME TypeInv, IndexInv, [Next]_vars PROVE IndexInv'
  OBVIOUS
<1>1. CASE UNCHANGED vars
  BY <1>1 DEF vars, book, IndexInv, IndexComplete, NoOrderInReset, Live,
              InstrumentIndexed, StrategyIndexed, Listed, At
<1>2. CASE Next
  <2>1. PICK t \in Tasks : Call(t) \/ Continue(t)
    BY <1>2 DEF Next
  <2>2. CASE Call(t)
    BY <2>2, CallQuiet, QuietKeeps
  <2>3. CASE Submit(t)
    BY <2>3, CheckQuiet, QuietKeeps, InsertIndexInv DEF Submit
  <2>4. CASE StoreEvent(t)
    BY <2>4, StoreQuiet, QuietKeeps
  <2>5. CASE ChangeStatus(t)
    BY <2>5, StatusQuiet, QuietKeeps
  <2>6. CASE CancelAll(t) \/ ClearClosed(t)
    BY <2>6, SweepQuiet, QuietKeeps
  <2>7. CASE Reset(t)
    BY <2>7, ResetIndexInv
  <2>8. CASE Lookup(t)
    BY <2>8, CheckQuiet, QuietKeeps
  <2> QED BY <2>1, <2>2, <2>3, <2>4, <2>5, <2>6, <2>7, <2>8 DEF Continue
<1> QED BY <1>1, <1>2

\* However submissions, overwrites, clears and resets interleave, every order
\* in the orders map is, or is about to be, listed under its instrument and
\* its strategy.
THEOREM OrdersAlwaysIndexed == Spec => []IndexComplete
<1>1. Init => IndexInv
  BY DEF Init, IndexInv, IndexComplete, NoOrderInReset, Live, ResetSteps
<1>2. IndexInv => IndexComplete
  BY DEF IndexInv
<1> QED BY <1>1, <1>2, IndexInvStep, TypeInvHolds, PTL DEF Spec

-----------------------------------------------------------------------------
(* Waiting.                                                                *)

\* MustWait is what the guards of the lock sections say: a task that enters
\* its next section did not have to wait.
THEOREM SectionsNeedTheirLocks ==
  Spec => [][\A t \in Tasks : Continue(t) => ~MustWait(t)]_vars
<1>1. ASSUME NEW t \in Tasks, Continue(t) PROVE ~MustWait(t)
  <2> USE DEF MustWait, ReadTaken, WriteTaken, At
  <2>1. CASE Submit(t)
    BY <2>1 DEF Submit, CheckDuplicate, CheckMaxOpen, LockSymbolIndex,
                CheckSymbol, CheckSession, InsertOrder, IndexInstrument,
                IndexStrategy
  <2>2. CASE StoreEvent(t) BY <2>2 DEF StoreEvent
  <2>3. CASE ChangeStatus(t)
    BY <2>3 DEF ChangeStatus, MarkSubmitted, MarkRejected, MarkDenied,
                CancelOrder, ExpireOrder, MarkTriggered, Transition, MapVenue,
                MarkAccepted, ApplyFill
  <2>4. CASE CancelAll(t)
    BY <2>4 DEF CancelAll, SnapshotCancelable, CancelNext, CancelAllDone
  <2>5. CASE ClearClosed(t)
    BY <2>5 DEF ClearClosed, ClearOrders, ClearEvents
  <2>6. CASE Reset(t)
    BY <2>6 DEF Reset, ResetOrders, ResetVenue, ResetInstrument, ResetStrategy,
                ResetEvents
  <2>7. CASE Lookup(t)
    BY <2>7 DEF Lookup, LockIndex, ReadOrders
  <2> QED BY <1>1, <2>1, <2>2, <2>3, <2>4, <2>5, <2>6, <2>7 DEF Continue
<1>2. [Next]_vars => [\A t \in Tasks : Continue(t) => ~MustWait(t)]_vars
  BY <1>1
<1> QED BY <1>2, PTL DEF Spec

\* What the tables of locks say of the steps a standstill could come from.
LEMMA HolderTables ==
  ASSUME NEW step \in Steps
  PROVE  /\ "order_events" \notin WriteHeld[step] \cup ReadHeld[step]
         /\ "orders_by_strategy" \in WriteHeld[step] => step = "reset_events"
         /\ "orders_by_instrument" \in WriteHeld[step] =>
              step \in {"reset_strategy", "reset_events"}
         /\ "venue_to_client" \in WriteHeld[step] =>
              step \in {"reset_instrument", "reset_strategy", "reset_events"}
         /\ WriteHeld[step] # {} =>
              step \in {"clear_events", "reset_venue", "reset_instrument",
                        "reset_strategy", "reset_events"}
         /\ ReadHeld[step] # {} =>
              step \in {"symbol_count", "read_instrument", "read_strategy",
                        "read_venue"}
BY DEF WriteHeld, ReadHeld, Steps

\* However many tasks there are, all busy tasks wait only if a reset waits for
\* an index that another task is reading.  A task at the end of a chain (one
\* that wants order_events, then a reset, then an index reader) can go on.
THEOREM OnlyResetCanStandStill == Spec => []OnlyResetStandsStill
<1>1. TypeInv => OnlyResetStandsStill
  <2> SUFFICES ASSUME TypeInv, Standstill, ~ResetAgainstReader PROVE FALSE
    BY DEF OnlyResetStandsStill
  <2>1. \A t \in Tasks : pc[t] \in Steps BY DEF TypeInv, CallsInv
  <2>2. \A t \in Tasks : pc[t] # "idle" => MustWait(t) BY DEF Standstill, At
  <2>3. \A t \in Tasks : pc[t] \notin {"clear_events", "reset_events"}
    <3> SUFFICES ASSUME NEW t \in Tasks, pc[t] \in {"clear_events", "reset_events"}
                 PROVE  FALSE
      OBVIOUS
    <3>1. ReadTaken(t) = {} /\ WriteTaken(t) = {"order_events"}
      BY DEF ReadTaken, WriteTaken
    <3>2. ~CanWrite("order_events") BY <2>2, <3>1 DEF MustWait
    <3> QED BY <2>1, <3>2, HolderTables DEF CanWrite, CanRead
  <2>4. \A t \in Tasks : pc[t] # "reset_strategy"
    <3> SUFFICES ASSUME NEW t \in Tasks, pc[t] = "reset_strategy" PROVE FALSE
      OBVIOUS
    <3>1. ReadTaken(t) = {} /\ WriteTaken(t) = {"orders_by_strategy"}
      BY DEF ReadTaken, WriteTaken
    <3>2. ~CanWrite("orders_by_strategy") BY <2>2, <3>1 DEF MustWait
    <3>3. PICK u \in Tasks : "orders_by_strategy" \in ReadHeld[pc[u]]
      BY <2>1, <2>3, <3>2, HolderTables DEF CanWrite, CanRead
    <3> QED BY <3>1, <3>3 DEF ResetAgainstReader
  <2>5. \A t \in Tasks : pc[t] # "reset_instrument"
    <3> SUFFICES ASSUME NEW t \in Tasks, pc[t] = "reset_instrument" PROVE FALSE
      OBVIOUS
    <3>1. ReadTaken(t) = {} /\ WriteTaken(t) = {"orders_by_instrument"}
      BY DEF ReadTaken, WriteTaken
    <3>2. ~CanWrite("orders_by_instrument") BY <2>2, <3>1 DEF MustWait
    <3>3. PICK u \in Tasks : "orders_by_instrument" \in ReadHeld[pc[u]]
      BY <2>1, <2>3, <2>4, <3>2, HolderTables DEF CanWrite, CanRead
    <3> QED BY <3>1, <3>3 DEF ResetAgainstReader
  <2>6. \A t \in Tasks : pc[t] # "reset_venue"
    <3> SUFFICES ASSUME NEW t \in Tasks, pc[t] = "reset_venue" PROVE FALSE
      OBVIOUS
    <3>1. ReadTaken(t) = {} /\ WriteTaken(t) = {"venue_to_client"}
      BY DEF ReadTaken, WriteTaken
    <3>2. ~CanWrite("venue_to_client") BY <2>2, <3>1 DEF MustWait
    <3>3. PICK u \in Tasks : "venue_to_client" \in ReadHeld[pc[u]]
      BY <2>1, <2>3, <2>4, <2>5, <3>2, HolderTables DEF CanWrite, CanRead
    <3> QED BY <3>1, <3>3 DEF ResetAgainstReader
  <2>7. \A l : CanRead(l)
    BY <2>1, <2>3, <2>4, <2>5, <2>6, HolderTables DEF CanRead
  <2>8. \A t \in Tasks : pc[t] \notin {"symbol_count", "read_instrument",
                                        "read_strategy", "read_venue"}
    BY <2>2, <2>7 DEF MustWait, ReadTaken, WriteTaken
  <2>9. \A l : CanWrite(l)
    BY <2>1, <2>7, <2>8, HolderTables DEF CanWrite
  <2> QED BY <2>2, <2>7, <2>9 DEF Standstill, MustWait, At
<1> QED BY <1>1, TypeInvHolds, PTL

=============================================================================
