-------------------------- MODULE ContingentExchange --------------------------
(***************************************************************************)
(* The contingent order manager at work with the simulated exchange: the   *)
(* loop of contingent_manager.rs's example, which the backtest engine      *)
(* follows too (backtest/engine.rs, handle_order_event and                 *)
(* execute_contingent_actions).  The events the exchange returns are       *)
(* handled in order once its call is over, and the manager's answer is     *)
(* carried out at once: commands that reach the exchange after a latency.  *)
(* In between the exchange goes on working with the orders it has.         *)
(***************************************************************************)
EXTENDS SimulatedExchange

CONSTANTS
  ListIds, ListOf,   \* the order lists a caller may register
  OrderOf            \* order id -> the order, as it will be submitted

VARIABLES
  orderLists, orderToList, submittedChildren, processedOco,
  events,      \* events returned by the exchange and not handled yet
  todo         \* what is left of the manager's answer to the last event

INSTANCE ContingentOrderManager

manager == <<orderLists, orderToList, submittedChildren, processedOco>>
cvars == <<vars, manager, events, todo>>

\* Lists as OrderList's constructors build them; an order is in one list.
ASSUME ListsAssumption ==
  /\ ListOf \in [ListIds -> OrderList] /\ None \notin ListIds \cup Ids
  /\ OrderOf \in [Ids -> Requests]
  /\ \A l \in ListIds :
       /\ Children(l) \subseteq Members(l) \ {ListOf[l].entry}
       /\ IF ListOf[l].type = "OTO" THEN ListOf[l].entry \in Members(l)
          ELSE ListOf[l].entry = None /\ Children(l) = {}
  /\ \A l, k \in ListIds : l # k => Members(l) \cap Members(k) = {}

-----------------------------------------------------------------------------
(* The exchange's calls.  Each step reports at most one event.             *)

\* What the step has appended to the histories.
News ==
  {[id |-> id, kind |-> history'[id][Len(history'[id])]] :
     id \in {i \in Ids : history'[i] # history[i]}}

Collect ==
  events' = IF News = {} THEN events
            ELSE Append(events, CHOOSE e \in News : TRUE)

RunCommands == \/ StartCommands \/ EndCommands
               \/ \E c \in inflight : ProcessCommand(c)
RunData == \/ \E x \in matches : ProcessMatch(x)
           \/ \E id \in Ids : ExpireOrder(id)
           \/ EndData

CommandsStep ==
  /\ todo = {} /\ RunCommands /\ Collect
  /\ UNCHANGED <<manager, todo>>

BarStep ==
  /\ todo = {}
  /\ RunData \/ \E inst \in Instruments : ProcessBar(inst)
  /\ Collect
  /\ UNCHANGED <<manager, todo>>

NextBarTime ==
  /\ todo = {} /\ events = <<>> /\ AdvanceTime
  /\ UNCHANGED <<manager, events, todo>>

-----------------------------------------------------------------------------
(* The caller.                                                             *)

Idle == Open /\ todo = {}
Unsent(S) == \A id \in S : sent[id] = None

Register(l) ==
  /\ Idle /\ Unsent(Members(l)) /\ l \notin orderLists
  /\ RegisterList(l)
  /\ UNCHANGED <<vars, events, todo>>

Unregister(l) ==
  /\ Idle /\ UnregisterList(l)
  /\ UNCHANGED <<vars, events, todo>>

\* The caller submits the entry order of a list, or all orders of an OCO list.
FirstOrders(l) ==
  IF ListOf[l].type = "OCO" THEN Members(l) ELSE {ListOf[l].entry}

SubmitList(l) ==
  /\ Idle /\ l \in orderLists /\ Unsent(Members(l))
  /\ todo' = Commands("submit", l, FirstOrders(l))
  /\ UNCHANGED <<vars, manager, events>>

CallerCancels(id) ==
  /\ todo = {} /\ CancelOrder(id)
  /\ UNCHANGED <<manager, events, todo>>

\* One order of the answer goes to the exchange.
SendCommand ==
  /\ \E command \in todo :
       /\ IsNext(command, todo)
       /\ \/ /\ command.kind = "submit" /\ SubmitOrder(command.id)
             /\ sent'[command.id] = OrderOf[command.id]
          \/ command.kind = "cancel" /\ CancelOrder(command.id)
       /\ todo' = todo \ {command}
  /\ UNCHANGED <<manager, events>>

\* The first event is handled, the manager's answer waits in todo.
HandleEvent ==
  /\ Idle /\ events # <<>>
  /\ LET e == Head(events) IN
       todo' = Answer(e.kind, e.id) /\ OnOrderEvent(e.kind, e.id)
  /\ events' = Tail(events)
  /\ UNCHANGED vars

-----------------------------------------------------------------------------
ManagerInit ==
  /\ orderLists = {} /\ orderToList = [id \in Ids |-> None]
  /\ submittedChildren = {} /\ processedOco = {}
  /\ events = <<>> /\ todo = {}

ContingentInit == Init /\ ManagerInit

ContingentNext ==
  \/ CommandsStep \/ BarStep \/ NextBarTime \/ SendCommand \/ HandleEvent
  \/ \E l \in ListIds : Register(l) \/ Unregister(l) \/ SubmitList(l)
  \/ \E id \in Ids : CallerCancels(id)

ContingentSpec == ContingentInit /\ [][ContingentNext]_cvars

-----------------------------------------------------------------------------
(* Properties.                                                             *)

Notice == [id : Ids, kind : Events]
ToDo == [kind : {"submit", "cancel"}, id : Ids]

\* The manager's variables, the events and the answer have their types.
ManagerTypeOK ==
  /\ orderLists \subseteq ListIds
  /\ orderToList \in [Ids -> ListIds \cup {None}]
  /\ submittedChildren \subseteq ListIds /\ processedOco \subseteq ListIds
  /\ events \in Seq(Notice) /\ todo \subseteq ToDo

EventWaiting(id, kind) ==
  \E i \in DOMAIN events : events[i] = [id |-> id, kind |-> kind]
InTodo(kind, id) == [kind |-> kind, id |-> id] \in todo
CancelComing(id) ==
  InTodo("cancel", id) \/ \E c \in inflight : c.kind = "cancel" /\ c.id = id
Handled(id, kind) == Has(id, {kind}) /\ ~EventWaiting(id, kind)

\* "When entry order fills, submit child orders": a child of a list goes to
\* the exchange only once its entry order has filled there, whatever commands
\* and bars come in between; in particular not when the entry was canceled,
\* expired or rejected, and never twice.
ChildrenWaitForEntry ==
  \A l \in ListIds : \A id \in Children(l) :
    sent[id] # None \/ InTodo("submit", id) =>
      /\ Has(ListOf[l].entry, {"Filled"})
      /\ sent[id] # None => ~InTodo("submit", id)

\* And it does go there: when the fill of the entry order has been handled,
\* each child of a list that is still registered was submitted or is about to
\* be.
EntryFillSubmitsChildren ==
  \A l \in orderLists : \A id \in Children(l) :
    Handled(ListOf[l].entry, "Filled") =>
      sent[id] # None \/ InTodo("submit", id)

\* "When one order fills/cancels, cancel siblings": when the fill of a child,
\* or the fill or cancellation of an OCO order has been handled, each sibling
\* that works at the exchange has its cancellation on the way, so that it can
\* fill only until that arrives. This needs a cancellation never to overtake
\* the submission of its order.
CancelsTrail ==
  \A i \in InsertLatencies : \A d \in DeleteLatencies : i <= d

Ends(l, id) ==
  \/ Handled(id, "Filled")
  \/ ListOf[l].type = "OCO" /\ Handled(id, "Canceled")
Group(l) == IF ListOf[l].type = "OCO" THEN Members(l) ELSE Children(l)

NoSiblingLeftWorking ==
  CancelsTrail =>
    \A l \in orderLists : \A id, other \in Group(l) :
      id # other /\ Ends(l, id) /\ stored[other] # None => CancelComing(other)

\* The cancellations that an order's end causes do not echo: an order whose
\* end, of the kind that cancels the others, was handled is never itself
\* canceled by the manager when the others end in their turn.
NoEcho ==
  \A l \in orderLists : \A id \in Group(l) :
    InTodo("cancel", id) => ~Ends(l, id)

=============================================================================
