------------------------ MODULE ContingentOrderManager ------------------------
(***************************************************************************)
(* The contingent order manager (orders/contingent_manager.rs) and the     *)
(* order lists it works on (orders/order_list.rs): bracket and OTO lists,  *)
(* whose entry order triggers the children, and OCO lists, whose orders    *)
(* cancel each other.                                                      *)
(*                                                                         *)
(* The manager is asked about every event of an order and answers with     *)
(* commands for its caller to execute.  An OUO list answers only partial   *)
(* fills, which change nothing here; nothing deactivates a list.           *)
(***************************************************************************)
EXTENDS Naturals, Sequences, FiniteSets

CONSTANTS Ids, ListIds, None,
  ListOf     \* list id -> the list (OrderList)

VARIABLES
  orderLists,         \* the registered lists
  orderToList,        \* order id -> its list, or None
  submittedChildren,  \* OTO lists whose children were submitted
  processedOco        \* lists whose siblings were canceled

-----------------------------------------------------------------------------
(* Order lists.                                                            *)

Contingencies == {"OTO", "OCO", "OUO"}
OrderList == [type : Contingencies, orders : Seq(Ids),
              entry : Ids \cup {None}, children : SUBSET Ids]

Members(l) == {ListOf[l].orders[i] : i \in DOMAIN ListOf[l].orders}
Children(l) == ListOf[l].children

\* Where an order stands in its list.
Place(l, id) == CHOOSE i \in DOMAIN ListOf[l].orders : ListOf[l].orders[i] = id

\* Mutant of Commands: the first order only.
FirstCommand(kind, l, S) ==
  {[kind |-> kind, id |-> id] :
     id \in {i \in S \cap Members(l) :
              \A j \in S \cap Members(l) : Place(l, i) <= Place(l, j)}}

\* Commands of one kind, for the orders S of the list. They are carried out
\* in the list's order (IsNext).
Commands(kind, l, S) ==
  {[kind |-> kind, id |-> id] : id \in S \cap Members(l)}

-----------------------------------------------------------------------------
(* Registration.                                                           *)

RegisterList(l) ==
  /\ orderLists' = orderLists \cup {l}
  /\ orderToList' = [id \in Ids |-> IF id \in Members(l) THEN l
                                    ELSE orderToList[id]]
  /\ UNCHANGED <<submittedChildren, processedOco>>

UnregisterList(l) ==
  /\ l \in orderLists
  /\ orderLists' = orderLists \ {l}
  /\ orderToList' = [id \in Ids |-> IF id \in Members(l) THEN None
                                    ELSE orderToList[id]]
  /\ submittedChildren' = submittedChildren \ {l}
  /\ processedOco' = processedOco \ {l}

ClearLists ==
  /\ orderLists' = {}
  /\ orderToList' = [id \in Ids |-> None]
  /\ submittedChildren' = {} /\ processedOco' = {}

-----------------------------------------------------------------------------
(* Events.                                                                 *)

ListFor(id) == orderToList[id]
Listed(id) == orderToList[id] \in orderLists

\* Of the commands S, all of one list, the one to carry out next.
IsNext(command, S) ==
  \A other \in S :
    Place(ListFor(command.id), command.id) <= Place(ListFor(other.id), other.id)

IsEntry(id) == Listed(id) /\ ListOf[ListFor(id)].entry = id
IsOco(id) == Listed(id) /\ ListOf[ListFor(id)].type = "OCO"
IsOto(id) == Listed(id) /\ ListOf[ListFor(id)].type = "OTO"

\* The fill of the entry order, the first time.
TriggersChildren(id) ==
  /\ IsOto(id) /\ IsEntry(id)
  /\ ListFor(id) \notin submittedChildren
  /\ Children(ListFor(id)) # {}

\* The orders that go when order id is filled. (sibling_orders; within a
\* bracket only the children are siblings.)
Siblings(id) ==
  (IF IsOco(id) THEN Members(ListFor(id)) ELSE Children(ListFor(id))) \ {id}

\* Mutant of Sweeps: every event of a list cancels anew.
SweepsAlways(id) ==
  /\ IsOco(id) \/ (IsOto(id) /\ id \in Children(ListFor(id)))
  /\ Siblings(id) # {}

\* Mutant of Sweeps: the children of a bracket do not cancel each other.
SweepsOcoOnly(id) ==
  /\ IsOco(id)
  /\ ListFor(id) \notin processedOco
  /\ Siblings(id) # {}

\* The fill of an OCO order or of a bracket's child, the first time.
Sweeps(id) ==
  /\ IsOco(id) \/ (IsOto(id) /\ id \in Children(ListFor(id)))
  /\ ListFor(id) \notin processedOco
  /\ Siblings(id) # {}

\* on_order_filled: what it answers, and the flags it sets.
ActionsOnFilled(id) ==
  IF TriggersChildren(id)
  THEN Commands("submit", ListFor(id), Children(ListFor(id)))
  ELSE IF Sweeps(id) THEN Commands("cancel", ListFor(id), Siblings(id))
  ELSE {}

\* Mutant of OnOrderFilled: the flag is kept for the order, not for its list.
FlagOrder(id) ==
  /\ submittedChildren' = IF TriggersChildren(id)
                          THEN submittedChildren \cup {id}
                          ELSE submittedChildren
  /\ UNCHANGED <<orderLists, orderToList, processedOco>>

OnOrderFilled(id) ==
  /\ submittedChildren' = IF TriggersChildren(id)
                          THEN submittedChildren \cup {ListFor(id)}
                          ELSE submittedChildren
  /\ processedOco' = IF ~TriggersChildren(id) /\ Sweeps(id)
                     THEN processedOco \cup {ListFor(id)}
                     ELSE processedOco
  /\ UNCHANGED <<orderLists, orderToList>>

\* on_order_canceled: the others of an OCO list go, and the children of an
\* entry order if they were submitted.
ActionsOnCanceled(id) ==
  IF IsOco(id) /\ Sweeps(id)
  THEN Commands("cancel", ListFor(id), Siblings(id))
  ELSE IF IsOto(id) /\ IsEntry(id) /\ ListFor(id) \in submittedChildren
  THEN Commands("cancel", ListFor(id), Children(ListFor(id)))
  ELSE {}

OnOrderCanceled(id) ==
  /\ processedOco' = IF IsOco(id) /\ Sweeps(id)
                     THEN processedOco \cup {ListFor(id)}
                     ELSE processedOco
  /\ UNCHANGED <<orderLists, orderToList, submittedChildren>>

\* on_order_event. A fill is always whole (leaves_qty zero).
OnOrderEvent(kind, id) ==
  \/ kind = "Filled" /\ OnOrderFilled(id)
  \/ kind = "Canceled" /\ OnOrderCanceled(id)
  \/ /\ kind \notin {"Filled", "Canceled"}
     /\ UNCHANGED <<orderLists, orderToList, submittedChildren, processedOco>>

\* Mutant of Answer: any end of an order counts as its fill.
AnswerOnEnd(kind, id) ==
  IF kind \in {"Filled", "Canceled"} THEN ActionsOnFilled(id) ELSE {}

Answer(kind, id) ==
  CASE kind = "Filled" -> ActionsOnFilled(id)
    [] kind = "Canceled" -> ActionsOnCanceled(id)
    [] OTHER -> {}

=============================================================================
