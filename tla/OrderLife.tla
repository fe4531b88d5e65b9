------------------------------ MODULE OrderLife ------------------------------
(***************************************************************************)
(* What the backtest exchange promises of the orders it is given, without  *)
(* commands on their way, matching engines, accounts or the order in which *)
(* things arrive: an order is accepted or rejected once, as it was         *)
(* submitted; it works at those terms until it is told that they were      *)
(* changed; it ends once; and every one of these steps is of one order,    *)
(* and told with the one event that belongs to it.                         *)
(***************************************************************************)
EXTENDS Naturals, Sequences

CONSTANTS
  Orders,
  Terms,      \* what an order may ask for: a price and a quantity
  None

VARIABLES
  stage,      \* "new", "sent", "working" or "over"
  terms,      \* what the order asks for while it is sent or working, or None
  told        \* the events told of it

vars == <<told, stage, terms>>

Fresh ==
  /\ told = [o \in Orders |-> <<>>]
  /\ stage = [o \in Orders |-> "new"]
  /\ terms = [o \in Orders |-> None]

Move(o, from, to) == stage[o] = from /\ stage' = [stage EXCEPT ![o] = to]
Tell(o, event) == told' = [told EXCEPT ![o] = Append(@, event)]

\* The terms of o, and of no other order, become others.
Agree(o) ==
  /\ terms'[o] \in Terms
  /\ terms' = [terms EXCEPT ![o] = terms'[o]]
Drop(o) == terms' = [terms EXCEPT ![o] = None]

Submit(o) == UNCHANGED told /\ Move(o, "new", "sent") /\ Agree(o)
Accept(o) == Tell(o, "Accepted") /\ Move(o, "sent", "working") /\ UNCHANGED terms
Reject(o) == Tell(o, "Rejected") /\ Move(o, "sent", "over") /\ Drop(o)

Amend(o) ==
  /\ Tell(o, "Updated") /\ stage[o] = "working" /\ Agree(o)
  /\ UNCHANGED stage

\* A modification may come too early or too late.
RefuseAmend(o) ==
  /\ Tell(o, "ModifyRejected") /\ stage[o] # "new"
  /\ UNCHANGED <<stage, terms>>

End(o, event) == Tell(o, event) /\ Move(o, "working", "over") /\ Drop(o)

\* A new run knows nothing of the orders of the run before.
Forget == Fresh'

Next ==
  \/ \E o \in Orders :
       \/ Submit(o) \/ Accept(o) \/ Reject(o) \/ Amend(o) \/ RefuseAmend(o)
       \/ \E event \in {"Filled", "Canceled", "Expired"} : End(o, event)
  \/ Forget

Spec == Fresh /\ [][Next]_vars
=============================================================================
