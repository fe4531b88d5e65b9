--------------------------- MODULE MCOrderManager ---------------------------
(* Small instances of OrderManager for TLC.                                *)
EXTENDS OrderManager

CONSTANTS t1, t2, o1, o2

\* The venue's id for an order is written as the order's own name.
MCVenueIdOf == [id \in Ids |-> id]

AllOps == {"submit", "transition", "accept", "fill", "cancel_all", "clear",
           "reset", "lookup"}

SubmitOnly == {"submit"}

=============================================================================
