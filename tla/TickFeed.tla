------------------------------ MODULE TickFeed ------------------------------
(***************************************************************************)
(* What the shared-memory channel of one symbol promises to its consumer.  *)
(* Ticks are numbered in the order the producer sends them.  Until the     *)
(* buffer was full once, every tick is received whole, in order, exactly   *)
(* once.  From then on ticks may be skipped, one at most for each time the *)
(* buffer was full, and what is received for a position is put together    *)
(* from ticks that share its slot: that tick or later ones, never an       *)
(* earlier one and never one that was not sent.                            *)
(***************************************************************************)
EXTENDS Integers

CONSTANTS
    Capacity,   \* entries in the buffer, at least one
    Words       \* the machine words of an entry

VARIABLES
    sent,       \* number of ticks the consumer can see
    next,       \* first position the consumer has not received or skipped
    losses,     \* how often the buffer was full when a tick was to be sent
    skipped,    \* number of ticks the consumer skipped
    item        \* the last tick received: a tick's number in each word

vars == <<sent, next, losses, skipped, item>>

Init ==
    /\ sent = 0
    /\ next = 0
    /\ losses = 0
    /\ skipped = 0
    /\ item = [w \in Words |-> -1]

Send == sent' = sent + 1 /\ UNCHANGED <<next, losses, skipped, item>>

Lose ==
    /\ sent - next >= Capacity
    /\ losses' = losses + 1
    /\ UNCHANGED <<sent, next, skipped, item>>

\* The ticks that share a slot with tick n and may be found in it: the one in
\* the making has the number sent.
SameSlot(n) == {t \in n .. sent : t % Capacity = n % Capacity}

Receive(n) ==
    /\ next <= n /\ n < sent
    /\ skipped' = skipped + (n - next)
    /\ skipped' <= losses
    /\ next' = n + 1
    /\ item' \in [Words -> IF losses = 0 THEN {n} ELSE SameSlot(n)]
    /\ UNCHANGED <<sent, losses>>

Next == Send \/ Lose \/ \E n \in next .. sent : Receive(n)

Spec == Init /\ [][Next]_vars
=============================================================================
