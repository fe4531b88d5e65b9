------------------------- MODULE MCSimulatedExchange -------------------------
(* Small instances of SimulatedExchange for TLC.                           *)
EXTENDS SimulatedExchange, TLC

CONSTANTS o1, o2, i1, i2, a1

MCDeposit == [a \in Accounts |-> 3]

Base == [type |-> "Limit", side |-> "Buy", price |-> 1, trigger |-> None,
         triggerType |-> "LastPrice", qty |-> 2, expire |-> None, inst |-> i1, acct |-> a1]

\* One order of each way through the exchange: the account covers the first
\* once, and it cannot cover it together with the stop limit.
MCRequests == {
  Base,
  [Base EXCEPT !.type = "StopLimit", !.price = 2, !.trigger = 2, !.qty = 1,
               !.triggerType = "MidPrice", !.expire = 1],
  [Base EXCEPT !.type = "Market", !.price = None, !.acct = None],
  [Base EXCEPT !.side = "Sell", !.price = 2, !.inst = i2, !.expire = 1]}

\* A higher price, a smaller order for nothing, and a quantity that is refused.
MCChanges == {[price |-> 2, qty |-> None], [price |-> 0, qty |-> 1],
              [price |-> None, qty |-> 0]}

Symmetry == Permutations(Ids)

=============================================================================
