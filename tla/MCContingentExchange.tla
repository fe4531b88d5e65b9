------------------------- MODULE MCContingentExchange -------------------------
(* A bracket (entry, stop loss, take profit) and an OCO pair.              *)
EXTENDS ContingentExchange

CONSTANTS entry, stop, target, low, high, bracket, oco, i1, a1

Order(type, side, price, trigger, expire) ==
  [type |-> type, side |-> side, price |-> price, trigger |-> trigger,
   triggerType |-> "LastPrice", qty |-> 1, expire |-> expire, inst |-> i1,
   acct |-> None]

MCIds == {entry, stop, target, low, high}
MCInstruments == {i1}
MCAccounts == {a1}
MCDeposit == [a \in MCAccounts |-> 0]
MCOrderOf ==
  [id \in MCIds |->
     CASE id = entry -> Order("Limit", "Buy", 2, None, None)
       [] id = stop -> Order("Stop", "Sell", None, 1, None)
       [] id = target -> Order("Limit", "Sell", 2, None, None)
       [] id = low -> Order("Limit", "Buy", 1, None, 2)
       [] id = high -> Order("StopLimit", "Buy", 2, 2, None)]
MCRequests == {MCOrderOf[id] : id \in MCIds}
MCListIds == {bracket, oco}
MCListOf ==
  [l \in MCListIds |->
     IF l = bracket
     THEN [type |-> "OTO", orders |-> <<entry, stop, target>>,
           entry |-> entry, children |-> {stop, target}]
     ELSE [type |-> "OCO", orders |-> <<low, high>>, entry |-> None,
           children |-> {}]]
=============================================================================
