-------------------------- MODULE MCBacktestEngine --------------------------
(* A limit buy that may expire, a market buy, a limit buy the exchange's   *)
(* account must cover, and a market sell; one OCO list.                    *)
EXTENDS BacktestEngine

CONSTANTS i1, a1, oco

Order(type, side, price, expire, acct) ==
  [type |-> type, side |-> side, price |-> price, trigger |-> None,
   triggerType |-> "LastPrice", qty |-> 1, expire |-> expire, inst |-> i1,
   acct |-> acct]

MCIds == 1 .. 3
MCInstruments == {i1}
MCAccounts == {a1}
MCDeposit == [a \in MCAccounts |-> 2]
MCRequests == {Order("Limit", "Buy", 1, 1, None),
               Order("Market", "Buy", None, None, None),
               Order("Limit", "Buy", 2, None, a1),
               Order("Market", "Sell", None, None, None)}

\* Two resting orders, for the two sides of the list.
MCRestingRequests == {Order("Limit", "Buy", p, None, None) : p \in {1, 2}}

MCListIds == {oco}
MCListOf == [l \in MCListIds |->
               [type |-> "OCO", orders |-> <<1, 2>>, entry |-> None,
                children |-> {}]]

\* All of the state but registered, a history that no guard reads, and of the
\* invariants in backtest_engine.cfg only the type (see EngineTypeCorrect): states
\* that differ in it alone are explored once.
WithoutRegistered ==
  <<vars, manager, step, fillEvents, funds, currentPrice, close, runs, bars,
    warmedUp, lifecycle, stranded, held>>

=============================================================================
