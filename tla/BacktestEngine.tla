---------------------------- MODULE BacktestEngine ----------------------------
(***************************************************************************)
(* The exchange-based backtest (backtest/engine.rs, run_with_exchange, and *)
(* backtest/portfolio.rs): the loop that feeds bars to the simulated       *)
(* exchange, turns its events into changes of the portfolio, and lets the  *)
(* strategy submit and cancel orders against funds the portfolio locks.    *)
(* An engine may be run again; step says where in the loop it is.          *)
(*                                                                         *)
(* The strategy is free: it is ready when it likes, and orders what it     *)
(* likes.  Order ids are generated, fresh in every run.  Amounts are whole *)
(* numbers.  One strategy per engine, and state tracking is on.            *)
(***************************************************************************)
EXTENDS SimulatedExchange, Integers

CONSTANTS
  ListIds, ListOf,   \* the order lists that may be registered
  Capital, Rate,     \* the portfolio's initial capital, its commission rate
  Fees,              \* commissions the exchange's fee model may charge
  LastBar,           \* bound: the time of the last bar
  MaxBars, MaxRuns   \* bounds: bars of a run, and runs

VARIABLES
  orderLists, orderToList, submittedChildren, processedOco,
  step,            \* "idle", or the part of the loop that comes next
  runs, bars,      \* runs so far, bars of this run so far
  fillEvents,      \* the exchange's events for this bar, not yet handled
  cash, lockedCash, position, currentPrice,  \* the Portfolio
  lockedAmounts,   \* order id -> funds locked for it, or None
  close,           \* the close of the bar under way, per instrument
  warmedUp,        \* warmup_transitioned
  lifecycle,       \* the strategy's Tracked state
  stranded, held,  \* history: lockedCash and position when the run began
  registered,      \* history: the order lists registered when it began
  overrun,         \* history: an order cost more than was locked for it
  refused          \* history: filled orders the portfolio did not execute

INSTANCE ContingentOrderManager
INSTANCE StrategyLifecycle

manager == <<orderLists, orderToList, submittedChildren, processedOco>>
funds == <<cash, lockedCash, position, lockedAmounts, overrun, refused>>
loop == <<runs, bars, warmedUp, lifecycle, stranded, held, registered>>
bvars == <<vars, manager, step, fillEvents, funds, currentPrice, close, loop>>

ASSUME EngineAssumption ==
  /\ ListOf \in [ListIds -> OrderList] /\ None \notin ListIds
  /\ Capital \in Nat /\ Rate \in Nat /\ Fees \subseteq Nat
  /\ LastBar \in Nat /\ MaxBars \in Nat /\ MaxRuns \in Nat
  /\ \A latency \in InsertLatencies \cup DeleteLatencies :
       LastBar + latency <= MaxTime

-----------------------------------------------------------------------------
(* The portfolio.                                                          *)

AvailableCash == cash - lockedCash

\* release_locked_funds and unlock_funds.
Released(amount) == IF amount > lockedCash THEN 0 ELSE lockedCash - amount

LockOf(id) == IF lockedAmounts[id] = None THEN 0 ELSE lockedAmounts[id]

\* A fill of a buy order, with event e: execute_buy_with_locked_funds, or
\* execute_buy_with_commission where nothing was locked. The funds are released
\* by any fill, the entry goes with the last one.
ExecuteBuy(e, price, fee) ==
  LET inst == sent[e.id].inst
      total == price * e.last + fee
  IN /\ lockedCash' = Released(LockOf(e.id))
     /\ lockedAmounts' = IF e.leaves = 0
                         THEN [lockedAmounts EXCEPT ![e.id] = None]
                         ELSE lockedAmounts
     /\ overrun' = (overrun \/ total > LockOf(e.id))
     /\ IF total > cash
        THEN UNCHANGED <<cash, position>> /\ refused' = refused \cup {e.id}
        ELSE /\ cash' = cash - total
             /\ position' = [position EXCEPT ![inst] = @ + e.last]
             /\ UNCHANGED refused

\* Mutant of ExecuteSell: the position is not looked at.
ExecuteSellShort(e, price, fee) ==
  LET inst == sent[e.id].inst IN
  /\ cash' = cash + price * e.last - fee
  /\ position' = [position EXCEPT ![inst] = @ - e.last]
  /\ overrun' = (overrun \/ fee > price * e.last)
  /\ UNCHANGED <<lockedCash, lockedAmounts, refused>>

\* A fill of a sell order: execute_sell_with_commission. There is no going
\* short.
ExecuteSell(e, price, fee) ==
  LET inst == sent[e.id].inst IN
  /\ IF e.last > position[inst]
     THEN UNCHANGED <<cash, position, overrun>> /\ refused' = refused \cup {e.id}
     ELSE /\ cash' = cash + price * e.last - fee
          /\ position' = [position EXCEPT ![inst] = @ - e.last]
          /\ overrun' = (overrun \/ fee > price * e.last)
          /\ UNCHANGED refused
  /\ UNCHANGED <<lockedCash, lockedAmounts>>

-----------------------------------------------------------------------------
(* Between runs.                                                           *)

Register(l) ==
  /\ step = "idle" /\ l \notin orderLists /\ RegisterList(l)
  /\ UNCHANGED <<vars, step, fillEvents, funds, currentPrice, close, loop>>

\* The start of run_with_exchange: the exchange is reset (a new one has
\* nothing to reset), lists and locks are forgotten, the portfolio is not.
StartRun ==
  /\ step = "idle" /\ runs < MaxRuns
  /\ IF runs = 0 THEN UNCHANGED vars ELSE Reset
  /\ ClearLists
  /\ lockedAmounts' = [id \in Ids |-> None]
  /\ stranded' = lockedCash /\ held' = position /\ refused' = {}
  /\ registered' = orderLists
  /\ runs' = runs + 1 /\ bars' = 0 /\ warmedUp' = FALSE
  /\ \/ step' = "next" /\ lifecycle' = EnterData(lifecycle)
     \/ step' = "last" /\ UNCHANGED lifecycle              \* no bars at all
  /\ UNCHANGED <<fillEvents, cash, lockedCash, position, overrun, currentPrice,
                 close>>

-----------------------------------------------------------------------------
(* A bar: the exchange.                                                    *)

\* Bars come in the order of their times; several may have the same time.
NextBar ==
  /\ step = "next" /\ bars < MaxBars
  /\ \/ AdvanceTime /\ now' <= LastBar
     \/ UNCHANGED vars
  /\ bars' = bars + 1 /\ step' = "commands"
  /\ UNCHANGED <<manager, fillEvents, funds, currentPrice, close, runs,
                 warmedUp, lifecycle, stranded, held, registered>>

\* What a step of the exchange has reported; last and leaves are what a fill
\* says it filled and left of its order.
News(last, leaves) ==
  {[id |-> id, kind |-> history'[id][Len(history'[id])],
    last |-> last, leaves |-> leaves] :
     id \in {i \in Ids : history'[i] # history[i]}}

\* Mutant of Collect: an event takes the place of those before it.
CollectLast(last, leaves) ==
  fillEvents' = IF News(last, leaves) = {} THEN fillEvents
                ELSE <<CHOOSE e \in News(last, leaves) : TRUE>>

Collect(last, leaves) ==
  fillEvents' = IF News(last, leaves) = {} THEN fillEvents
                ELSE Append(fillEvents, CHOOSE e \in News(last, leaves) : TRUE)

\* leaves_qty of the fill that match x becomes.
LeftBy(x) ==
  LET o == stored[x.id]
      cum == o.cum + x.qty
  IN IF cum >= o.qty THEN 0 ELSE o.qty - cum

CommandCalls == \/ StartCommands \/ EndCommands
             \/ \E c \in inflight : ProcessCommand(c)

BarCommands ==
  /\ step = "commands" /\ CommandCalls /\ Collect(0, 0)
  /\ UNCHANGED <<manager, step, funds, currentPrice, close, loop>>

RunBar(inst) ==
  /\ step = "commands" /\ Ready = {}
  /\ \E low, high, last \in Prices :
       /\ low <= last /\ last <= high
       /\ MarketData(inst, BarView(inst, low, high, last))
       /\ close' = [inst |-> inst, price |-> last]
  /\ step' = "bar"
  /\ UNCHANGED <<market, manager, fillEvents, funds, currentPrice, loop>>

BarMatches ==
  /\ step = "bar"
  /\ \/ \E x \in matches : ProcessMatch(x) /\ Collect(x.qty, LeftBy(x))
     \/ \E id \in Ids : ExpireOrder(id) /\ Collect(0, 0)
     \/ EndData /\ Collect(0, 0)
  /\ UNCHANGED <<manager, step, funds, currentPrice, close, loop>>

-----------------------------------------------------------------------------
(* A bar: its events (handle_order_event).  The contingent manager is      *)
(* asked about fills and cancels. Its lists were cleared when the run      *)
(* started, so it never has an answer (theorem NeverContingent), and       *)
(* execute_contingent_actions has nothing to carry out.                    *)

\* A taker's price is any the market may show.
FillPrices(id) ==
  IF sent[id].type \in {"Market", "Stop"} THEN Prices ELSE {sent[id].price}

FillEvent(e) ==
  \E price \in FillPrices(e.id), fee \in Fees :
    IF sent[e.id].side = "Buy" THEN ExecuteBuy(e, price, fee)
                               ELSE ExecuteSell(e, price, fee)

\* Mutant of UnlockEvent: the entry stays when the funds are unlocked.
UnlockOnly(id) ==
  /\ lockedCash' = Released(LockOf(id))
  /\ UNCHANGED <<cash, position, lockedAmounts, overrun, refused>>

\* A canceled or rejected order.
UnlockEvent(id) ==
  /\ lockedCash' = Released(LockOf(id))
  /\ lockedAmounts' = [lockedAmounts EXCEPT ![id] = None]
  /\ UNCHANGED <<cash, position, overrun, refused>>

\* Mutant of HandleFunds: a rejection unlocks nothing.
HandleFundsNoReject(e) ==
  \/ e.kind = "Filled" /\ FillEvent(e)
  \/ e.kind = "Canceled" /\ UnlockEvent(e.id)
  \/ e.kind \notin {"Filled", "Canceled"} /\ UNCHANGED funds

\* Anything else, an expiry included, changes nothing.
HandleFunds(e) ==
  \/ e.kind = "Filled" /\ FillEvent(e)
  \/ e.kind \in {"Canceled", "Rejected"} /\ UnlockEvent(e.id)
  \/ e.kind \notin {"Filled", "Canceled", "Rejected"} /\ UNCHANGED funds

HandleEvent ==
  /\ step = "bar" /\ Open /\ fillEvents # <<>>
  /\ LET e == Head(fillEvents) IN
       HandleFunds(e) /\ OnOrderEvent(e.kind, e.id)
  /\ fillEvents' = Tail(fillEvents)
  /\ UNCHANGED <<vars, step, currentPrice, close, loop>>

-----------------------------------------------------------------------------
(* A bar: the strategy.                                                    *)

\* update_price; the strategy sees the bar, and may be ready to trade
\* (check_warmup_transition, the first time in a run).
StrategySeesBar ==
  /\ step = "bar" /\ Open /\ fillEvents = <<>>
  /\ currentPrice' = [currentPrice EXCEPT ![close.inst] = close.price]
  /\ \/ step' = "next" /\ UNCHANGED <<warmedUp, lifecycle>>
     \/ /\ step' = "submit" /\ warmedUp' = TRUE
        /\ lifecycle' = IF warmedUp THEN lifecycle
                        ELSE TransitionTo(lifecycle, "Transition")
  /\ UNCHANGED <<vars, manager, fillEvents, funds, close, runs, bars, stranded,
                 held, registered>>

\* What submit_order locks for a buy order: at its price, or the last one
\* known, with the portfolio's commission.
Estimate(r) ==
  LET cost == Cost(Or(r.price, currentPrice[r.inst]), r.qty)
  IN cost + cost * Rate

\* Ids are generated one after the other.
NextId == CHOOSE id \in Ids : sent[id] = None

\* Mutant of LockFunds: what other orders have locked is not looked at.
LockFundsTwice(id, r) ==
  IF r.side = "Sell" THEN UNCHANGED funds
  ELSE /\ Estimate(r) <= cash
       /\ lockedCash' = lockedCash + Estimate(r)
       /\ lockedAmounts' = [lockedAmounts EXCEPT ![id] = Estimate(r)]
       /\ UNCHANGED <<cash, position, overrun, refused>>

\* Only where the funds are available is the order submitted.
LockFunds(id, r) ==
  IF r.side = "Sell" THEN UNCHANGED funds
  ELSE /\ Estimate(r) <= AvailableCash
       /\ lockedCash' = lockedCash + Estimate(r)
       /\ lockedAmounts' = [lockedAmounts EXCEPT ![id] = Estimate(r)]
       /\ UNCHANGED <<cash, position, overrun, refused>>

\* get_orders and submit_order: an order whose funds cannot be locked is
\* dropped.
Submit ==
  /\ step = "submit"
  /\ \E id \in Ids :
       sent[id] = None /\ id = NextId /\ SubmitOrder(id)
         /\ LockFunds(id, sent'[id])
  /\ UNCHANGED <<manager, step, fillEvents, currentPrice, close, loop>>

\* get_cancellations.
Cancel ==
  /\ step \in {"submit", "cancel"} /\ step' = "cancel"
  /\ \E id \in Ids : CancelOrder(id)
  /\ UNCHANGED <<manager, fillEvents, funds, currentPrice, close, loop>>

EndBar ==
  /\ step \in {"submit", "cancel"} /\ step' = "next"
  /\ UNCHANGED <<vars, manager, fillEvents, funds, currentPrice, close, loop>>

-----------------------------------------------------------------------------
(* The end of a run: the commands still on their way are processed, but    *)
(* only fills among their events would be handled, and there are none.     *)

LastTime ==
  /\ step = "last" \/ (step = "next" /\ bars > 0)
  /\ IF now < MaxTime THEN AdvanceTime /\ now' = MaxTime ELSE UNCHANGED vars
  /\ step' = "flush"
  /\ UNCHANGED <<manager, fillEvents, funds, currentPrice, close, loop>>

Flush ==
  /\ step = "flush" /\ CommandCalls
  /\ UNCHANGED <<manager, step, fillEvents, funds, currentPrice, close, loop>>

EndRun ==
  /\ step = "flush" /\ Open /\ Ready = {}
  /\ step' = "idle" /\ lifecycle' = Terminate(lifecycle)
  /\ UNCHANGED <<vars, manager, fillEvents, funds, currentPrice, close, runs,
                 bars, warmedUp, stranded, held, registered>>

-----------------------------------------------------------------------------
BacktestInit ==
  /\ Init
  /\ orderLists = {} /\ orderToList = [id \in Ids |-> None]
  /\ submittedChildren = {} /\ processedOco = {}
  /\ step = "idle" /\ runs = 0 /\ bars = 0 /\ fillEvents = <<>>
  /\ cash = Capital /\ lockedCash = 0
  /\ position = [i \in Instruments |-> 0] /\ held = position
  /\ currentPrice = [i \in Instruments |-> None]
  /\ lockedAmounts = [id \in Ids |-> None]
  /\ close = None /\ warmedUp = FALSE /\ lifecycle = Initialized
  /\ stranded = 0 /\ overrun = FALSE /\ refused = {} /\ registered = {}

BacktestNext ==
  \/ StartRun \/ NextBar \/ BarCommands \/ BarMatches \/ HandleEvent
  \/ StrategySeesBar \/ Submit \/ Cancel \/ EndBar
  \/ LastTime \/ Flush \/ EndRun
  \/ \E l \in ListIds : Register(l)
  \/ \E inst \in Instruments : RunBar(inst)

BacktestSpec == BacktestInit /\ [][BacktestNext]_bvars

-----------------------------------------------------------------------------
(* Properties.                                                             *)

Notice == [id : Ids, kind : Events, last : Nat, leaves : Nat]
Steps == {"idle", "next", "last", "commands", "bar", "submit", "cancel",
          "flush"}

\* The engine's and the portfolio's variables have their types; in particular
\* no position is ever negative.
BacktestTypeOK ==
  /\ orderLists \subseteq ListIds /\ registered \subseteq ListIds
  /\ orderToList \in [Ids -> ListIds \cup {None}]
  /\ submittedChildren \subseteq ListIds /\ processedOco \subseteq ListIds
  /\ step \in Steps /\ runs \in Nat /\ bars \in Nat
  /\ fillEvents \in Seq(Notice)
  /\ cash \in Int /\ lockedCash \in Nat /\ stranded \in Nat
  /\ position \in [Instruments -> Nat] /\ held \in [Instruments -> Nat]
  /\ currentPrice \in [Instruments -> Prices \cup {None}]
  /\ lockedAmounts \in [Ids -> Nat \cup {None}]
  /\ close \in [inst : Instruments, price : Prices] \cup {None}
  /\ warmedUp \in BOOLEAN /\ overrun \in BOOLEAN /\ refused \subseteq Ids
  /\ lifecycle \in Tracked

\* The units of money, or of shares, that order id stands for, and all orders.
UnitsOf(id, amount) == IF amount = None THEN {} ELSE {id} \X (1 .. amount)
AllUnits(amounts) == UNION {UnitsOf(id, amounts[id]) : id \in Ids}

\* "Locked funds are released when the order fills or is canceled": the cash
\* locked in the portfolio is what is locked for the orders of this run, each
\* released once, and what was left locked when the run began. (A run forgets
\* the locks of the run before, and the portfolio keeps them.)
LockedCashAccounted ==
  lockedCash = stranded + Cardinality(AllUnits(lockedAmounts))

Waiting(id, kinds) ==
  \E i \in DOMAIN fillEvents :
    fillEvents[i].id = id /\ fillEvents[i].kind \in kinds
BuyOrder(id) == sent[id] # None /\ sent[id].side = "Buy"

\* Every buy order that can still fill has its funds locked; funds are locked
\* for no other order, but for one that expired, or whose end was reported
\* after the last bar: their funds stay locked.
Live(id) == InFlight(id) \/ stored[id] # None
              \/ Waiting(id, {"Filled", "Canceled", "Rejected"})

LocksFollowOrders ==
  \A id \in Ids :
    /\ BuyOrder(id) /\ Live(id) => lockedAmounts[id] # None
    /\ lockedAmounts[id] # None =>
         /\ BuyOrder(id)
         /\ Live(id) \/ Has(id, {"Expired"}) \/ step \in {"flush", "idle"}

\* "Check if we have enough cash (should always pass if locking was done
\* correctly)": as long as every fill cost at most what was locked for it
\* (and no fee exceeded the proceeds of a sale), the cash covers all locked
\* funds and no filled buy order is refused by the portfolio.
LocksCoverFills ==
  ~overrun =>
    /\ lockedCash <= cash
    /\ \A id \in refused : ~BuyOrder(id)

\* The exchange has filled the order and its event was handled; and the
\* portfolio carried it out.
FillHandled(id) == Has(id, {"Filled"}) /\ ~Waiting(id, {"Filled"})
Executed(id) == FillHandled(id) /\ id \notin refused

\* The quantities of the orders carried out on side s of instrument i.
Traded(i, s) ==
  [id \in Ids |->
     IF Executed(id) /\ sent[id].inst = i /\ sent[id].side = s
     THEN sent[id].qty ELSE None]

\* The portfolio's positions are those it had when the run began and what the
\* exchange has filled since, each order once and with its whole quantity, but
\* for the fills whose events still wait and those the portfolio refused.
PositionsFollowFills ==
  \A i \in Instruments :
    position[i] + Cardinality(AllUnits(Traded(i, "Sell")))
      = held[i] + Cardinality(AllUnits(Traded(i, "Buy")))

\* "Contingent orders (brackets, OCO) are handled automatically": when a run
\* looks at the fill of an order of an OCO list that was registered for it, the
\* contingent manager answers with a cancel for every other order of the list
\* that still works and has none on its way.
CancelSent(id) == \E c \in inflight : c.kind = "cancel" /\ c.id = id

ListsActOnFills ==
  step = "bar" /\ Open /\ fillEvents # <<>> =>
    LET e == Head(fillEvents) IN
    \A l \in registered :
      e.kind = "Filled" /\ ListOf[l].type = "OCO" /\ e.id \in Members(l) =>
        \A id \in Members(l) \ {e.id} :
          stored[id] # None /\ ~CancelSent(id) =>
            [kind |-> "cancel", id |-> id] \in Answer("Filled", e.id)

=============================================================================
