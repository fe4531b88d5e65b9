--------------------------- MODULE SimulatedExchange ---------------------------
(***************************************************************************)
(* The backtest exchange of trading-common: SimulatedExchange with its     *)
(* InflightQueue, the matching core of each instrument and the account     *)
(* balances (execution/simulated_exchange.rs, inflight_queue.rs,           *)
(* matching/*.rs, accounts/account.rs).                                    *)
(*                                                                         *)
(* A caller submits, modifies and cancels orders; the commands arrive      *)
(* after a latency.  It advances the time, lets the exchange process what  *)
(* has arrived, and feeds it market data.  A call that works through a     *)
(* list is one action per element: phase says which call is under way, and *)
(* nothing else happens until it is over.                                  *)
(*                                                                         *)
(* Order ids are fresh (ClientOrderId::generate), so an order's immutable  *)
(* fields are read from what was submitted.  Prices are small integers;    *)
(* the price of a taker's fill, fees and the bar's open are left out.      *)
(***************************************************************************)
EXTENDS Naturals, Sequences, FiniteSets

CONSTANTS
  Ids, Instruments, Accounts,
  Deposit,             \* what each account holds at first
  Requests,            \* the orders a caller may submit
  Changes,             \* the modifications it may ask for
  Prices,              \* prices the market may show
  InsertLatencies, UpdateLatencies, DeleteLatencies,   \* the LatencyModel
  RejectStopOrders, SupportGtd,                        \* the exchange's config
  MaxTime, MaxCommands, \* bounds: the clock, and commands sent
  None

OrderTypes == {"Market", "Limit", "Stop", "StopLimit", "TrailingStop",
               "LimitIfTouched", "MarketToLimit"}
StopTypes == {"Stop", "StopLimit", "TrailingStop"}
Positive == Nat \ {0}

\* The price a stop's trigger is compared with; the other trigger types of the
\* code stand for the last price.
TriggerTypes == {"LastPrice", "BidPrice", "AskPrice", "MidPrice"}

\* An order as OrderBuilder::build lets it through, its account resolved
\* (None: the exchange has no such account).
Request == [type : OrderTypes, side : {"Buy", "Sell"},
            price : Positive \cup {None}, trigger : Positive \cup {None},
            triggerType : TriggerTypes, qty : Positive,
            expire : Nat \cup {None}, inst : Instruments,
            acct : Accounts \cup {None}]

\* What a modification asks for is not validated but for a quantity of zero. A
\* price of zero is among them; negative prices and quantities, which
\* process_modify would take too, are left out by this assumption.
Change == [price : Nat \cup {None}, qty : Nat \cup {None}]

ASSUME ExchangeAssumption ==
  /\ None \notin Nat \cup Accounts \cup [acct : Accounts, amount : Nat]
                     \cup Request
                     \cup [price : Nat \cup {None}, qty : Nat, cum : Nat]
  /\ Deposit \in [Accounts -> Nat]
  /\ Requests \subseteq Request /\ Changes \subseteq Change
  /\ Prices \subseteq Positive
  /\ InsertLatencies \subseteq Nat /\ UpdateLatencies \subseteq Nat
  /\ DeleteLatencies \subseteq Nat
  /\ RejectStopOrders \in BOOLEAN /\ SupportGtd \in BOOLEAN
  /\ MaxTime \in Nat /\ MaxCommands \in Nat

VARIABLES
  now,        \* current_time_ns
  inflight,   \* the commands on their way
  count,      \* commands sent so far; numbers them for FIFO order
  sent,       \* order id -> the order as submitted, or None
  stored,     \* order id -> the accepted order as it stands, or None
  engine,     \* the copies the matching engines work on
  matches,    \* matches of the market data under way, not yet turned to fills
  phase,      \* "open", or the call under way: "commands" or "data"
  lastBid, lastAsk,   \* instrument -> last quote, or None
  balance,    \* account -> its total, free and locked funds
  lock,       \* order id -> account and amount locked for it, or None
  history,    \* order id -> the events reported for it
  spent,      \* history: what each account's filled orders cost at their price
  forgotten   \* history: what each account had locked when reset was last called

market == <<lastBid, lastAsk>>
orders == <<sent, stored, engine, lock, history>>
vars == <<now, inflight, count, orders, matches, phase, market, balance, spent,
          forgotten>>

-----------------------------------------------------------------------------
(* Account balances (AccountBalance::lock, unlock, fill).  Callers ignore  *)
(* the error of the last two.                                              *)

\* Mutant of CanLock: the total is looked at instead of what is free.
CanLockTotal(b, amount) == amount <= b.total

CanLock(b, amount) == amount <= b.free
Locked(b, amount) == [b EXCEPT !.free = @ - amount, !.locked = @ + amount]

Unlocked(b, amount) ==
  IF amount > b.locked THEN b
  ELSE [b EXCEPT !.locked = @ - amount, !.free = @ + amount]

Charged(b, amount) ==
  IF amount > b.locked THEN b
  ELSE [b EXCEPT !.locked = @ - amount, !.total = @ - amount]

\* What an operation on the funds locked for an order makes of the balances.
Settle(id, Op(_, _)) ==
  IF lock[id] = None THEN balance
  ELSE [balance EXCEPT ![lock[id].acct] = Op(@, lock[id].amount)]

Cost(price, qty) == IF price = None THEN 0 ELSE price * qty

\* Sell orders, orders without a price and orders of unknown accounts lock
\* nothing.
Required(r) ==
  IF r.side = "Buy" /\ r.acct # None THEN Cost(r.price, r.qty) ELSE 0

-----------------------------------------------------------------------------
(* The caller.                                                             *)

Open == phase = "open"
Kinds == {"submit", "modify", "cancel"}
Command == [kind : Kinds, id : Ids, price : Nat \cup {None},
            qty : Nat \cup {None}, at : Nat, seq : Nat]

\* InflightQueue::push.
Push(kind, id, ch, latency) ==
  /\ Open /\ count < MaxCommands
  /\ inflight' = inflight \cup
       {[kind |-> kind, id |-> id, price |-> ch.price, qty |-> ch.qty,
         at |-> now + latency, seq |-> count]}
  /\ count' = count + 1
  /\ UNCHANGED <<now, stored, engine, lock, history, matches, phase, market,
                 balance, spent, forgotten>>

NoChange == [price |-> None, qty |-> None]

SubmitOrder(id) ==
  /\ sent[id] = None
  /\ \E r \in Requests, latency \in InsertLatencies :
       /\ Push("submit", id, NoChange, latency)
       /\ sent' = [sent EXCEPT ![id] = r]

CancelOrder(id) ==
  /\ sent[id] # None
  /\ \E latency \in DeleteLatencies : Push("cancel", id, NoChange, latency)
  /\ UNCHANGED sent

ModifyOrder(id) ==
  /\ sent[id] # None
  /\ \E ch \in Changes, latency \in UpdateLatencies :
       Push("modify", id, ch, latency)
  /\ UNCHANGED sent

\* Market data comes in the order of its time.
AdvanceTime ==
  /\ Open
  /\ now' \in now + 1 .. MaxTime
  /\ UNCHANGED <<inflight, count, orders, matches, phase, market, balance,
                 spent, forgotten>>

-----------------------------------------------------------------------------
(* process_inflight_commands: the commands that have arrived, the earliest *)
(* first and in the order they were sent where they arrive together.       *)

Ready == {c \in inflight : c.at <= now}
Before(c, d) == c.at < d.at \/ (c.at = d.at /\ c.seq <= d.seq)
Earliest(c) == c \in Ready /\ \A d \in Ready : Before(c, d)

Report(id, event) == history' = [history EXCEPT ![id] = Append(@, event)]

StartCommands ==
  /\ Open /\ Ready # {} /\ phase' = "commands"
  /\ UNCHANGED <<now, inflight, count, orders, matches, market, balance, spent,
                 forgotten>>

EndCommands ==
  /\ phase = "commands" /\ Ready = {} /\ phase' = "open"
  /\ UNCHANGED <<now, inflight, count, orders, matches, market, balance, spent,
                 forgotten>>

Take(c, kind) ==
  /\ phase = "commands" /\ Earliest(c) /\ c.kind = kind
  /\ inflight' = inflight \ {c}
  /\ UNCHANGED <<now, count, sent, matches, phase, market, spent, forgotten>>

\* An order's copy in its matching engine (Order::clone). The engine never
\* looks at the fields left out.
Copy(id, type, price, leaves) ==
  [id |-> id, type |-> type, price |-> price, leaves |-> leaves]

\* Mutant of WithoutCopy: the trigger orders are not searched.
WithoutResting(id) == {c \in engine : c.id # id \/ c.type \in StopTypes}

\* remove_order: an order has at most one copy.
WithoutCopy(id) == {c \in engine : c.id # id}

\* process_submit.
Refused(r) == \/ RejectStopOrders /\ r.type \in StopTypes
              \/ r.acct # None /\ ~CanLock(balance[r.acct], Required(r))

RejectSubmit(c) ==
  /\ Take(c, "submit") /\ Refused(sent[c.id])
  /\ Report(c.id, "Rejected")
  /\ UNCHANGED <<stored, engine, lock, balance>>

AcceptSubmit(c) ==
  LET r == sent[c.id]
      amount == Required(r)
  IN /\ Take(c, "submit") /\ ~Refused(r)
     /\ IF amount > 0
        THEN /\ balance' = [balance EXCEPT ![r.acct] = Locked(@, amount)]
             /\ lock' = [lock EXCEPT ![c.id] =
                           [acct |-> r.acct, amount |-> amount]]
        ELSE UNCHANGED <<balance, lock>>
     /\ stored' = [stored EXCEPT ![c.id] =
                     [price |-> r.price, qty |-> r.qty, cum |-> 0]]
     /\ Report(c.id, "Accepted")
     /\ engine' = engine \cup {Copy(c.id, r.type, r.price, r.qty)}

\* process_cancel. An accepted order is cancelable as long as it is stored.
CancelWorking(c) ==
  /\ Take(c, "cancel") /\ stored[c.id] # None
  /\ engine' = WithoutCopy(c.id)
  /\ Report(c.id, "Canceled")
  /\ stored' = [stored EXCEPT ![c.id] = None]
  /\ lock' = [lock EXCEPT ![c.id] = None]
  /\ balance' = Settle(c.id, Unlocked)

CancelUnknown(c) ==
  /\ Take(c, "cancel") /\ stored[c.id] = None
  /\ UNCHANGED <<stored, engine, lock, history, balance>>

-----------------------------------------------------------------------------
(* process_modify.                                                         *)

Or(new, old) == IF new = None THEN old ELSE new

Modified(c) ==
  [stored[c.id] EXCEPT !.price = Or(c.price, @), !.qty = Or(c.qty, @)]

\* Mutant of NewAmount: the new price is forgotten.
AmountAtOldPrice(c) == Cost(stored[c.id].price, Modified(c).qty)

NewAmount(c) == Cost(Modified(c).price, Modified(c).qty)

\* Found and within what was filled, and the funds suffice.
GoodChange(c) ==
  /\ stored[c.id] # None
  /\ c.qty # None => c.qty # 0 /\ c.qty >= stored[c.id].cum
  /\ lock[c.id] # None /\ NewAmount(c) > lock[c.id].amount =>
       CanLock(balance[lock[c.id].acct], NewAmount(c) - lock[c.id].amount)

\* Mutant of RejectModify: the order has its new terms before the funds are
\* looked at.
RejectModifyLate(c) ==
  /\ Take(c, "modify") /\ ~GoodChange(c)
  /\ Report(c.id, "ModifyRejected")
  /\ stored' = IF stored[c.id] = None THEN stored
               ELSE [stored EXCEPT ![c.id] = Modified(c)]
  /\ UNCHANGED <<engine, lock, balance>>

RejectModify(c) ==
  /\ Take(c, "modify") /\ ~GoodChange(c)
  /\ Report(c.id, "ModifyRejected")
  /\ UNCHANGED <<stored, engine, lock, balance>>

\* Mutant of Relocked: an excess is not released.
RelockedUp(b, old, new) == IF new > old THEN Locked(b, new - old) ELSE b

\* The balance b of an order whose locked amount changes from old to new.
Relocked(b, old, new) ==
  IF new > old THEN Locked(b, new - old) ELSE Unlocked(b, old - new)

\* Only a buy order has locked funds. The engine gets a new copy of the
\* stored order, of the type it was submitted with.
AcceptModify(c) ==
  LET o == Modified(c)
      id == c.id
  IN /\ Take(c, "modify") /\ GoodChange(c)
     /\ stored' = [stored EXCEPT ![id] = o]
     /\ IF lock[id] # None
        THEN /\ balance' = [balance EXCEPT ![lock[id].acct] =
                              Relocked(@, lock[id].amount, NewAmount(c))]
             /\ lock' = [lock EXCEPT ![id].amount = NewAmount(c)]
        ELSE UNCHANGED <<balance, lock>>
     /\ engine' = WithoutCopy(id)
                    \cup {Copy(id, sent[id].type, o.price, o.qty - o.cum)}
     /\ Report(id, "Updated")

ProcessCommand(c) ==
  \/ RejectSubmit(c) \/ AcceptSubmit(c) \/ CancelWorking(c)
  \/ CancelUnknown(c) \/ RejectModify(c) \/ AcceptModify(c)

-----------------------------------------------------------------------------
(* Matching (OrderMatchingCore).  Market data m gives bid, ask, last, high *)
(* and low, None where unknown; point2 is twice the last price that stops  *)
(* are compared with.  The matching engine's configuration is its default: *)
(* every kind of data is executed, a bar by its range and at its close.    *)

\* Twice the price that a stop is compared with where the data has no range.
Point2(type, m) ==
  CASE type = "LastPrice" -> m.point2
    [] type = "BidPrice" /\ m.bid # None -> 2 * m.bid
    [] type = "AskPrice" /\ m.ask # None -> 2 * m.ask
    [] type = "MidPrice" /\ None \notin {m.bid, m.ask} -> m.bid + m.ask
    [] OTHER -> None

Reached(c, m) ==
  LET r == sent[c.id]
      at == r.trigger
      point == Point2(r.triggerType, m)
  IN /\ c.type \in StopTypes /\ at # None
     /\ IF m.high # None
        THEN IF r.side = "Buy" THEN m.high >= at ELSE m.low <= at
        ELSE /\ point # None
             /\ IF r.side = "Buy" THEN point >= 2 * at ELSE point <= 2 * at

\* check_triggers: a stop that is reached becomes a market order, a stop
\* limit a limit order; a trailing stop waits again.
Triggered(c) ==
  [c EXCEPT !.type = CASE @ = "Stop" -> "Market"
                       [] @ = "StopLimit" -> "Limit"
                       [] OTHER -> @]

AfterTriggers(inst, m) ==
  {IF sent[c.id].inst = inst /\ Reached(c, m) THEN Triggered(c) ELSE c :
     c \in engine}

\* The first of range, quote and trade price that is known decides a limit.
Touches(price, side, m) ==
  IF side = "Buy" THEN Or(m.low, Or(m.ask, m.last)) <= price
                  ELSE Or(m.high, Or(m.bid, m.last)) >= price

\* try_fill_order and match_orders: a market order always fills.
Fills(c, m) ==
  LET side == sent[c.id].side IN
  \/ c.type = "Market"
  \/ c.type = "Limit" /\ c.price # None /\ Touches(c.price, side, m)
  \/ /\ c.type = "LimitIfTouched" /\ c.price # None /\ m.high # None
     /\ Touches(c.price, side, m)

Match(c) == [id |-> c.id, qty |-> c.leaves,
             price |-> IF c.type = "Market" THEN None ELSE c.price]

\* The engine of inst works through its orders: fills are whole.
MarketData(inst, m) ==
  LET awake == AfterTriggers(inst, m)
      done == {c \in awake : sent[c.id].inst = inst /\ Fills(c, m)}
  IN /\ Open /\ phase' = "data"
     /\ engine' = awake \ done
     /\ matches' = {Match(c) : c \in done}
     /\ UNCHANGED <<now, inflight, count, sent, stored, lock, history, balance,
                    spent, forgotten>>

BarView(inst, low, high, close) ==
  [bid |-> lastBid[inst], ask |-> close, last |-> close, high |-> high,
   low |-> low, point2 |-> 2 * close]

ProcessBar(inst) ==
  /\ \E low, high, close \in Prices :
       /\ low <= close /\ close <= high
       /\ MarketData(inst, BarView(inst, low, high, close))
  /\ UNCHANGED market

ProcessTradeTick(inst) ==
  /\ \E p \in Prices :
       MarketData(inst, [bid |-> lastBid[inst], ask |-> lastAsk[inst],
                         last |-> p, high |-> None, low |-> None,
                         point2 |-> 2 * p])
  /\ UNCHANGED market

ProcessQuoteTick(inst) ==
  \E bid, ask \in Prices :
    /\ bid <= ask
    /\ lastBid' = [lastBid EXCEPT ![inst] = bid]
    /\ lastAsk' = [lastAsk EXCEPT ![inst] = ask]
    /\ MarketData(inst, [bid |-> bid, ask |-> ask, last |-> None,
                         high |-> None, low |-> None, point2 |-> bid + ask])

\* Mutant of ProcessMatch: an order goes only when more than its quantity is
\* filled.
MatchKeepsOrder(x) ==
  LET id == x.id
      o == stored[id]
      cum == o.cum + x.qty
  IN /\ phase = "data" /\ x \in matches
     /\ matches' = matches \ {x}
     /\ IF o = None
        THEN UNCHANGED <<stored, lock, balance, history, spent>>
        ELSE /\ Report(id, "Filled")
             /\ IF cum > o.qty
                THEN /\ stored' = [stored EXCEPT ![id] = None]
                     /\ lock' = [lock EXCEPT ![id] = None]
                     /\ balance' = Settle(id, Charged)
                ELSE /\ stored' = [stored EXCEPT ![id].cum = cum]
                     /\ UNCHANGED <<lock, balance>>
             /\ IF Required(sent[id]) > 0
                THEN spent' = [spent EXCEPT ![sent[id].acct] =
                                 @ + Cost(Or(x.price, o.price), x.qty)]
                ELSE UNCHANGED spent
     /\ UNCHANGED <<now, inflight, count, sent, engine, phase, market,
                    forgotten>>

\* process_matches: a match becomes a fill of the stored order, which goes
\* when nothing of it is left. What was locked for a buy order is charged.
ProcessMatch(x) ==
  LET id == x.id
      o == stored[id]
      cum == o.cum + x.qty
  IN /\ phase = "data" /\ x \in matches
     /\ matches' = matches \ {x}
     /\ IF o = None
        THEN UNCHANGED <<stored, lock, balance, history, spent>>
        ELSE /\ Report(id, "Filled")
             /\ IF cum >= o.qty
                THEN /\ stored' = [stored EXCEPT ![id] = None]
                     /\ lock' = [lock EXCEPT ![id] = None]
                     /\ balance' = Settle(id, Charged)
                ELSE /\ stored' = [stored EXCEPT ![id].cum = cum]
                     /\ UNCHANGED <<lock, balance>>
             /\ IF Required(sent[id]) > 0
                THEN spent' = [spent EXCEPT ![sent[id].acct] =
                                 @ + Cost(Or(x.price, o.price), x.qty)]
                ELSE UNCHANGED spent
     /\ UNCHANGED <<now, inflight, count, sent, engine, phase, market,
                    forgotten>>

\* check_expired_orders, at the end of every call with market data.
Expired(id) ==
  /\ SupportGtd /\ stored[id] # None
  /\ sent[id].expire # None /\ now >= sent[id].expire

ExpireOrder(id) ==
  /\ phase = "data" /\ matches = {} /\ Expired(id)
  /\ engine' = WithoutCopy(id)
  /\ stored' = [stored EXCEPT ![id] = None]
  /\ lock' = [lock EXCEPT ![id] = None]
  /\ balance' = Settle(id, Unlocked)
  /\ Report(id, "Expired")
  /\ UNCHANGED <<now, inflight, count, sent, matches, phase, market, spent,
                 forgotten>>

EndData ==
  /\ phase = "data" /\ matches = {} /\ \A id \in Ids : ~Expired(id)
  /\ phase' = "open"
  /\ UNCHANGED <<now, inflight, count, orders, matches, market, balance, spent,
                 forgotten>>

\* reset, at the start of a run: orders and locks go, the accounts stay.
Reset ==
  /\ Open
  /\ forgotten' = [a \in Accounts |-> balance[a].locked]
  /\ now' = 0 /\ inflight' = {} /\ engine' = {}
  /\ sent' = [id \in Ids |-> None] /\ stored' = [id \in Ids |-> None]
  /\ lock' = [id \in Ids |-> None] /\ history' = [id \in Ids |-> <<>>]
  /\ lastBid' = [i \in Instruments |-> None]
  /\ lastAsk' = [i \in Instruments |-> None]
  /\ UNCHANGED <<count, matches, phase, balance, spent>>

-----------------------------------------------------------------------------
Init ==
  /\ now = 0 /\ inflight = {} /\ count = 0 /\ engine = {} /\ matches = {}
  /\ phase = "open" /\ forgotten = [a \in Accounts |-> 0]
  /\ sent = [id \in Ids |-> None] /\ stored = [id \in Ids |-> None]
  /\ lock = [id \in Ids |-> None] /\ history = [id \in Ids |-> <<>>]
  /\ lastBid = [i \in Instruments |-> None]
  /\ lastAsk = [i \in Instruments |-> None]
  /\ balance = [a \in Accounts |->
                  [total |-> Deposit[a], free |-> Deposit[a], locked |-> 0]]
  /\ spent = [a \in Accounts |-> 0]

Caller(id) == SubmitOrder(id) \/ CancelOrder(id) \/ ModifyOrder(id)
Data(inst) ==
  ProcessBar(inst) \/ ProcessTradeTick(inst) \/ ProcessQuoteTick(inst)

Next ==
  \/ \E id \in Ids : Caller(id) \/ ExpireOrder(id)
  \/ AdvanceTime \/ StartCommands \/ EndCommands \/ EndData \/ Reset
  \/ \E c \in inflight : ProcessCommand(c)
  \/ \E inst \in Instruments : Data(inst)
  \/ \E x \in matches : ProcessMatch(x)

Spec == Init /\ [][Next]_vars

-----------------------------------------------------------------------------
(* Properties.                                                             *)

Stored == [price : Nat \cup {None}, qty : Nat, cum : Nat]
Events == {"Accepted", "Rejected", "Updated", "ModifyRejected", "Filled",
           "Canceled", "Expired"}

\* Every variable has its type; in particular no balance is ever negative.
TypeOK ==
  /\ now \in Nat /\ count \in Nat
  /\ inflight \subseteq Command
  /\ sent \in [Ids -> Requests \cup {None}]
  /\ stored \in [Ids -> Stored \cup {None}]
  /\ engine \subseteq [id : Ids, type : OrderTypes,
                       price : Nat \cup {None}, leaves : Nat]
  /\ matches \subseteq [id : Ids, qty : Nat, price : Nat \cup {None}]
  /\ phase \in {"open", "commands", "data"}
  /\ lastBid \in [Instruments -> Prices \cup {None}]
  /\ lastAsk \in [Instruments -> Prices \cup {None}]
  /\ balance \in [Accounts -> [total : Nat, free : Nat, locked : Nat]]
  /\ lock \in [Ids -> [acct : Accounts, amount : Nat] \cup {None}]
  /\ history \in [Ids -> Seq(Events)]
  /\ spent \in [Accounts -> Nat]
  /\ forgotten \in [Accounts -> Nat]

\* Money is neither made nor lost: free and locked funds add up to the total,
\* and the total went down by exactly what the filled buy orders cost at the
\* price they were filled at (a market order: at the reference price it was
\* given), however often they were modified before.
BalancesConsistent ==
  \A a \in Accounts :
    /\ balance[a].free + balance[a].locked = balance[a].total
    /\ balance[a].total + spent[a] = Deposit[a]

\* The units of money that the locks l hold in account a.
Units(id, e, a) ==
  IF e # None /\ e.acct = a THEN {id} \X (1 .. e.amount) ELSE {}
LockedUnits(l, a) == UNION {Units(id, l[id], a) : id \in Ids}

\* The funds locked in an account are those locked for its orders, and an
\* order has funds locked only while it is stored: no cancel, expiry, fill or
\* rejection leaves funds behind.  Only reset does, which forgets the orders
\* and, as its comment says, not the accounts: what was locked then stays
\* locked, to the unit, whatever the orders of later runs lock and release.
LocksMatchOrders ==
  /\ \A id \in Ids : lock[id] # None => stored[id] # None
  /\ \A a \in Accounts :
       balance[a].locked = forgotten[a] + Cardinality(LockedUnits(lock, a))

\* What the matching engine works on is what the exchange stores: a stored
\* order has exactly one copy in the engine, or one match still to be turned
\* into a fill, with the remaining quantity and the price of the stored order;
\* an order that is gone has none that could still fill.
CopiesOf(id) == {c \in engine : c.id = id}
MatchesOf(id) == {x \in matches : x.id = id}

OneCopyWorking ==
  \A id \in Ids :
    IF stored[id] = None THEN CopiesOf(id) = {} /\ MatchesOf(id) = {}
    ELSE LET left == stored[id].qty - stored[id].cum IN
         \/ /\ MatchesOf(id) = {}
            /\ \E c \in CopiesOf(id) :
                 /\ CopiesOf(id) = {c}
                 /\ c.leaves = left /\ c.price = stored[id].price
         \/ /\ CopiesOf(id) = {}
            /\ \E x \in MatchesOf(id) :
                 /\ MatchesOf(id) = {x}
                 /\ x.qty = left /\ x.price \in {stored[id].price, None}

Terminal == {"Rejected", "Filled", "Canceled", "Expired"}
Has(id, kinds) == \E i \in DOMAIN history[id] : history[id][i] \in kinds

\* Whatever arrives in whatever order, the events of an order tell one story:
\* it is answered once, ends at most once, and after its end nothing is
\* reported of it but the refusal of a late modification. It is stored exactly
\* while the story is open. In particular an order fills once, and not after
\* it was canceled or expired.
OneStory ==
  \A id \in Ids :
    LET h == history[id] IN
    /\ \A i, j \in DOMAIN h : i < j =>
         /\ h[i] \in Terminal => h[j] = "ModifyRejected"
         /\ h[j] = "Accepted" => h[i] = "ModifyRejected"
    /\ stored[id] # None <=> Has(id, {"Accepted"}) /\ ~Has(id, Terminal)

\* Where an order is in its life, and at what terms.
InFlight(id) == \E c \in inflight : c.kind = "submit" /\ c.id = id

Stage == [id \in Ids |-> IF sent[id] = None THEN "new"
                         ELSE IF stored[id] # None THEN "working"
                         ELSE IF InFlight(id) THEN "sent" ELSE "over"]

Asked(o) == [price |-> o.price, qty |-> o.qty]
TermsNow == [id \in Ids |-> CASE Stage[id] = "working" -> Asked(stored[id])
                              [] Stage[id] = "sent" -> Asked(sent[id])
                              [] OTHER -> None]

Life == INSTANCE OrderLife
          WITH Orders <- Ids, Terms <- [price : Nat \cup {None}, qty : Nat],
               stage <- Stage, terms <- TermsNow, told <- history

\* Behind the latencies, the order in which commands arrive and the copies in
\* the matching engines, every order leads the life the exchange promises:
\* accepted as it was submitted, its terms changed only by an update that is
\* told, ended once; and no step touches two orders.
KeepsOrderLife == Life!Spec

\* process_inflight_commands "Returns events for each processed command".
AnswersEveryCommand ==
  [][\A c \in inflight \ inflight' :
       phase = "commands" => history'[c.id] # history[c.id]]_vars

\* A GTD order "remains active until specified expiry time": it is not filled
\* after that time.
GoodTillDate ==
  [][\A id \in Ids : history'[id] = Append(history[id], "Filled") =>
       sent[id].expire = None \/ now <= sent[id].expire]_vars

=============================================================================
