# A TLA+ model of rust-trade

TLA+ modules that model the core of this repository, TLC configurations that
check them on small instances, and proofs that TLAPS checks for every instance.
`PROJECT.json` lists the components, the runs, the source lines each definition
stands for, the hazards, the findings and the theorems.

Running: `tlc -config order_manager.cfg MCOrderManager`, and likewise for the
other `.cfg` files (the table under *Runs* names the modules);
`tlapm M.tla` checks the proofs of M, which is one of `OrderManagerProofs`,
`OrderHistoryProofs`, `SimulatedExchangeProofs`, `ContingentExchangeProofs`,
`BacktestEngineProofs`, `RingBufferProofs` and `ServiceRegistryProofs`.

## Inventory of the system

A Rust workspace. `data-manager` collects market data and hands it to
`trading-core` through shared memory; `trading-core` runs strategies live (on
paper); `trading-common` holds the domain: orders, execution, backtests,
accounts, risk, instruments, component state. The remaining crates and folders
(`src-tauri`, `frontend`, `strategies`, `docker`, `config`) are user interfaces,
examples and deployment.

| Component | State | Operations | Hard part | Correct when |
|---|---|---|---|---|
| Order manager (`trading-common/src/orders/manager.rs`) | five maps and the callbacks, each behind its own `tokio` `RwLock` | submit, mark_*, apply_fill, cancel(_all), expire, clear, reset, queries | every call is several lock sections; some sections nest two locks | quantities, indexes, histories agree; closed orders are final; calls return |
| Simulated exchange (`execution/simulated_exchange.rs`, `inflight_queue.rs`, `matching/`, `accounts/`) | queue of commands, stored orders, the engines' copies, locked funds, balances | submit, cancel, modify, market data, expiry, reset | latencies reorder commands; the order lives in three places at once | money is conserved, locks are released, an order ends once |
| IPC ring buffer (`data-manager/src/transport/ipc/ring_buffer.rs`) | two positions, flags, the data area | push, try_pop | two processes without a lock; overflow moves the other side's position | whole ticks, in order, none lost until the buffer is full |
| State registry and coordinator (`trading-common/src/state/`) | component states, per-strategy trackers, waiters, event channel | register, transition, force, fault, cascade, wait | registry and tracker under different locks; subscribe after check | tracker and registry agree; waiters see every state |
| Backtest engine, portfolio, contingent orders (`backtest/`, `orders/contingent_manager.rs`) | cash and locked funds, brackets and OCO lists | run loop, order events, submit, cancel siblings | composition with the exchange and its latency | the locks follow the orders; siblings of an ended order have their cancel on the way |
| Service registry, control channel, segments (`data-manager/src/transport/ipc/`) | slots, active count, spin lock; request and response queues | register, deregister, heartbeat, clean up; send, receive | shared memory of processes that may die | one slot per instance, a found entry is served; answers reach the client that asked |
| Session manager (`instruments/session_manager.rs`) | market state per symbol | register, get_status, background check | the task and the readers keep different states | status follows the schedule |
| Market data service (`trading-core/src/service/market_data.rs`) | bounded channel, batch, cache | exchange callback, batching, retries | a spawned task per tick | order per symbol, nothing stored twice |
| Backfill (`data-manager/src/backfill/`) | jobs, cooldowns, daily spend | request, execute, cancel | check and record far apart; work on copies | daily limit holds; cancel has an effect |
| Venue connections (`venue/websocket`, `venue/http`) | connection state, attempts, rate limit | connect, read, back off | reconnect against shutdown | keeps trying, stops when told |
| Risk, fees, instruments, series, bars, data layer | tables and decimal arithmetic | lookups, calculations, SQL | mostly data | covered by unit tests |

Interaction: a strategy's `StrategyContext` (`execution/context.rs`) and the
`ExecutionEngine` (`execution/engine.rs`) call the order manager; the backtest
engine drives the contingent order manager and the simulated exchange, and turns
the exchange's events into portfolio changes; the state coordinator is called by
the backtest engines, by paper trading and by the main programs; the data source
in `trading-core/src/data_source/ipc.rs` is the consumer of the ring buffers that
`data-manager` fills from `cli/serve.rs`.

## Plan

The order of the work, the core of the system first, and where it stands.

1. `OrderManager`, `OrderManagerProofs`, `OrderHistoryProofs`. Done.
2. `SimulatedExchange`, the abstract `OrderLife` it implements, and the proof of
   that; `RingBuffer`, the abstract `TickFeed` it implements, and the proof of
   that. Done.
3. `ContingentOrderManager`, and `ContingentExchange`, which composes it with the
   exchange; its proofs. Done.
4. `StrategyLifecycle`, and `BacktestEngine`, which composes it, the contingent
   manager and the exchange with the portfolio; its proofs. Done, for the calls
   of the state coordinator that the engine makes.
5. `ServiceRegistry` and its proofs. Done.
6. What is left is listed, with the reasons, under *Not modelled*.

Which module uses which:

    OrderManager <- OrderManagerProofs <- OrderHistoryProofs
    OrderLife <- SimulatedExchange <- SimulatedExchangeProofs <- BacktestEngineProofs
    SimulatedExchange, ContingentOrderManager <- ContingentExchange
    ContingentExchange, SimulatedExchangeProofs <- ContingentExchangeProofs
    SimulatedExchange, ContingentOrderManager, StrategyLifecycle
        <- BacktestEngine <- BacktestEngineProofs
    TickFeed <- RingBuffer <- RingBufferProofs
    ServiceRegistry <- ServiceRegistryProofs

## Modules

### OrderManager

State: the maps `orders`, `venueToClient`, `byInstrument`, `byStrategy` and
`events` of the struct, plus `pc` and `arg` (where each task is in its call and
its locals) and the history variable `inserts`. One action is one lock section.
Where the code keeps a lock while it awaits the next one (the per-symbol check
of `submit_order`, `clear_closed_orders`, `reset`, and three queries), the step
that waits names the locks it holds (`WriteHeld`, `ReadHeld`), and `CanRead` and
`CanWrite` are the guards of a `tokio` `RwLock`. A status change and its event
are two sections, as in the code: the event is stored under another lock after
the orders lock was dropped.

Left out: event callbacks (they run after the state is changed and the manager
ignores what they do), prices, commissions and timestamps, `SyncOrderManager`
(a single-threaded wrapper), and getters that take one lock once. The session check is the set of instruments
whose market is closed: what `SessionManager` would answer.

`MustWait(t)` says that the section a task is at cannot get its lock: one it reads
(`ReadTaken`) or one it writes (`WriteTaken`) is held by another task. A
`Standstill` is a set of waiting tasks that only each other keep waiting.

### SimulatedExchange

State: the clock, the commands in flight, the stored orders, the matching
engines' copies, the locked amounts, the balances, and as history what each order
was told and what its fills cost. The exchange is sequential (`&mut self`), so
what interleaves are the calls of the caller, not their parts: `phase` says which
call is under way when a call works through a list one element per action
(commands that are due, matches, expired orders), and no other call starts before
it has ended. The order in a list that the code takes from a hash map is left
open. `account.rs`'s lock, unlock and fill keep their failure branches, and the
callers ignore these failures, as in the code. `reset` forgets the orders and their
locks and leaves the balances; the history variable `forgotten` is what was locked
at that moment in each account and stays locked.

`OrderLife` is the exchange without latencies, engines and accounts: one order is
new, sent, working or over (`Stage`), asks for a price and a quantity while it is
sent or working (`TermsNow`), and every step is of one order and tells the one event
that belongs to it. `SimulatedExchange` implements it with `told <- history`; an
order is sent while its submission is in flight and works while it is stored.

Left out: fees, the price a market order gets, the bar's open, venue ids and
the wording of rejections. The matching engine has the default configuration: bars,
trades and quotes are all executed, a bar by its range and at its close
(`matching/engine.rs:113-223`). A modification may ask for any price from zero up;
`process_modify` would take a negative price or quantity, too. The trigger types Mark and
Index are the last price, as in the code.

### RingBuffer and TickFeed

One action per access to shared memory. Entries are copied word by word in any
order, because neither side copies them atomically. The positions are atomic,
stored by Release and loaded by Acquire, so interleaving semantics is used for
them. A word is represented by the number of the tick it belongs to. The
consumer process may die inside `try_pop` and be replaced by one that
continues at `read_pos`; a crash after the store loses the entry it returned,
which the model cannot tell from a consumer that ignores it. The producer is one
task (`cli/serve.rs:546`); it makes a new `RingBufferProducer` for each message,
which keeps nothing.

`TickFeed` is what a consumer may rely on: until the buffer was full once, every
tick whole, in order and once; afterwards, positions that only grow, entries
whose words come from that tick or later ticks of the same slot, and never more
ticks skipped than pushes that found the buffer full. `RingBuffer` implements it with
`sent <- writePos`, `next <- taken`, `losses <- full` and `skipped <- taken - got`,
where the history variables `full` and `got` count the pushes that found the buffer
full and the entries returned.

What the model also shows, without a run of its own: after the buffer was full,
the consumer's store can undo the producer's advance, so that one slot is
returned for two positions; and if the consumer empties the buffer between the
producer's check and its advance, the entry that is skipped is the newest one,
not the oldest. The comment at `ring_buffer.rs:60-62` marks the overflow flag
before it advances; the code advances first.

Left out: the 64-bit positions wrapping around, `push_batch` and `pop_batch`
(repetitions), the active flag.

### ContingentOrderManager and ContingentExchange

`ContingentOrderManager` is the manager of order lists by itself: which lists are
registered, which list an order belongs to, and two flags per list (its children
were submitted, its siblings were canceled). Each handler is two operators: what
it answers (`ActionsOnFilled`, `ActionsOnCanceled`: a set of commands) and
what it changes.

`ContingentExchange` runs it with the exchange, in the loop that the example in
`contingent_manager.rs` shows and the backtest engine follows. The events that a
call of the exchange returns are collected in `events` and handled in order when
the call is over; the manager's answer waits in `todo` and is carried out at once,
one command per action in the order of the list (`IsNext`), and each command then travels to the exchange with its
latency. So the window in which a sibling can still fill is in the model.

Left out: partial fills, which the exchange does not make, and with them the
quantity updates of OUO lists; deactivating a list, which nothing does.

### StrategyLifecycle and BacktestEngine

`BacktestEngine` is `run_with_exchange`: `step` says which part of the loop comes
next (commands that are due, the bar, its events, the strategy's orders and
cancels, the end). The exchange's own actions are used unchanged. The portfolio
is `cash`, `lockedCash`, `lockedAmounts` and `position`; `HandleEvent` is
`handle_order_event`. The strategy is free to submit and cancel what it
likes whenever the loop asks it. An engine may run again: the exchange is reset,
the engine forgets its locks and lists, and the portfolio stays as it is. After
the last bar only fills would be handled, and there are none. What a fill costs
is an input: a commission from `Fees`, and for a taker any of `Prices`.
`StrategyLifecycle` is the transition table and the coordinator's calls that the
engine makes, all from the one thread that runs the strategy. The history
variables `stranded`, `held`, `registered`, `overrun` and `refused` say what cash was
locked, which positions there were and which lists were registered when the run began, whether an order cost more than was
locked for it, and which fills the portfolio refused.

A waiting fill event carries its own quantity and what it leaves (`last`, `leaves`), and
`ExecuteBuy` and `ExecuteSell` use these.

Left out: `run_unified` and the immediate execution without an exchange, average
prices, trades, profit and loss, and the report.

### ServiceRegistry

Several processes of `data-manager`, with one action per access to the shared
segment outside the lock and one per section under it. A process finds or creates
the segment (`UseNamed`, `Unlink`, `Create`, `InitMagic`, `InitLock`,
`InitEntries`, `Reopen`), registers (`Lock`, `FindSlot`, `WriteEntry`), heartbeats,
deregisters and leaves, and may die at any step. A segment is known by its
creator, and `name` is the one that the registry's name refers to at the moment:
a creation unlinks whatever has the name. `chan` is the same for the channels of
an instance's symbols, and `Subscribe` is what a client's request for a
symbol does to the server. An entry goes stale only when its process does not
live.

Two things are left open where the source does not decide them: whether the
shared memory library unlinks a segment when its owner drops it (`Leave`), and in which
order processes start. The history variables `raced`, `hasty` and `twins` mark the
cases in which a promise cannot be kept: a segment that lost its name, one that
was opened before its creation was complete (the magic number is written
before the lock is reset and the entries are emptied), and two processes of
one instance at the same time.

Left out: `cleanup_stale`, which nothing calls, `Unsubscribe`, which no client
sends, and the queues of requests and responses. A symbol stands for the symbol and its
exchange, a channel can always be created, magic number and version are written in one
step, and instance ids differ within the 31 bytes that an entry has room for.

## Runs

| Run (cfg) | Module | Result | What it shows |
|---|---|---|---|
| `order_manager` | MCOrderManager | pass | quantities, indexes, histories, venue ids, cancel reports and the finality of closed orders, under every interleaving of two tasks; every call returns unless all come to a standstill, which takes a reset |
| `order_manager_reset_wait` | MCOrderManager | violation | `reset` and a submission or query wait for each other for ever |
| `order_manager_open_limit` | MCOrderManager | violation | two submissions together exceed `max_open_orders` |
| `simulated_exchange` | MCSimulatedExchange | pass | money, locks, copies and histories of orders; `OrderLife` is implemented |
| `simulated_exchange_cancel_overtakes` | MCSimulatedExchange | violation | a cancel that arrives before its order is dropped without an event |
| `simulated_exchange_gtd` | MCSimulatedExchange | violation | an order is filled after its expiry time |
| `ring_buffer` | MCRingBuffer | pass | `TickFeed` is implemented, `read_pos` stays behind between pushes, nothing gets stuck |
| `ring_buffer_torn_entry` | MCRingBuffer | violation | `try_pop` returns words of two ticks |
| `contingent_exchange` | MCContingentExchange | pass | a bracket and an OCO pair work as documented, up to the cancel latency |
| `backtest_engine` | MCBacktestEngine | pass | the portfolio's locks, cash and positions follow the orders, over two runs of the engine |
| `backtest_engine_lists` | MCBacktestEngine | violation | an OCO list registered for a run does not act in it |
| `service_registry` | MCServiceRegistry | pass | slots, count, names and lock of the registry under creation races and deaths |

### Properties

- `QuantitiesConsistent`, `IndexComplete`, `HistoryExact`, `VenueMapped`,
  `CancelReportedOnce`, `ClosedOrdersFinal`: see the comments above
  them in `OrderManager.tla`. `HistoryExact` counts, for every filled unit, the
  fill events that cover it, and the terminal events of an order, both stored and
  still on their way: a double fill, a lost event or a second end would show.
  It and `VenueMapped` speak of orders whose id was inserted once.
- `OnlyResetStandsStill`: if every busy task waits for a lock that another one holds,
  a reset is waiting for an index that another task reads. It is the other half of the
  finding in `order_manager_reset_wait`: that run shows the wait (`CallsReturn` fails),
  this invariant that the lock order admits no other. `CallsReturnOrStandStill`: apart
  from that wait every call returns, so that none is passed over while others go on.
- `BalancesConsistent` (money is conserved), `LocksMatchOrders` (locked funds
  belong to stored orders, except what was locked at the last reset, which keeps the
  accounts on purpose: to the unit, over any number of resets),
  `OneCopyWorking` (engine and store agree), `OneStory` (one answer, one end),
  `KeepsOrderLife` (refinement of `OrderLife`: beyond `OneStory`, the terms an order
  works at change only in the step that reports it, and no step touches two orders).
- `KeepsPromise` (refinement of `TickFeed`), `BetweenPushes` (`fill_level` cannot
  wrap, and the overflow flag tells whether a push found the buffer full), `Drained`.
- Contingent orders: `ChildrenWaitForEntry` and `EntryFillSubmitsChildren` (children
  go out only, and always, after the entry has filled); `NoSiblingLeftWorking`
  (once the end of an order was handled, every sibling that still works has its
  cancel on the way; both can fill before it arrives); `NoEcho`.
  `NoSiblingLeftWorking` needs that a cancel never overtakes a submission
  (`CancelsTrail`); otherwise the cancel is dropped, as the run
  `simulated_exchange_cancel_overtakes` shows.
- Backtest: `LockedCashAccounted`, `LocksFollowOrders` and `LocksCoverFills` (each
  lock is released once, a live buy order has its lock, and the cash covers the
  locks as long as no order costs more). They say what the code leaves locked, too:
  an expired order's funds, and what was locked when the engine is run
  again. `PositionsFollowFills`: each fill moves its position once and by the whole
  quantity, except those whose events still wait and those the portfolio refused; the
  portfolio takes the quantity from the event (`last`), not from the order.
  `ListsActOnFills` is what the documentation says of registered lists, and fails.
- Registry: `OneSlotPerInstance`; `ActiveEntriesCounted` (`active_count` is at least
  the active entries and at most the processes that have the registry open, so that it
  never wraps); `SlotStaysOwn`, `FoundIsServed` (what a client finds is published by
  the process it found); `FoundByName`; `LockIsReleased` (only a process that died
  with the lock keeps it).

What these properties do not show: `HistoryExact` counts the events of an order and
does not look at their order. `LocksMatchOrders` and `LockedCashAccounted` account to the
unit for what a reset or an earlier run left locked (`forgotten`, `stranded`) and
`LocksFollowOrders` for the funds of expired orders: they show that nothing else leaks.
`TickFeed` lets any entry be the one skipped, the newest included. `SlotStaysOwn` and
`FoundIsServed` say nothing once two processes of one instance ran together (`twins`),
nor `FoundByName` of a segment that lost its name to another creation (`raced`). The
hazards behind these exceptions are in `PROJECT.json`, each with the reason why no
property states them: the code has the behaviour, and nothing says that it must not.

### Bounds

- Order manager: two tasks and two orders, since every property is about pairs of
  calls on one order, or of one call and an order it does not touch. Four calls allow a
  submission, its acceptance or a partial fill, and two racing calls; three suffice for
  the waits, which involve two calls and one order. Orders are of two units and fills of
  one or two, so that a fill is partial, full or too large. The second instrument's
  market is closed, so that submissions are also turned away by the session check. The
  theorems hold for any number of each.
- Exchange: three commands reach submit, modify and cancel of one order in any
  order, or two orders that compete for the account's three units; two time steps
  separate a late command from an early one; two prices are a move up or down;
  one reset, at any moment. The modifications ask for a higher price, for less at
  price zero, and for a quantity of zero, which is refused. The stop limit waits for the
  mid price, the trigger type that needs both sides of a quote.
- Ring buffer: three slots and eight ticks are more than two laps, so the
  consumer can fall a lap behind and its store can undo two advances; two words
  are enough to tell a torn entry; one restart of the consumer at any moment.
- Contingent orders: a bracket of three orders and an OCO pair, which is one list of
  each kind the manager treats differently. Five commands are a whole bracket
  and its cancels. Two prices make any of the orders fill, or a stop and a
  limit at once; latency 1 with four points of time puts bars between a command and
  its arrival. No modifications (`Changes = {}`), which the manager never sends.
- Backtest: three orders of four kinds (a limit buy that may expire, one that the
  exchange's account must cover too, a market buy, a market sell); capital 3 is enough
  for two of them; commissions 0 and 1 above a rate of 0 make orders cost more than was
  locked. Three bars let an order be submitted, filled and followed
  by a sale; two runs, because a second one begins with what the first left. For the
  lists, one run and two resting buys, the two sides of an OCO list. The passing run leaves the
  history `registered` out of its view of a state: only the lists' run reads it.
- Registry: two processes that may overlap and share an instance id, and a third
  that runs alone before, between or after them (`Overlap`), because a race needs two
  and a slot needs a third to be taken over. Two slots, so that the registry can be
  full. The counter's size is larger than the number of processes, as 2^32 is.
- `CHECK_DEADLOCK FALSE` where the bound on calls or commands lets everything
  come to rest.

### Fairness

`OrderManager`: weak fairness on `Continue(t)`, since `tokio` polls woken tasks and
its `RwLock` is fair to waiters; nothing obliges a task to start a call.
Calls are bounded by `MaxCalls`, so a lock cannot be taken again and again in
front of a waiter. `RingBuffer`: weak fairness on a push that has begun and on the
consumer, which polls in a loop; none on starting a push, none on restarts.
`ServiceRegistry`: weak fairness on the steps a process makes by itself once it has
begun (opening, registering, deregistering), since it is an ordinary process that the
system schedules; none on starting, heartbeats, shutdown, subscriptions, death or
an entry going stale. Weak fairness suffices for the spin lock because a process
takes it at most twice.

## Findings

1. `OrderManager::reset` locks `orders` first and the indexes after it, while
   `submit_order` and three queries lock an index first: a lock-order inversion
   (`manager.rs:807-817` against `213-214`, `349-351`, `397-398`, `412-413`).
2. `max_open_orders` is checked and used in different lock sections
   (`manager.rs:200`, `313`).
3. A cancel that overtakes its order gets no answer
   (`simulated_exchange.rs:560`, against the comment at `296`).
4. GTD expiry is looked at after matching (`simulated_exchange.rs:380`).
5. An overflowing push overwrites the entry the consumer may be reading
   (`ring_buffer.rs:195`, against the comment at `39` and `46`).
6. `run_with_exchange` clears the contingent manager when it starts (`engine.rs:534`), so
   that lists registered for the run never act, against the comments at `engine.rs:279`,
   `456` and `465`.

Other disagreements of code and documentation that the models show:

- A strategy that warmed up in a backtest stays in Transition, which has no step to
  Terminated (`state/mod.rs:211`); the engine ignores the error (`engine.rs:685`). The
  comment at `coordinator.rs:555` lists Transition among the states that can be left for
  Terminated, and the flag of `coordinator.rs:77` is never set on this path. Theorem
  `LifecycleAlwaysFollows` says so for any number of runs.
- `active_count` is the "Number of active entries" (`registry.rs:305`) only as long as no
  entry is overwritten by its own instance and no process dies; theorem `CountAlways`
  says what it counts. Nothing reads it.
- `ring_buffer.rs:60-66` has the oldest entry dropped and the flag set first; see
  RingBuffer above.

## Proofs

For all values of the constants that satisfy the named assumptions
(`OrderManagerAssumption`, `ExchangeAssumption`, `CapacityAssumption`,
`BoundsAssumption`, `ListsAssumption`, `EngineAssumption`, `RegistryAssumption`); the bounds are
among the constants, so the theorems hold for any number of calls, commands,
ticks, bars, runs, processes and restarts.

- `OrderManagerProofs`: `TypeCorrect`; `QuantitiesAlwaysConsistent`, whose
  invariant adds to the type invariant only what `apply_fill` guarantees in
  its one lock section; `OrdersAlwaysIndexed`, which needs the locks: while a reset
  empties the indexes one by one it holds `orders`, so that no insertion can slip
  in between; the inductive invariant says what is empty at each of its steps.
  `OnlyResetCanStandStill` needs no invariant but the type: apart from a reset, a task
  that holds an index wants `orders`, one that holds `orders` wants `order_events`,
  and nobody holds `order_events` while waiting, so that following who waits for whom
  ends at a task that can go on or at a reset and a reader of an index.
  `SectionsNeedTheirLocks` says that what `MustWait` lists is what the actions'
  guards ask for.
- `OrderHistoryProofs`, on top of these: `HistoryAlwaysExact`, `VenueAlwaysMapped`,
  `CancelAlwaysReportedOnce`, `ClosedAlwaysFinal`. Every lock section is one of
  four shapes: it leaves orders and events alone (`Fades`), changes an order and
  has its event under way (`Emits`), inserts an order, or stores an event. The
  invariant `HistInv` counts (`Tally`) the stored events and the ones still under
  way together: a status change and its event are in different lock sections, so
  neither count is invariant alone. `SentInv`, `ClearInv` and `VenueInv` say which ids
  can have events or a venue id at all.
- `SimulatedExchangeProofs`: `ExchangeTypeCorrect`, `MoneyConserved`,
  `LocksAlwaysMatch`, `OneCopyAlways`, `OneStoryAlways` and `OrderLifeKept`, the
  refinement, follow from one inductive invariant with named parts: what was sent
  is what is stored (`SentInv`), at most one submission of an order is on its way and not after it was stored
  (`PendingInv`), the engine's copies and the matches (`WorkInv`), the locks
  and what they cover (`LockInv`), money (`MoneyInv`), and `OneStory`. They
  need each other: that a charge never fails needs the lock to equal the cost, that
  an order fills once needs the single copy, and the single copy needs that a
  submission arrives once. Sums over orders are cardinalities of sets of units of
  money (`LockedUnits`), so that no induction over the orders is needed. Every step
  is a step of `OrderLife` or leaves it alone; that a fill, a cancel and an expiry
  find the order working, and that a command that arrives is the one that was sent, is
  what the invariant adds.
- `ContingentExchangeProofs`: `ExchangeServesManager`, that the manager uses the exchange
  through its calls only; `ManagerTypeCorrect`, `ChildrenAlwaysWait`,
  `EntryFillAlwaysSubmits`, `SiblingsAlwaysCanceled`, `CancelsNeverEcho`. The
  invariant `CInv` adds to the exchange's: the two maps agree (`ListsInv`); an event
  that waits was reported (`NoteInv`); the children are placed if and only if the
  list's flag is set, which needs the fill of the entry (`ChildInv`); a submission
  arrives before a cancel of its order when the latencies allow nothing else
  (`TravelInv`); and every order of a flagged group is gone or has its cancel on
  the way (`SweepInv`). Why a canceled entry never cancels children that were
  submitted is a consequence of the exchange's `OneStory`: the entry would have ended
  twice.
- `BacktestEngineProofs`: `ExchangeImplemented`, that every step of the engine is a
  step of the exchange or leaves it alone, so that all of the exchange's invariants
  hold in a backtest; on top of it `EngineTypeCorrect`,
  `LockedCashAlwaysAccounted`, `LocksAlwaysFollow`, `LocksAlwaysCover`,
  `PositionsAlwaysFollow`, `NeverContingent` and `LifecycleAlwaysFollows`. The last two
  say what the code does in every run where the documentation says something else
  (*Findings*). That a fill event carries the whole order is not assumed but proved: the
  matches and the waiting events carry what was sent (`AsSent`, `NoteInv`). The invariant `EngineInv` says where in
  the loop which part of the exchange is at rest (`PlaceInv`), that the events not
  yet handled are the last ones of their orders' histories (`NoteInv`), which prices
  are known (`PriceInv`), what is locked for whom (`LocksFollowOrders`, `FundsInv`), and
  which shares were traded for whom (`PositionInv`). Cash and shares
  are again counted as units (`AllUnits`).
- `RingBufferProofs`: `TypeCorrect`, `BetweenPushesAlways`, and
  `KeepsPromiseAlways`, the refinement. The invariant says that a slot always
  holds a tick at least as late as any position that maps to it (`FreshInv`) and,
  until the first overflow, that the producer has kept a whole buffer's
  distance (`ExactInv`), and that `read_pos` has moved no further than the entries
  returned and the pushes that found the buffer full together (`LossInv`); the
  arithmetic behind it is `SlotsApart`: two ticks of one
  slot are at least `Capacity` apart.
- `ServiceRegistryProofs`: `RegistryTypeCorrect`, `OneSlotAlways`, `ActiveAlwaysCounted`,
  `CountAlways` (the exact count, from which the bounds follow),
  `SlotStaysOwnAlways`, `FoundIsServedAlways`, `FoundByNameAlways`. The inductive
  invariant ties the segment a process works on to its place in the protocol
  (`PlacesOK`, `NamesOK`), says that a segment under creation is untouched
  unless it was opened hastily (`QuietOK`), that the lock is held exactly in the
  sections under it (`LockOK`), and that the slot found in one section is
  still the right one in the next (`FoundOK`), which is where the lock is needed.

Only model-checked: the liveness properties `CallsReturnOrStandStill`, `Drained` and
`LockIsReleased` (fairness is beyond the prover), and the violations.

## Not modelled

- **State registry and coordinator**, beyond the calls of the backtest engine:
  transitions from several threads, forced ones and faults, cascades to children,
  waiters and subscribers. Every caller that the repository has makes the
  transitions of a strategy from the one thread that runs it.
- **Control channel** (`transport/ipc/control.rs`): what a request does to the
  server is in `ServiceRegistry`; the queues between the client and the server,
  their timeouts and late answers are not.
- **Execution engine and strategy context**: they call the order manager, and
  their calls are the ones `OrderManager` makes; what they keep themselves is a clock and
  configuration.
- **Session manager, market data service, backfill**: their hazards are listed in
  `PROJECT.json` with the lines; they are independent of the parts modelled here.
- **Paper trading, IPC data source, venue connections, execution adapters,
  data-manager's services**: sequential loops around I/O. The ring buffer's
  consumer and the registry's reader are modelled with those components.
- **Risk, fees, instruments, bars, series, data layer**: decimal arithmetic, tables
  and SQL; data rather than control, and covered by unit tests.
- **User interfaces, example strategies, deployment**: no state of the core.
