------------------------ MODULE BacktestEngineProofs ------------------------
(***************************************************************************)
(* Proofs about BacktestEngine for every value of its constants: the       *)
(* engine drives the exchange only through its calls, so everything proved *)
(* of the exchange holds of it here; and the portfolio's locks follow the  *)
(* orders.                                                                 *)
(***************************************************************************)
EXTENDS BacktestEngine, SimulatedExchangeProofs

(***************************************************************************)
(* The invariant.                                                          *)
(***************************************************************************)

\* Events wait only between the parts of a bar, lists only between runs;
\* orders exist only once there was a run, and a bar under way has a close.
PlaceInv ==
  /\ step \notin {"commands", "bar"} => fillEvents = <<>>
  /\ step # "idle" => orderLists = {}
  /\ step = "bar" => close \in [inst : Instruments, price : Prices]
  /\ runs = 0 => step = "idle" /\ \A id \in Ids : sent[id] = None

\* A fill of the whole order.
Whole(id, last, leaves) == last = sent[id].qty /\ leaves = 0

\* A waiting event was reported, and at most one of an order's is its end; a
\* fill is that of the whole order.
NoteInv ==
  /\ \A i \in DOMAIN fillEvents :
       /\ In(history[fillEvents[i].id], {fillEvents[i].kind})
       /\ fillEvents[i].kind = "Filled" =>
            Whole(fillEvents[i].id, fillEvents[i].last, fillEvents[i].leaves)
  /\ \A i, j \in DOMAIN fillEvents :
       /\ fillEvents[i].id = fillEvents[j].id
       /\ fillEvents[i].kind \in Terminal /\ fillEvents[j].kind \in Terminal
       => i = j

\* The engine modifies no orders, so an order keeps the quantity it was
\* submitted with, and only one that was submitted with a price, or that takes
\* what the market shows, is filled.
Priced(id) == sent[id].type \in {"Market", "Stop"} \/ sent[id].price # None
TypeNow(c) == \/ c.type = sent[c.id].type
              \/ c.type = "Market" /\ sent[c.id].type = "Stop"
              \/ c.type = "Limit" /\ sent[c.id].type = "StopLimit"

\* An order that works has the quantity it was submitted with, all of it left.
AsSent == \A id \in Ids : stored[id] # None =>
            stored[id].qty = sent[id].qty /\ stored[id].cum = 0

PriceInv ==
  /\ \A c \in inflight : c.kind # "modify"
  /\ \A c \in engine : TypeNow(c) /\ c.price = sent[c.id].price
  /\ \A x \in matches : Priced(x.id)
  /\ \A id \in Ids : In(history[id], {"Filled"}) => Priced(id)
  /\ AsSent

-----------------------------------------------------------------------------
(* The engine makes the calls of the exchange, and nothing else touches    *)
(* its state.                                                              *)

LEMMA ExchangeStep ==
  ASSUME [BacktestNext]_bvars
  PROVE  [Next]_vars
<1>1. CASE StartRun BY <1>1 DEF StartRun, Next
<1>2. CASE NextBar BY <1>2 DEF NextBar, Next
<1>3. ASSUME CommandCalls PROVE [Next]_vars
  BY <1>3 DEF CommandCalls, Next
<1>4. CASE BarCommands BY <1>3, <1>4 DEF BarCommands
<1>5. CASE BarMatches BY <1>5 DEF BarMatches, Next
<1>6. ASSUME NEW inst \in Instruments, RunBar(inst)
      PROVE  [Next]_vars
  <2>1. ProcessBar(inst)
    BY <1>6 DEF RunBar, ProcessBar
  <2> QED BY <2>1 DEF Next, Data
<1>7. CASE Submit BY <1>7 DEF Submit, Next, Caller
<1>8. CASE Cancel BY <1>8 DEF Cancel, Next, Caller
<1>9. CASE LastTime BY <1>9 DEF LastTime, Next
<1>10. CASE Flush BY <1>3, <1>10 DEF Flush
<1>11. ASSUME NEW l \in ListIds, Register(l)
       PROVE  UNCHANGED vars
  BY <1>11 DEF Register
<1>12. ASSUME \/ HandleEvent \/ StrategySeesBar \/ EndBar \/ EndRun
              \/ UNCHANGED bvars
       PROVE  UNCHANGED vars
  BY <1>12 DEF HandleEvent, StrategySeesBar, EndBar, EndRun, bvars
<1> QED
  BY <1>1, <1>2, <1>4, <1>5, <1>6, <1>7, <1>8, <1>9, <1>10, <1>11, <1>12
  DEF BacktestNext

\* run_with_exchange drives the exchange through its calls only: every step of
\* the engine is a step of the exchange or leaves it alone, so that what is
\* proved of the exchange holds of it in a backtest.
THEOREM ExchangeImplemented == BacktestSpec => Spec
<1>1. BacktestInit => Init BY DEF BacktestInit
<1>2. [BacktestNext]_bvars => [Next]_vars BY ExchangeStep
<1> QED BY <1>1, <1>2, PTL DEF BacktestSpec, Spec

-----------------------------------------------------------------------------
(* What a call of the exchange does to the orders that can still fill.     *)

Pending(id) == InFlight(id) \/ stored[id] # None

Quiet == /\ history' = history
         /\ \A id \in Ids : Pending(id)' <=> Pending(id)
Tells(id, e) ==
  /\ Report(id, e)
  /\ e \in Terminal => Pending(id) /\ ~Pending(id)'
  /\ e \notin Terminal => (Pending(id)' <=> Pending(id))
  /\ \A i \in Ids \ {id} : Pending(i)' <=> Pending(i)

\* What the engine collects with it.
Noted(id, e, last, leaves) ==
  /\ Tells(id, e)
  /\ last \in Nat /\ leaves \in Nat
  /\ e = "Filled" => Whole(id, last, leaves)

LEMMA StoredNotInFlight ==
  ASSUME IInv, NEW id \in Ids, stored[id] # None
  PROVE  ~InFlight(id)
BY PendingNotStored DEF InFlight

\* A command fills no order.
LEMMA CommandEffects ==
  ASSUME IInv, PriceInv, CommandCalls
  PROVE  sent' = sent /\ (Quiet \/ \E id \in Ids, e \in Events \ {"Filled"} : Tells(id, e))
<1>1. CASE StartCommands \/ EndCommands
  BY <1>1 DEF StartCommands, EndCommands, Quiet, Pending, InFlight, orders
<1>2. ASSUME NEW c \in inflight, ProcessCommand(c)
      PROVE  sent' = sent /\ (Quiet \/ \E id \in Ids, e \in Events \ {"Filled"} : Tells(id, e))
  <2>1. c.kind # "modify" /\ c.id \in Ids /\ stored \in [Ids -> Stored \cup {None}]
    BY CommandFacts DEF PriceInv, IInv, TypeOK
  <2>2. sent' = sent /\ inflight' = inflight \ {c}
    BY <1>2 DEF ProcessCommand, RejectSubmit, AcceptSubmit, CancelWorking,
                CancelUnknown, RejectModify, AcceptModify, Take
  <2>3. \A i \in Ids \ {c.id} : InFlight(i)' <=> InFlight(i)
    BY <2>2 DEF InFlight
  <2>4. c.kind # "submit" => (InFlight(c.id)' <=> InFlight(c.id))
    BY <2>2 DEF InFlight
  <2>5. c.kind = "submit" =>
          InFlight(c.id) /\ ~InFlight(c.id)' /\ stored[c.id] = None
    <3>1. c.kind = "submit" => \A d \in inflight :
            d.kind = "submit" /\ d.id = c.id => d = c
      BY DEF IInv, PendingInv
    <3> QED BY <2>2, <3>1, PendingNotStored DEF InFlight
  <2>6. CASE RejectSubmit(c)
    <3>1. Tells(c.id, "Rejected")
      BY <2>3, <2>5, <2>6 DEF RejectSubmit, Take, Tells, Pending, Terminal
    <3> QED BY <2>1, <2>2, <3>1 DEF Events
  <2>7. CASE AcceptSubmit(c)
    <3>1. stored'[c.id] # None
      <4>1. [price |-> sent[c.id].price, qty |-> sent[c.id].qty, cum |-> 0] \in Stored
        BY CommandFacts DEF Stored, Request, Positive
      <4> QED BY <2>1, <2>7, <4>1, NoneApart DEF AcceptSubmit
    <3>2. Report(c.id, "Accepted") /\ c.kind = "submit"
          /\ \A i \in Ids \ {c.id} : stored'[i] = stored[i]
      BY <2>1, <2>7 DEF AcceptSubmit, Take
    <3>3. Tells(c.id, "Accepted")
      BY <2>3, <2>5, <3>1, <3>2 DEF Tells, Pending, Terminal
    <3> QED BY <2>1, <2>2, <3>3 DEF Events
  <2>8. CASE CancelWorking(c)
    <3>1. ~InFlight(c.id)
      BY <2>1, <2>8, StoredNotInFlight DEF CancelWorking
    <3>2. Report(c.id, "Canceled") /\ c.kind = "cancel" /\ stored[c.id] # None
          /\ stored'[c.id] = None /\ \A i \in Ids \ {c.id} : stored'[i] = stored[i]
      BY <2>1, <2>8 DEF CancelWorking, Take
    <3>3. Tells(c.id, "Canceled")
      BY <2>3, <2>4, <3>1, <3>2 DEF Tells, Pending, Terminal
    <3> QED BY <2>1, <2>2, <3>3 DEF Events
  <2>9. CASE CancelUnknown(c)
    BY <2>1, <2>2, <2>3, <2>4, <2>9 DEF CancelUnknown, Take, Quiet, Pending
  <2> QED
    BY <1>2, <2>1, <2>6, <2>7, <2>8, <2>9
    DEF ProcessCommand, RejectModify, AcceptModify, Take
<1> QED BY <1>1, <1>2 DEF CommandCalls

DataCalls(last, leaves) ==
  \/ \E x \in matches : ProcessMatch(x) /\ last = x.qty /\ leaves = LeftBy(x)
  \/ /\ \/ \E id \in Ids : ExpireOrder(id)
        \/ EndData
     /\ last = 0 /\ leaves = 0

LEMMA DataEffects ==
  ASSUME IInv, PriceInv, NEW last, NEW leaves, DataCalls(last, leaves)
  PROVE  /\ sent' = sent
         /\ Quiet \/ \E id \in Ids, e \in Events : Noted(id, e, last, leaves)
<1>1. ASSUME NEW x \in matches, ProcessMatch(x), last = x.qty, leaves = LeftBy(x)
      PROVE  sent' = sent /\ \E id \in Ids, e \in Events : Noted(id, e, last, leaves)
  <2>1. x.id \in Ids /\ x.qty \in Nat /\ stored \in [Ids -> Stored \cup {None}]
    BY DEF IInv, TypeOK, Stored
  <2>2. stored[x.id] # None
    BY <2>1, StoredFacts DEF MatchesOf
  <2>3. stored[x.id].cum + x.qty >= stored[x.id].qty
    <3>1. x.qty = stored[x.id].qty - stored[x.id].cum
      BY <2>1, <2>2 DEF IInv, WorkInv, OneCopyWorking, MatchesOf
    <3>2. stored[x.id].qty \in Nat /\ stored[x.id].cum \in Nat
      BY <2>1, <2>2 DEF Stored
    <3> QED BY <2>1, <3>1, <3>2
  <2>4. Report(x.id, "Filled") /\ sent' = sent /\ inflight' = inflight
        /\ stored' = [stored EXCEPT ![x.id] = None]
    BY <1>1, <2>2, <2>3 DEF ProcessMatch
  <2>5. ~InFlight(x.id) BY <2>1, <2>2, StoredNotInFlight
  <2>6. Tells(x.id, "Filled")
    BY <2>1, <2>2, <2>4, <2>5 DEF Tells, Pending, InFlight, Terminal
  <2>7. Whole(x.id, last, leaves) /\ last \in Nat
    <3>1. x.qty = stored[x.id].qty - stored[x.id].cum
      BY <2>1, <2>2 DEF IInv, WorkInv, OneCopyWorking, MatchesOf
    <3>2. stored[x.id].qty \in Nat
          /\ stored[x.id].qty = sent[x.id].qty /\ stored[x.id].cum = 0
      BY <2>1, <2>2 DEF Stored, PriceInv, AsSent
    <3>3. LeftBy(x) = 0 BY <2>3 DEF LeftBy
    <3> QED BY <1>1, <2>1, <3>1, <3>2, <3>3 DEF Whole
  <2>8. leaves = 0 BY <2>7 DEF Whole
  <2>9. Noted(x.id, "Filled", last, leaves) BY <2>6, <2>7, <2>8 DEF Noted
  <2> QED BY <2>1, <2>4, <2>9 DEF Events
<1>2. ASSUME NEW id \in Ids, ExpireOrder(id), last = 0, leaves = 0
      PROVE  sent' = sent /\ \E i \in Ids, e \in Events : Noted(i, e, last, leaves)
  <2>1. stored[id] # None /\ stored \in [Ids -> Stored \cup {None}]
    BY <1>2 DEF ExpireOrder, Expired, IInv, TypeOK, Stored
  <2>2. Report(id, "Expired") /\ sent' = sent /\ inflight' = inflight
        /\ stored' = [stored EXCEPT ![id] = None]
    BY <1>2 DEF ExpireOrder
  <2>3. ~InFlight(id) BY <2>1, StoredNotInFlight
  <2>4. Tells(id, "Expired")
    BY <2>1, <2>2, <2>3 DEF Tells, Pending, InFlight, Terminal
  <2>5. Noted(id, "Expired", last, leaves) BY <1>2, <2>4 DEF Noted
  <2> QED BY <2>2, <2>5 DEF Events
<1>3. CASE EndData
  BY <1>3 DEF EndData, Quiet, Pending, InFlight, orders
<1> QED BY <1>1, <1>2, <1>3 DEF DataCalls

Note(id, e, last, leaves) ==
  [id |-> id, kind |-> e, last |-> last, leaves |-> leaves]

\* The engine collects what the exchange has told.
LEMMA Collected ==
  ASSUME IInv, NEW last, NEW leaves, Collect(last, leaves)
  PROVE  /\ history' = history => fillEvents' = fillEvents
         /\ \A id \in Ids : \A e \in Events : Report(id, e) =>
              fillEvents' = Append(fillEvents, Note(id, e, last, leaves))
<1>1. history' = history => News(last, leaves) = {} BY DEF News
<1>2. ASSUME NEW id \in Ids, NEW e \in Events, Report(id, e)
      PROVE  News(last, leaves) = {Note(id, e, last, leaves)}
  <2>1. history \in [Ids -> Seq(Events)] BY DEF IInv, TypeOK
  <2>2. history'[id] = Append(history[id], e)
        /\ \A i \in Ids \ {id} : history'[i] = history[i]
    BY <1>2, <2>1 DEF Report
  <2>3. Len(history'[id]) = Len(history[id]) + 1 /\ Len(history[id]) \in Nat
        /\ history'[id][Len(history[id]) + 1] = e
    BY <2>1, <2>2
  <2>4. {i \in Ids : history'[i] # history[i]} = {id}
    BY <2>2, <2>3
  <2> QED BY <2>3, <2>4 DEF News, Note
<1> QED BY <1>1, <1>2 DEF Collect

-----------------------------------------------------------------------------
(* Waiting events.                                                         *)

Notices == fillEvents \in Seq(Notice)
Ending == {"Filled", "Canceled", "Rejected"}

LEMMA LivePending ==
  ASSUME NEW id
  PROVE  Live(id) <=> Pending(id) \/ Waiting(id, Ending)
BY DEF Live, Pending, Ending

\* What an order that has ended, or has its end waiting, is not.
LEMMA EndedNotPending ==
  ASSUME IInv, NEW id \in Ids, In(history[id], Terminal)
  PROVE  ~Pending(id)
<1>1. stored[id] = None BY StoredFacts
<1>2. ~InFlight(id)
  <2> SUFFICES ASSUME NEW c \in inflight, c.kind = "submit", c.id = id
               PROVE  FALSE
    BY DEF InFlight
  <2>1. \A i \in DOMAIN history[id] : history[id][i] = "ModifyRejected"
    BY DEF IInv, PendingInv
  <2> QED BY <2>1 DEF In, Terminal
<1> QED BY <1>1, <1>2 DEF Pending

LEMMA NewNotice ==
  ASSUME Notices, NEW id \in Ids, NEW e \in Events,
         NEW last \in Nat, NEW leaves \in Nat,
         fillEvents' = Append(fillEvents, Note(id, e, last, leaves))
  PROVE  /\ Notices'
         /\ DOMAIN fillEvents = 1 .. Len(fillEvents) /\ Len(fillEvents) \in Nat
         /\ DOMAIN fillEvents' = 1 .. Len(fillEvents) + 1
         /\ \A i \in DOMAIN fillEvents : fillEvents'[i] = fillEvents[i]
         /\ fillEvents'[Len(fillEvents) + 1] = Note(id, e, last, leaves)
         /\ \A i, K : Waiting(i, K)' <=> Waiting(i, K) \/ (i = id /\ e \in K)
<1>1. Note(id, e, last, leaves) \in Notice
      /\ Note(id, e, last, leaves).id = id /\ Note(id, e, last, leaves).kind = e
  BY DEF Notice, Note
<1>2. /\ Notices'
      /\ DOMAIN fillEvents = 1 .. Len(fillEvents) /\ Len(fillEvents) \in Nat
      /\ DOMAIN fillEvents' = 1 .. Len(fillEvents) + 1
      /\ \A i \in DOMAIN fillEvents : fillEvents'[i] = fillEvents[i]
      /\ fillEvents'[Len(fillEvents) + 1] = Note(id, e, last, leaves)
  BY <1>1 DEF Notices
<1>3. ASSUME NEW i, NEW K
      PROVE  Waiting(i, K)' <=> Waiting(i, K) \/ (i = id /\ e \in K)
  <2>1. \A j : j \in DOMAIN fillEvents' <=>
                 j \in DOMAIN fillEvents \/ j = Len(fillEvents) + 1
    BY <1>2
  <2> QED BY <1>1, <1>2, <2>1 DEF Waiting
<1> QED BY <1>2, <1>3

LEMMA NotesCollected ==
  ASSUME IInv, IInv', NoteInv, Notices, NEW last, NEW leaves,
         Collect(last, leaves), sent' = sent,
         Quiet \/ \E id \in Ids, e \in Events : Noted(id, e, last, leaves)
  PROVE  NoteInv' /\ Notices'
<1>1. CASE Quiet
  BY <1>1, Collected DEF Quiet, NoteInv, Notices, Whole
<1>2. ASSUME NEW id \in Ids, NEW e \in Events, Noted(id, e, last, leaves)
      PROVE  NoteInv' /\ Notices'
  <2>0. /\ Tells(id, e) /\ last \in Nat /\ leaves \in Nat
        /\ e = "Filled" => Whole(id, last, leaves)
    BY <1>2 DEF Noted
  <2>1. fillEvents' = Append(fillEvents, Note(id, e, last, leaves))
    BY <2>0, Collected DEF Tells
  <2>2. /\ Notices'
        /\ DOMAIN fillEvents = 1 .. Len(fillEvents) /\ Len(fillEvents) \in Nat
        /\ DOMAIN fillEvents' = 1 .. Len(fillEvents) + 1
        /\ \A i \in DOMAIN fillEvents : fillEvents'[i] = fillEvents[i]
        /\ fillEvents'[Len(fillEvents) + 1] = Note(id, e, last, leaves)
    BY <2>0, <2>1, NewNotice
  <2>3. /\ history[id] \in Seq(Events) /\ history'[id] = Append(history[id], e)
        /\ \A i \in Ids \ {id} : history'[i] = history[i]
    BY <2>0 DEF IInv, TypeOK, Tells, Report
  <2>4. \A i \in Ids : \A K : In(history[i], K) => In(history'[i], K)
    BY <2>3, AppendedIn
  <2>5. In(history'[id], {e})
    BY <2>3, AppendedIn
  <2>6. \A i \in DOMAIN fillEvents : fillEvents[i] \in Notice
    BY <2>2 DEF Notices
  <2>7. \A i \in DOMAIN fillEvents :
          /\ In(history[fillEvents[i].id], {fillEvents[i].kind})
          /\ fillEvents[i].kind = "Filled" =>
               Whole(fillEvents[i].id, fillEvents[i].last, fillEvents[i].leaves)
    BY DEF NoteInv
  <2>8. ASSUME NEW i \in DOMAIN fillEvents'
        PROVE  /\ In(history'[fillEvents'[i].id], {fillEvents'[i].kind})
               /\ fillEvents'[i].kind = "Filled" =>
                    /\ fillEvents'[i].last = sent'[fillEvents'[i].id].qty
                    /\ fillEvents'[i].leaves = 0
    <3>1. CASE i \in DOMAIN fillEvents
      BY <2>2, <2>4, <2>6, <2>7, <3>1 DEF Notice, Whole
    <3>2. CASE i = Len(fillEvents) + 1
      <4>1. /\ fillEvents'[i].id = id /\ fillEvents'[i].kind = e
            /\ fillEvents'[i].last = last /\ fillEvents'[i].leaves = leaves
        BY <2>2, <3>2 DEF Note
      <4> QED BY <2>0, <2>5, <4>1 DEF Whole
    <3> QED BY <2>2, <3>1, <3>2
  <2>9. ASSUME NEW i \in DOMAIN fillEvents, fillEvents[i].id = id,
               fillEvents[i].kind \in Terminal, e \in Terminal
        PROVE  FALSE
    <3>1. In(history[id], Terminal) BY <2>7, <2>9 DEF In
    <3>2. ~Pending(id) BY <3>1, EndedNotPending
    <3> QED BY <2>0, <2>9, <3>2 DEF Tells
  <2>10. \A i, j \in DOMAIN fillEvents' :
           /\ fillEvents'[i].id = fillEvents'[j].id
           /\ fillEvents'[i].kind \in Terminal /\ fillEvents'[j].kind \in Terminal
           => i = j
    <3> SUFFICES ASSUME NEW i \in DOMAIN fillEvents', NEW j \in DOMAIN fillEvents',
                        fillEvents'[i].id = fillEvents'[j].id,
                        fillEvents'[i].kind \in Terminal,
                        fillEvents'[j].kind \in Terminal
                 PROVE  i = j
      OBVIOUS
    <3>1. CASE i \in DOMAIN fillEvents /\ j \in DOMAIN fillEvents
      BY <2>2, <3>1 DEF NoteInv
    <3>2. CASE i \in DOMAIN fillEvents /\ j = Len(fillEvents) + 1
      BY <2>2, <2>9, <3>2 DEF Note
    <3>3. CASE i = Len(fillEvents) + 1 /\ j \in DOMAIN fillEvents
      BY <2>2, <2>9, <3>3 DEF Note
    <3> QED BY <2>2, <3>1, <3>2, <3>3
  <2> QED BY <2>2, <2>8, <2>10 DEF NoteInv, Whole
<1> QED BY <1>1, <1>2

\* The funds of an order stay locked when an event of it is collected.
LEMMA LocksCollected ==
  ASSUME IInv, Notices, LocksFollowOrders, NEW last, NEW leaves,
         Collect(last, leaves), sent' = sent,
         Quiet \/ \E id \in Ids, e \in Events : Noted(id, e, last, leaves),
         lockedAmounts' = lockedAmounts, step' = step
  PROVE  LocksFollowOrders'
<1>1. \A i \in Ids : BuyOrder(i)' <=> BuyOrder(i) BY DEF BuyOrder
<1>2. ASSUME NEW i \in Ids
      PROVE  /\ Live(i)' => Live(i)
             /\ Live(i) => Live(i)' \/ Has(i, {"Expired"})'
             /\ Has(i, {"Expired"}) => Has(i, {"Expired"})'
  <2>0. Live(i)' <=> Pending(i)' \/ Waiting(i, Ending)'
    BY DEF Live, Pending, Ending
  <2>1. CASE Quiet
    <3>1. fillEvents' = fillEvents /\ history' = history
      BY <2>1, Collected DEF Quiet
    <3> QED BY <2>0, <2>1, <3>1, LivePending DEF Quiet, Waiting, Has
  <2>2. ASSUME NEW id \in Ids, NEW e \in Events, Tells(id, e),
               last \in Nat, leaves \in Nat
        PROVE  /\ Live(i)' => Live(i)
               /\ Live(i) => Live(i)' \/ Has(i, {"Expired"})'
               /\ Has(i, {"Expired"}) => Has(i, {"Expired"})'
    <3>1. fillEvents' = Append(fillEvents, Note(id, e, last, leaves))
      BY <2>2, Collected DEF Tells
    <3>2. Waiting(i, Ending)' <=> Waiting(i, Ending) \/ (i = id /\ e \in Ending)
      BY <2>2, <3>1, NewNotice
    <3>3. /\ history[id] \in Seq(Events) /\ history'[id] = Append(history[id], e)
          /\ \A j \in Ids \ {id} : history'[j] = history[j]
      BY <2>2 DEF IInv, TypeOK, Tells, Report
    <3>4. /\ In(history[i], {"Expired"}) => In(history'[i], {"Expired"})
          /\ i = id /\ e = "Expired" => In(history'[i], {"Expired"})
      BY <3>3, AppendedIn
    <3>5. Has(i, {"Expired"}) <=> In(history[i], {"Expired"}) BY DEF Has, In
    <3>6. Has(i, {"Expired"})' <=> In(history'[i], {"Expired"}) BY DEF Has, In
    <3>7. Terminal = Ending \cup {"Expired"} BY DEF Terminal, Ending
    <3> QED BY <2>0, <2>2, <3>2, <3>4, <3>5, <3>6, <3>7, LivePending DEF Tells
  <2> QED BY <2>1, <2>2 DEF Noted
<1> QED BY <1>1, <1>2 DEF LocksFollowOrders

\* A waiting event is handled: what it says of its order.
LEMMA HandledNotice ==
  ASSUME IInv, NoteInv, Notices, fillEvents # <<>>,
         fillEvents' = Tail(fillEvents), NEW e, e = Head(fillEvents)
  PROVE  /\ Notices' /\ e \in Notice /\ In(history[e.id], {e.kind})
         /\ sent[e.id] # None
         /\ e.kind = "Filled" => Whole(e.id, e.last, e.leaves)
         /\ e.kind \in Terminal => ~Pending(e.id) /\ ~Waiting(e.id, Ending)'
         /\ e.kind \notin Ending =>
              (Waiting(e.id, Ending)' <=> Waiting(e.id, Ending))
         /\ \A i : i # e.id => (Waiting(i, Ending)' <=> Waiting(i, Ending))
         /\ \A i, K : Waiting(i, K) <=> Waiting(i, K)' \/ (i = e.id /\ e.kind \in K)
<1> DEFINE n == Len(fillEvents)
<1>1. /\ n \in Nat /\ n > 0 /\ DOMAIN fillEvents = 1 .. n /\ e = fillEvents[1]
      /\ DOMAIN fillEvents' = 1 .. n - 1 /\ Notices'
      /\ \A i \in 1 .. n - 1 : fillEvents'[i] = fillEvents[i + 1]
      /\ e \in Notice
  BY DEF Notices
<1>2. /\ In(history[e.id], {e.kind})
      /\ e.kind = "Filled" => Whole(e.id, e.last, e.leaves)
  <2>1. 1 \in DOMAIN fillEvents BY <1>1
  <2>2. /\ In(history[fillEvents[1].id], {fillEvents[1].kind})
        /\ fillEvents[1].kind = "Filled" =>
             Whole(fillEvents[1].id, fillEvents[1].last, fillEvents[1].leaves)
    BY <2>1 DEF NoteInv
  <2> QED BY <1>1, <2>2
<1>3. e.id \in Ids BY <1>1 DEF Notice
<1>4. sent[e.id] # None
  <2>1. history[e.id] # <<>> BY <1>2 DEF In
  <2> QED BY <1>3, <2>1 DEF IInv, SentInv
<1>5. ASSUME NEW i, NEW K
      PROVE  Waiting(i, K) <=> Waiting(i, K)' \/ (i = e.id /\ e.kind \in K)
  <2>1. \A j \in 1 .. n : j = 1 \/ (j - 1 \in 1 .. n - 1 /\ j = (j - 1) + 1)
    BY <1>1
  <2>2. \A j \in 1 .. n - 1 : j + 1 \in 1 .. n
    BY <1>1
  <2>3. Waiting(i, K)' => Waiting(i, K)
    BY <1>1, <2>2 DEF Waiting
  <2>4. i = e.id /\ e.kind \in K => Waiting(i, K)
    BY <1>1 DEF Waiting
  <2>5. Waiting(i, K) => Waiting(i, K)' \/ (i = e.id /\ e.kind \in K)
    <3> SUFFICES ASSUME NEW j \in 1 .. n, fillEvents[j].id = i,
                        fillEvents[j].kind \in K, j # 1
                 PROVE  Waiting(i, K)'
      BY <1>1 DEF Waiting
    <3>1. j - 1 \in 1 .. n - 1 /\ fillEvents'[j - 1] = fillEvents[j]
      BY <1>1, <2>1
    <3> QED BY <1>1, <3>1 DEF Waiting
  <2> QED BY <2>3, <2>4, <2>5
<1>6. ASSUME e.kind \in Terminal
      PROVE  ~Pending(e.id) /\ ~Waiting(e.id, Ending)'
  <2>1. ~Pending(e.id) BY <1>2, <1>3, <1>6, EndedNotPending DEF In
  <2>2. ~Waiting(e.id, Ending)'
    <3> SUFFICES ASSUME NEW j \in 1 .. n - 1, fillEvents'[j].id = e.id,
                        fillEvents'[j].kind \in Ending
                 PROVE  FALSE
      BY <1>1 DEF Waiting
    <3>1. j + 1 \in 1 .. n /\ j + 1 # 1 /\ fillEvents[j + 1] = fillEvents'[j]
      BY <1>1
    <3>2. fillEvents[j + 1].kind \in Terminal /\ fillEvents[1].kind \in Terminal
      BY <1>1, <1>6, <3>1 DEF Ending, Terminal
    <3> QED BY <1>1, <3>1, <3>2 DEF NoteInv
  <2> QED BY <2>1, <2>2
<1> QED BY <1>1, <1>2, <1>4, <1>5, <1>6

-----------------------------------------------------------------------------
(* The funds locked for the orders of a run.                               *)

AmountOf(v) == IF v = None THEN 0 ELSE v
MaybeNat == Nat \cup {None}

LEMMA UnitsOfSize ==
  ASSUME NEW id, NEW v \in MaybeNat
  PROVE  /\ IsFiniteSet(UnitsOf(id, v)) /\ AmountOf(v) \in Nat
         /\ Cardinality(UnitsOf(id, v)) = AmountOf(v)
<1>1. CASE v = None
  BY <1>1, FS_EmptySet DEF UnitsOf, AmountOf
<1>2. CASE v # None
  <2>1. v \in Nat BY <1>2 DEF MaybeNat
  <2>2. IsFiniteSet(1 .. v) /\ Cardinality(1 .. v) = v
    <3>1. IsFiniteSet(1 .. v)
          /\ Cardinality(1 .. v) = IF 1 > v THEN 0 ELSE v - 1 + 1
      <4>1. 1 \in Int /\ v \in Int BY <2>1
      <4> QED BY <4>1, FS_Interval
    <3> QED BY <2>1, <3>1
  <2>3. IsFiniteSet({id}) /\ Cardinality({id}) = 1 BY FS_Singleton
  <2>4. /\ IsFiniteSet({id} \X (1 .. v))
        /\ Cardinality({id} \X (1 .. v)) = 1 * v
    BY <2>2, <2>3, FS_Product
  <2> QED BY <1>2, <2>1, <2>4 DEF UnitsOf, AmountOf
<1> QED BY <1>1, <1>2

\* The amounts l with the entry of id replaced by v.
LEMMA AmountChange ==
  ASSUME NEW l \in [Ids -> MaybeNat], NEW id \in Ids, NEW v \in MaybeNat,
         IsFiniteSet(AllUnits(l)), NEW k, k = [l EXCEPT ![id] = v]
  PROVE  /\ IsFiniteSet(AllUnits(k))
         /\ Cardinality(AllUnits(k)) + AmountOf(l[id])
              = Cardinality(AllUnits(l)) + AmountOf(v)
         /\ AmountOf(l[id]) <= Cardinality(AllUnits(l))
         /\ Cardinality(AllUnits(l)) \in Nat
         /\ Cardinality(AllUnits(k)) \in Nat
<1> DEFINE Rest == UNION {UnitsOf(i, l[i]) : i \in Ids \ {id}}
<1>1. AllUnits(l) = Rest \cup UnitsOf(id, l[id])
  BY DEF AllUnits
<1>2. AllUnits(k) = Rest \cup UnitsOf(id, v)
  <2>1. k[id] = v /\ \A i \in Ids \ {id} : k[i] = l[i]
    OBVIOUS
  <2>2. ASSUME NEW u
        PROVE  (\E i \in Ids : u \in UnitsOf(i, k[i]))
                 <=> (u \in UnitsOf(id, v)
                        \/ \E i \in Ids \ {id} : u \in UnitsOf(i, l[i]))
    BY <2>1
  <2> QED BY <2>2 DEF AllUnits
<1>3. Rest \cap UnitsOf(id, l[id]) = {} /\ Rest \cap UnitsOf(id, v) = {}
  <2>1. \A i, e, u : u \in UnitsOf(i, e) => u[1] = i
    BY DEF UnitsOf
  <2> QED BY <2>1
<1>4. IsFiniteSet(Rest)
  BY <1>1, FS_Subset
<1>5. /\ IsFiniteSet(UnitsOf(id, l[id])) /\ AmountOf(l[id]) \in Nat
      /\ Cardinality(UnitsOf(id, l[id])) = AmountOf(l[id])
      /\ IsFiniteSet(UnitsOf(id, v)) /\ AmountOf(v) \in Nat
      /\ Cardinality(UnitsOf(id, v)) = AmountOf(v)
  <2>1. l[id] \in MaybeNat OBVIOUS
  <2> QED BY <2>1, UnitsOfSize
<1>6. /\ IsFiniteSet(Rest \cup UnitsOf(id, v))
      /\ Cardinality(Rest \cup UnitsOf(id, v)) =
           Cardinality(Rest) + Cardinality(UnitsOf(id, v)) - Cardinality({})
      /\ Cardinality(Rest \cup UnitsOf(id, l[id])) =
           Cardinality(Rest) + Cardinality(UnitsOf(id, l[id])) - Cardinality({})
  BY <1>3, <1>4, <1>5, FS_Union
<1>7. Cardinality({}) = 0 /\ Cardinality(Rest) \in Nat
  BY <1>4, FS_EmptySet, FS_CardinalityType
<1> HIDE DEF Rest
<1>8. IsFiniteSet(AllUnits(k))
      /\ Cardinality(AllUnits(k)) = Cardinality(Rest) + AmountOf(v)
  <2> DEFINE R == Rest \cup UnitsOf(id, v)
  <2>1. IsFiniteSet(R) /\ Cardinality(R) = Cardinality(Rest) + AmountOf(v)
    BY <1>5, <1>6, <1>7
  <2> HIDE DEF R
  <2>2. AllUnits(k) = R BY <1>2 DEF R
  <2> QED BY <2>1, <2>2
<1>9. Cardinality(AllUnits(l)) = Cardinality(Rest) + AmountOf(l[id])
  BY <1>1, <1>5, <1>6, <1>7
<1> QED BY <1>5, <1>7, <1>8, <1>9

FundsType ==
  /\ cash \in Int /\ lockedCash \in Nat /\ stranded \in Nat
  /\ position \in [Instruments -> Nat]
  /\ lockedAmounts \in [Ids -> MaybeNat]
  /\ overrun \in BOOLEAN /\ refused \subseteq Ids

\* The units can be counted, and a refused order was sent.
FundsInv ==
  /\ FundsType
  /\ IsFiniteSet(AllUnits(lockedAmounts)) /\ LockedCashAccounted
  /\ LocksCoverFills /\ \A id \in refused : sent[id] # None

\* The entry of id becomes v, and the locked cash follows.
LEMMA LockedChange ==
  ASSUME FundsInv, NEW id \in Ids, NEW v \in MaybeNat,
         lockedAmounts' = [lockedAmounts EXCEPT ![id] = v],
         lockedCash' = lockedCash - LockOf(id) + AmountOf(v),
         stranded' = stranded
  PROVE  /\ lockedAmounts' \in [Ids -> MaybeNat] /\ lockedCash' \in Nat
         /\ IsFiniteSet(AllUnits(lockedAmounts))' /\ LockedCashAccounted'
<1>1. lockedAmounts \in [Ids -> MaybeNat] /\ IsFiniteSet(AllUnits(lockedAmounts))
  BY DEF FundsInv, FundsType
<1> DEFINE k == [lockedAmounts EXCEPT ![id] = v]
<1>2. /\ IsFiniteSet(AllUnits(k))
      /\ Cardinality(AllUnits(k)) + AmountOf(lockedAmounts[id])
           = Cardinality(AllUnits(lockedAmounts)) + AmountOf(v)
      /\ AmountOf(lockedAmounts[id]) <= Cardinality(AllUnits(lockedAmounts))
      /\ Cardinality(AllUnits(lockedAmounts)) \in Nat
      /\ Cardinality(AllUnits(k)) \in Nat
  BY <1>1, AmountChange
<1>3. AmountOf(lockedAmounts[id]) = LockOf(id) BY DEF AmountOf, LockOf
<1>4. lockedAmounts[id] \in MaybeNat BY <1>1
<1>5. AmountOf(lockedAmounts[id]) \in Nat /\ AmountOf(v) \in Nat
  BY <1>4, UnitsOfSize
<1>6. lockedCash = stranded + Cardinality(AllUnits(lockedAmounts))
      /\ stranded \in Nat /\ lockedCash \in Nat
  BY DEF FundsInv, FundsType, LockedCashAccounted
<1>7. lockedAmounts' = k /\ k \in [Ids -> MaybeNat] BY <1>1
<1> HIDE DEF k
<1>8. lockedCash' = stranded + Cardinality(AllUnits(k))
      /\ lockedCash' \in Nat
  BY <1>2, <1>3, <1>5, <1>6
<1> QED BY <1>2, <1>7, <1>8 DEF LockedCashAccounted, AllUnits

LEMMA LockBounds ==
  ASSUME FundsInv, NEW id \in Ids
  PROVE  /\ LockOf(id) \in Nat /\ LockOf(id) <= lockedCash
         /\ Released(LockOf(id)) = lockedCash - LockOf(id) + AmountOf(None)
<1>1. lockedAmounts \in [Ids -> MaybeNat] /\ IsFiniteSet(AllUnits(lockedAmounts))
  BY DEF FundsInv, FundsType
<1>2. lockedAmounts[id] \in MaybeNat BY <1>1
<1>3. None \in MaybeNat BY DEF MaybeNat
<1>4. /\ AmountOf(lockedAmounts[id]) <= Cardinality(AllUnits(lockedAmounts))
      /\ Cardinality(AllUnits(lockedAmounts)) \in Nat
  BY <1>1, <1>3, AmountChange
<1>5. AmountOf(lockedAmounts[id]) \in Nat BY <1>2, UnitsOfSize
<1>6. AmountOf(lockedAmounts[id]) = LockOf(id) /\ AmountOf(None) = 0
  BY DEF AmountOf, LockOf
<1>7. lockedCash = stranded + Cardinality(AllUnits(lockedAmounts))
      /\ stranded \in Nat /\ lockedCash \in Nat
  BY DEF FundsInv, FundsType, LockedCashAccounted
<1> QED BY <1>4, <1>5, <1>6, <1>7 DEF Released

\* A buy order is filled. What it locked is enough unless overrun says so.
LEMMA BuyStep ==
  ASSUME FundsInv, NEW e \in Notice, e.leaves = 0, sent[e.id] \in Request,
         sent[e.id] # None, NEW price \in Nat, NEW fee \in Nat,
         ExecuteBuy(e, price, fee), sent' = sent, stranded' = stranded
  PROVE  FundsInv'
<1> DEFINE id == e.id
           q == e.last
           inst == sent[id].inst
           total == price * q + fee
<1>1. q \in Nat /\ inst \in Instruments /\ id \in Ids BY DEF Notice, Request
<1>2. total \in Nat
  <2>1. \A m, n \in Nat : m * n \in Nat OBVIOUS
  <2> QED BY <1>1, <2>1
<1>3. /\ lockedCash' = lockedCash - LockOf(id) + AmountOf(None)
      /\ lockedAmounts' = [lockedAmounts EXCEPT ![id] = None]
  BY <1>1, LockBounds DEF ExecuteBuy
<1>4. None \in MaybeNat /\ AmountOf(None) = 0 BY DEF MaybeNat, AmountOf
<1>5. /\ lockedAmounts' \in [Ids -> MaybeNat] /\ lockedCash' \in Nat
      /\ IsFiniteSet(AllUnits(lockedAmounts))' /\ LockedCashAccounted'
  BY <1>1, <1>3, <1>4, LockedChange
<1>6. overrun' \in BOOLEAN
  <2>1. overrun' = (overrun \/ total > LockOf(id)) BY DEF ExecuteBuy
  <2> QED BY <2>1, Zenon
<1>7. ~overrun' => ~overrun /\ ~(total > LockOf(id)) BY DEF ExecuteBuy
<1>8. LockOf(id) \in Nat /\ LockOf(id) <= lockedCash BY <1>1, LockBounds
<1>9. cash \in Int /\ lockedCash \in Nat /\ position \in [Instruments -> Nat]
      /\ refused \subseteq Ids
  BY DEF FundsInv, FundsType
<1>10. CASE total > cash
  <2>1. cash' = cash /\ position' = position /\ refused' = refused \cup {id}
    BY <1>10 DEF ExecuteBuy
  <2>2. overrun'
    BY <1>2, <1>7, <1>8, <1>9, <1>10 DEF FundsInv, LocksCoverFills
  <2>3. \A i \in refused' : sent'[i] # None
    BY <2>1 DEF FundsInv
  <2> QED
    BY <1>1, <1>5, <1>6, <1>9, <2>1, <2>2, <2>3
    DEF FundsInv, FundsType, LocksCoverFills
<1>11. CASE ~(total > cash)
  <2>1. /\ cash' = cash - total /\ refused' = refused
        /\ position' = [position EXCEPT ![inst] = @ + q]
    BY <1>11 DEF ExecuteBuy
  <2>2. cash' \in Int BY <1>2, <1>9, <2>1
  <2>3. position' \in [Instruments -> Nat]
    <3>1. position[inst] + q \in Nat BY <1>1, <1>9
    <3> QED BY <1>9, <2>1, <3>1
  <2>4. ~overrun' => lockedCash' <= cash'
    <3> SUFFICES ASSUME ~overrun' PROVE lockedCash' <= cash'
      OBVIOUS
    <3>1. lockedCash <= cash BY <1>7 DEF FundsInv, LocksCoverFills
    <3> HIDE DEF total
    <3> QED BY <1>2, <1>3, <1>4, <1>7, <1>8, <1>9, <2>1, <3>1
  <2>5. ~overrun' => \A i \in refused' : ~BuyOrder(i)'
    BY <1>7, <2>1 DEF FundsInv, LocksCoverFills, BuyOrder
  <2> QED
    BY <1>5, <1>6, <1>9, <2>1, <2>2, <2>3, <2>4, <2>5
    DEF FundsInv, FundsType, LocksCoverFills
<1> QED BY <1>10, <1>11

LEMMA SellStep ==
  ASSUME FundsInv, NEW e \in Notice, sent[e.id] \in Request, sent[e.id] # None,
         ~BuyOrder(e.id), NEW price \in Nat, NEW fee \in Nat,
         ExecuteSell(e, price, fee), sent' = sent, stranded' = stranded
  PROVE  FundsInv'
<1> DEFINE id == e.id
           q == e.last
           inst == sent[id].inst
           gain == price * q
<1>1. q \in Nat /\ inst \in Instruments /\ id \in Ids BY DEF Notice, Request
<1>2. gain \in Nat
  <2>1. \A m, n \in Nat : m * n \in Nat OBVIOUS
  <2> QED BY <1>1, <2>1
<1>3. cash \in Int /\ lockedCash \in Nat /\ position \in [Instruments -> Nat]
      /\ refused \subseteq Ids
  BY DEF FundsInv, FundsType
<1>4. lockedCash' = lockedCash /\ lockedAmounts' = lockedAmounts
  BY DEF ExecuteSell
<1>5. CASE q > position[inst]
  <2>1. cash' = cash /\ position' = position /\ overrun' = overrun
        /\ refused' = refused \cup {id}
    BY <1>5 DEF ExecuteSell
  <2>2. \A i : BuyOrder(i)' <=> BuyOrder(i) BY DEF BuyOrder
  <2> QED
    BY <1>1, <1>3, <1>4, <2>1, <2>2
    DEF FundsInv, FundsType, LockedCashAccounted, LocksCoverFills, AllUnits
<1>6. CASE ~(q > position[inst])
  <2>1. /\ cash' = cash + gain - fee /\ refused' = refused
        /\ position' = [position EXCEPT ![inst] = @ - q]
        /\ overrun' = (overrun \/ fee > gain)
    BY <1>6 DEF ExecuteSell
  <2> HIDE DEF gain
  <2>2. cash' \in Int BY <1>2, <1>3, <2>1
  <2>3. position' \in [Instruments -> Nat]
    <3>1. position[inst] - q \in Nat BY <1>1, <1>3, <1>6
    <3> QED BY <1>3, <2>1, <3>1
  <2>4. overrun' \in BOOLEAN BY <2>1, Zenon
  <2>5. ~overrun' => ~overrun /\ ~(fee > gain) BY <2>1
  <2>6. ~overrun' => lockedCash' <= cash'
    <3> SUFFICES ASSUME ~overrun' PROVE lockedCash' <= cash'
      OBVIOUS
    <3>1. lockedCash <= cash BY <2>5 DEF FundsInv, LocksCoverFills
    <3> QED BY <1>2, <1>3, <1>4, <2>1, <2>5, <3>1
  <2>7. ~overrun' => \A i \in refused' : ~BuyOrder(i)'
    BY <2>1, <2>5 DEF FundsInv, LocksCoverFills, BuyOrder
  <2> QED
    BY <1>3, <1>4, <2>1, <2>2, <2>3, <2>4, <2>6, <2>7
    DEF FundsInv, FundsType, LockedCashAccounted, LocksCoverFills, AllUnits
<1> QED BY <1>5, <1>6

LEMMA UnlockStep ==
  ASSUME FundsInv, NEW id \in Ids, UnlockEvent(id), sent' = sent,
         stranded' = stranded
  PROVE  FundsInv'
<1>1. /\ lockedCash' = lockedCash - LockOf(id) + AmountOf(None)
      /\ lockedAmounts' = [lockedAmounts EXCEPT ![id] = None]
  BY LockBounds DEF UnlockEvent
<1>2. None \in MaybeNat /\ AmountOf(None) = 0 BY DEF MaybeNat, AmountOf
<1>3. /\ lockedAmounts' \in [Ids -> MaybeNat] /\ lockedCash' \in Nat
      /\ IsFiniteSet(AllUnits(lockedAmounts))' /\ LockedCashAccounted'
  BY <1>1, <1>2, LockedChange
<1>4. UNCHANGED <<cash, position, overrun, refused>> BY DEF UnlockEvent
<1>5. LockOf(id) \in Nat /\ lockedCash \in Nat /\ cash \in Int
  BY LockBounds DEF FundsInv, FundsType
<1>6. lockedCash <= cash => lockedCash' <= cash' BY <1>1, <1>2, <1>4, <1>5
<1> QED
  BY <1>3, <1>4, <1>6 DEF FundsInv, FundsType, LocksCoverFills, BuyOrder

LEMMA EstimateType ==
  ASSUME NEW r \in Request, currentPrice \in [Instruments -> Prices \cup {None}]
  PROVE  Estimate(r) \in Nat
<1> DEFINE p == Or(r.price, currentPrice[r.inst])
           c == Cost(p, r.qty)
<1>1. p \in Nat \cup {None} /\ r.qty \in Nat
  BY ExchangeAssumption DEF Or, Request, Positive
<1>2. c \in Nat BY <1>1, CostType
<1>3. \A m, n \in Nat : m + m * n \in Nat OBVIOUS
<1>4. Rate \in Nat BY EngineAssumption
<1>5. c + c * Rate \in Nat BY <1>2, <1>3, <1>4
<1> QED BY <1>5 DEF Estimate

\* Funds are locked for a new order.
LEMMA FundsLocked ==
  ASSUME FundsInv, NEW id \in Ids, sent[id] = None, lockedAmounts[id] = None,
         NEW r \in Request, sent' = [sent EXCEPT ![id] = r],
         sent \in [Ids -> Requests \cup {None}],
         currentPrice \in [Instruments -> Prices \cup {None}],
         LockFunds(id, r), stranded' = stranded
  PROVE  FundsInv'
<1>0. \A i \in Ids \ {id} : sent'[i] = sent[i] OBVIOUS
<1>1. \A i \in refused : i # id /\ sent'[i] = sent[i]
  BY <1>0 DEF FundsInv, FundsType
<1>2. \A i \in refused : BuyOrder(i)' <=> BuyOrder(i)
  BY <1>1 DEF BuyOrder
<1>3. CASE r.side = "Sell"
  BY <1>1, <1>2, <1>3
  DEF LockFunds, funds, FundsInv, FundsType, LockedCashAccounted,
      LocksCoverFills, AllUnits
<1>4. CASE r.side # "Sell"
  <2>1. Estimate(r) \in Nat BY EstimateType
  <2>2. /\ Estimate(r) <= cash - lockedCash
        /\ lockedCash' = lockedCash + Estimate(r)
        /\ lockedAmounts' = [lockedAmounts EXCEPT ![id] = Estimate(r)]
        /\ UNCHANGED <<cash, position, overrun, refused>>
    BY <1>4 DEF LockFunds, AvailableCash
  <2>3. LockOf(id) = 0 /\ Estimate(r) \in MaybeNat /\ AmountOf(Estimate(r)) = Estimate(r)
    BY <2>1, NoneApart DEF LockOf, MaybeNat, AmountOf
  <2>4. lockedCash \in Nat /\ cash \in Int BY DEF FundsInv, FundsType
  <2>5. lockedCash' = lockedCash - LockOf(id) + AmountOf(Estimate(r))
    BY <2>1, <2>2, <2>3, <2>4
  <2>6. /\ lockedAmounts' \in [Ids -> MaybeNat] /\ lockedCash' \in Nat
        /\ IsFiniteSet(AllUnits(lockedAmounts))' /\ LockedCashAccounted'
    BY <2>2, <2>3, <2>5, LockedChange
  <2>7. lockedCash' <= cash' BY <2>1, <2>2, <2>4
  <2> QED
    BY <1>1, <1>2, <2>2, <2>6, <2>7 DEF FundsInv, FundsType, LocksCoverFills
<1> QED BY <1>3, <1>4

LEMMA FundsFrame ==
  ASSUME FundsInv, UNCHANGED <<funds, stranded, sent>>
  PROVE  FundsInv'
BY DEF FundsInv, FundsType, LockedCashAccounted, LocksCoverFills, AllUnits,
       BuyOrder, funds

-----------------------------------------------------------------------------
(* Prices.                                                                 *)

LEMMA PriceFrame ==
  ASSUME PriceInv, UNCHANGED <<inflight, engine, matches, sent, stored, history>>
  PROVE  PriceInv'
BY DEF PriceInv, TypeNow, Priced, AsSent

LEMMA CopySent ==
  ASSUME IInv, NEW c \in engine
  PROVE  c.id \in Ids /\ stored[c.id] # None /\ sent[c.id] # None
<1>1. c.id \in Ids BY DEF IInv, TypeOK
<1>2. stored[c.id] # None BY <1>1, StoredFacts DEF CopiesOf
<1> QED BY <1>1, <1>2 DEF IInv, SentInv

\* An event that is no fill leaves the prices of the filled orders alone.
LEMMA PriceReport ==
  ASSUME IInv, PriceInv, sent' = sent, NEW id \in Ids, NEW e \in Events,
         Report(id, e), e = "Filled" => Priced(id)
  PROVE  \A i \in Ids : In(history'[i], {"Filled"}) => Priced(i)'
<1>1. /\ history[id] \in Seq(Events) /\ history'[id] = Append(history[id], e)
      /\ \A i \in Ids \ {id} : history'[i] = history[i]
  BY DEF IInv, TypeOK, Report
<1>2. In(history'[id], {"Filled"}) => In(history[id], {"Filled"}) \/ e = "Filled"
  BY <1>1, AppendedIn
<1> QED BY <1>1, <1>2 DEF PriceInv, Priced

\* An order goes.
LEMMA StoredGone ==
  ASSUME IInv, AsSent, sent' = sent, NEW id \in Ids,
         stored' = [stored EXCEPT ![id] = None]
  PROVE  AsSent'
<1>1. stored \in [Ids -> Stored \cup {None}] BY DEF IInv, TypeOK
<1>2. stored'[id] = None /\ \A i \in Ids \ {id} : stored'[i] = stored[i]
  BY <1>1
<1> QED BY <1>2 DEF AsSent

LEMMA PriceCommands ==
  ASSUME IInv, PriceInv, CommandCalls
  PROVE  PriceInv'
<1>1. CASE StartCommands \/ EndCommands
  BY <1>1, PriceFrame DEF StartCommands, EndCommands, orders
<1>2. ASSUME NEW c \in inflight, ProcessCommand(c)
      PROVE  PriceInv'
  <2>1. c.kind # "modify" /\ c.id \in Ids /\ sent[c.id] \in Request
    BY CommandFacts DEF PriceInv
  <2>2. /\ sent' = sent /\ matches' = matches /\ inflight' = inflight \ {c}
    BY <1>2 DEF ProcessCommand, RejectSubmit, AcceptSubmit, CancelWorking,
                CancelUnknown, RejectModify, AcceptModify, Take
  <2>3. (\A d \in inflight' : d.kind # "modify") /\ \A x \in matches' : Priced(x.id)'
    BY <2>2 DEF PriceInv, Priced
  <2>4. CASE RejectSubmit(c)
    <3>1. Report(c.id, "Rejected") /\ engine' = engine /\ stored' = stored
      BY <2>4 DEF RejectSubmit
    <3>2. \A i \in Ids : In(history'[i], {"Filled"}) => Priced(i)'
      BY <2>1, <2>2, <3>1, PriceReport DEF Events
    <3> QED BY <2>2, <2>3, <3>1, <3>2 DEF PriceInv, TypeNow, AsSent
  <2>5. CASE AcceptSubmit(c)
    <3>1. /\ Report(c.id, "Accepted")
          /\ engine' = engine \cup {Copy(c.id, sent[c.id].type, sent[c.id].price,
                                         sent[c.id].qty)}
      BY <2>5 DEF AcceptSubmit
    <3>2. \A i \in Ids : In(history'[i], {"Filled"}) => Priced(i)'
      BY <2>1, <2>2, <3>1, PriceReport DEF Events
    <3>3. \A d \in engine' : TypeNow(d)' /\ d.price = sent'[d.id].price
      BY <2>2, <3>1 DEF PriceInv, TypeNow, Copy
    <3>4. AsSent'
      <4>1. stored' = [stored EXCEPT ![c.id] =
              [price |-> sent[c.id].price, qty |-> sent[c.id].qty, cum |-> 0]]
        BY <2>5 DEF AcceptSubmit
      <4>2. stored \in [Ids -> Stored \cup {None}] BY DEF IInv, TypeOK
      <4> QED BY <2>1, <2>2, <4>1, <4>2 DEF PriceInv, AsSent
    <3> QED BY <2>3, <3>2, <3>3, <3>4 DEF PriceInv
  <2>6. CASE CancelWorking(c)
    <3>1. Report(c.id, "Canceled") /\ engine' \subseteq engine
      BY <2>6 DEF CancelWorking, WithoutCopy
    <3>2. \A i \in Ids : In(history'[i], {"Filled"}) => Priced(i)'
      BY <2>1, <2>2, <3>1, PriceReport DEF Events
    <3>3. AsSent'
      <4>1. stored' = [stored EXCEPT ![c.id] = None] BY <2>6 DEF CancelWorking
      <4> QED BY <2>1, <2>2, <4>1, StoredGone DEF PriceInv
    <3> QED BY <2>2, <2>3, <3>1, <3>2, <3>3 DEF PriceInv, TypeNow
  <2>7. CASE CancelUnknown(c)
    <3>1. engine' = engine /\ history' = history /\ stored' = stored
      BY <2>7 DEF CancelUnknown
    <3> QED BY <2>2, <2>3, <3>1 DEF PriceInv, TypeNow, Priced, AsSent
  <2> QED
    BY <1>2, <2>1, <2>4, <2>5, <2>6, <2>7
    DEF ProcessCommand, RejectModify, AcceptModify, Take
<1> QED BY <1>1, <1>2 DEF CommandCalls

LEMMA PriceData ==
  ASSUME IInv, PriceInv, NEW last, NEW leaves, DataCalls(last, leaves)
  PROVE  PriceInv'
<1>1. ASSUME NEW x \in matches, ProcessMatch(x)
      PROVE  PriceInv'
  <2>1. x.id \in Ids BY DEF IInv, TypeOK
  <2>2. /\ sent' = sent /\ inflight' = inflight /\ engine' = engine
        /\ matches' = matches \ {x}
        /\ history' = history \/ Report(x.id, "Filled")
    BY <1>1 DEF ProcessMatch
  <2>3. \A i \in Ids : In(history'[i], {"Filled"}) => Priced(i)'
    <3>1. CASE history' = history BY <2>2, <3>1 DEF PriceInv, Priced
    <3>2. CASE Report(x.id, "Filled")
      BY <2>1, <2>2, <3>2, PriceReport DEF PriceInv, Events
    <3> QED BY <2>2, <3>1, <3>2
  <2>4. AsSent'
    <3>1. stored \in [Ids -> Stored \cup {None}] /\ x.qty \in Nat
      BY DEF IInv, TypeOK
    <3>2. stored[x.id] # None BY <2>1, StoredFacts DEF MatchesOf
    <3>3. x.qty = stored[x.id].qty - stored[x.id].cum
      BY <2>1, <3>2 DEF IInv, WorkInv, OneCopyWorking, MatchesOf
    <3>4. stored[x.id].cum + x.qty >= stored[x.id].qty
      <4>1. stored[x.id].qty \in Nat /\ stored[x.id].cum \in Nat
        BY <2>1, <3>1, <3>2 DEF Stored
      <4> QED BY <3>1, <3>3, <4>1
    <3>5. stored' = [stored EXCEPT ![x.id] = None]
      BY <1>1, <3>2, <3>4 DEF ProcessMatch
    <3> QED BY <2>1, <2>2, <3>5, StoredGone DEF PriceInv
  <2> QED BY <2>2, <2>3, <2>4 DEF PriceInv, TypeNow, Priced
<1>2. ASSUME NEW id \in Ids, ExpireOrder(id)
      PROVE  PriceInv'
  <2>1. /\ sent' = sent /\ inflight' = inflight /\ engine' \subseteq engine
        /\ matches' = matches /\ Report(id, "Expired")
        /\ stored' = [stored EXCEPT ![id] = None]
    BY <1>2 DEF ExpireOrder, WithoutCopy
  <2>2. \A i \in Ids : In(history'[i], {"Filled"}) => Priced(i)'
    BY <2>1, PriceReport DEF Events
  <2>3. AsSent' BY <2>1, StoredGone DEF PriceInv
  <2> QED BY <2>1, <2>2, <2>3 DEF PriceInv, TypeNow, Priced
<1>3. CASE EndData
  BY <1>3, PriceFrame DEF EndData, orders
<1> QED BY <1>1, <1>2, <1>3 DEF DataCalls

LEMMA PriceBar ==
  ASSUME IInv, PriceInv, NEW inst, NEW m, MarketData(inst, m)
  PROVE  PriceInv'
<1>1. UNCHANGED <<inflight, sent, stored, history>> BY DEF MarketData
<1>2. ASSUME NEW c \in AfterTriggers(inst, m)
      PROVE  TypeNow(c) /\ c.price = sent[c.id].price
  <2>1. PICK d \in engine : c = d \/ c = Triggered(d)
    BY DEF AfterTriggers
  <2>2. TypeNow(d) /\ d.price = sent[d.id].price /\ d \in EngineCopy
    BY DEF PriceInv, IInv, TypeOK, EngineCopy
  <2>3. CASE c = Triggered(d)
    <3>1. c.id = d.id /\ c.price = d.price BY <2>2, <2>3, TriggeredCopy
    <3>2. c.type = CASE d.type = "Stop" -> "Market"
                     [] d.type = "StopLimit" -> "Limit"
                     [] OTHER -> d.type
      BY <2>2, <2>3 DEF Triggered, EngineCopy
    <3> QED BY <2>2, <3>1, <3>2 DEF TypeNow
  <2> QED BY <2>1, <2>2, <2>3
<1>3. engine' \subseteq AfterTriggers(inst, m)
      /\ \A x \in matches' : \E c \in AfterTriggers(inst, m) :
           x = Match(c) /\ Fills(c, m)
  BY DEF MarketData
<1>4. ASSUME NEW x \in matches' PROVE Priced(x.id)
  <2>1. PICK c \in AfterTriggers(inst, m) : x = Match(c) /\ Fills(c, m) BY <1>3
  <2> QED BY <1>2, <2>1 DEF Match, Fills, TypeNow, Priced
<1>5. \A c \in engine' : TypeNow(c) /\ c.price = sent[c.id].price
  BY <1>2, <1>3
<1> QED BY <1>1, <1>4, <1>5 DEF PriceInv, TypeNow, Priced, AsSent

\* A new order has no copy, match or event yet.
LEMMA PriceSubmit ==
  ASSUME IInv, PriceInv, NEW id \in Ids, sent[id] = None,
         NEW r, sent' = [sent EXCEPT ![id] = r],
         UNCHANGED <<engine, matches, stored, history>>,
         \A c \in inflight' : c.kind # "modify"
  PROVE  PriceInv'
<1>1. \A i \in Ids \ {id} : sent'[i] = sent[i] BY DEF IInv, TypeOK
<1>2. stored[id] = None /\ history[id] = <<>> BY DEF IInv, SentInv
<1>3. \A c \in engine : c.id \in Ids \ {id} BY CopySent
<1>4. \A x \in matches : x.id \in Ids \ {id}
  <2>1. MatchesOf(id) = {} BY <1>2, StoredFacts
  <2> QED BY <2>1 DEF MatchesOf, IInv, TypeOK
<1>5. ~In(history[id], {"Filled"}) BY <1>2 DEF In
<1>6. AsSent' BY <1>1, <1>2 DEF PriceInv, AsSent
<1> QED BY <1>1, <1>3, <1>4, <1>5, <1>6 DEF PriceInv, TypeNow, Priced

-----------------------------------------------------------------------------
(* The lifecycle.                                                          *)

\* What the engine makes of the strategy's lifecycle, which is not what the
\* coordinator documents (terminate_strategy: "Can only terminate from
\* Historical, Transition, Realtime, or Active"; warmup_complete: "Whether this
\* strategy has completed warmup").
\* Registry and tracker agree. A strategy that warmed up stays in Transition
\* after the run and in every later run, because the table has no way from
\* there to Terminated; one that did not is terminated by its first run with
\* data and leaves that state no more. Neither is ever marked as warmed up in
\* the tracker.
LifecycleFollowsRuns ==
  LET s == lifecycle.state IN
  /\ lifecycle.current = s /\ ~lifecycle.warm
  /\ lifecycle.firstData <=> s # "Configure"
  /\ s \in {"Configure", "Historical", "Transition", "Terminated"}
  /\ s = "Historical" => step \notin {"idle", "last"} /\ ~warmedUp
  /\ warmedUp => s # "Configure" /\ (runs = 1 => s = "Transition")

InData == {"next", "commands", "bar", "submit", "cancel"}

\* Once a run has data the strategy is no longer configured, and in the first
\* run it is in Historical until it has warmed up.
LifeInv ==
  /\ LifecycleFollowsRuns
  /\ step \in InData => /\ lifecycle.state # "Configure"
                        /\ runs = 1 /\ ~warmedUp => lifecycle.state = "Historical"
  /\ runs = 0 => lifecycle.state = "Configure" /\ ~warmedUp

LEMMA LifeFrame ==
  ASSUME LifeInv, UNCHANGED <<lifecycle, warmedUp, runs>>,
         step' \in {"idle", "last"} => step \in {"idle", "last"},
         step' \in InData => step \in InData
  PROVE  LifeInv'
BY DEF LifeInv, LifecycleFollowsRuns

LEMMA Table ==
  /\ ValidTransitions["SetDefaults"] = {"Configure"}
  /\ ValidTransitions["Undefined"] = {"SetDefaults"}
  /\ ValidTransitions["Configure"] = {"Active", "DataLoaded", "Faulted"}
  /\ ValidTransitions["DataLoaded"] = {"Historical", "Faulted"}
  /\ ValidTransitions["Historical"] = {"Transition", "Terminated", "Faulted"}
  /\ ValidTransitions["Transition"] = {"Realtime", "Faulted"}
  /\ ValidTransitions["Terminated"] = {"Finalized"}
BY DEF ValidTransitions, States

LEMMA Transitions ==
  ASSUME NEW t \in Tracked, NEW target \in States
  PROVE  /\ TransitionTo(t, target) \in Tracked
         /\ target \notin ValidTransitions[t.state] => TransitionTo(t, target) = t
         /\ target \in ValidTransitions[t.state] =>
              /\ TransitionTo(t, target).state = target
              /\ TransitionTo(t, target).current = target
              /\ TransitionTo(t, target).firstData = t.firstData
              /\ TransitionTo(t, target).warm = t.warm
BY DEF TransitionTo, Tracked

\* The states of a strategy that has not warmed up in the tracker.
Settled(t) == /\ t \in Tracked /\ t.current = t.state /\ ~t.warm
              /\ t.state \in {"Configure", "Historical", "Transition", "Terminated"}
              /\ t.firstData <=> t.state # "Configure"

LEMMA DataEntered ==
  ASSUME NEW t, Settled(t), t.state # "Historical"
  PROVE  /\ Settled(EnterData(t))
         /\ EnterData(t).state =
              IF t.state = "Configure" THEN "Historical" ELSE t.state
<1>1. CASE t.state = "Configure"
  <2> DEFINE a == TransitionTo(t, "DataLoaded")
             b == [a EXCEPT !.firstData = TRUE]
             c == TransitionTo(b, "Historical")
  <2>1. "DataLoaded" \in States /\ "Historical" \in States BY DEF States
  <2>2. "DataLoaded" \in ValidTransitions[t.state] BY <1>1, Table
  <2>3. a \in Tracked /\ a.state = "DataLoaded" /\ a.current = "DataLoaded"
        /\ a.warm = t.warm
    BY <2>1, <2>2, Transitions DEF Settled
  <2> HIDE DEF a
  <2>4. b \in Tracked /\ b.state = "DataLoaded" /\ b.current = "DataLoaded"
        /\ b.warm = t.warm /\ b.firstData = TRUE
    BY <2>3 DEF Tracked
  <2> HIDE DEF b
  <2>5. "Historical" \in ValidTransitions[b.state] BY <2>4, Table
  <2>6. c \in Tracked /\ c.state = "Historical" /\ c.current = "Historical"
        /\ c.firstData = b.firstData /\ c.warm = b.warm
    BY <2>1, <2>4, <2>5, Transitions
  <2>7. EnterData(t) = c BY <2>2 DEF EnterData, a, b
  <2> HIDE DEF c
  <2> QED BY <1>1, <2>4, <2>6, <2>7 DEF Settled
<1>2. CASE t.state # "Configure"
  <2>1. EnterData(t) = t BY <1>2, Table DEF EnterData, Settled
  <2> QED BY <1>2, <2>1
<1> QED BY <1>1, <1>2

LEMMA WarmedUp ==
  ASSUME NEW t, Settled(t), t.state # "Configure"
  PROVE  /\ Settled(TransitionTo(t, "Transition"))
         /\ TransitionTo(t, "Transition").state =
              IF t.state = "Historical" THEN "Transition" ELSE t.state
<1>1. "Transition" \in States BY DEF States
<1> QED BY <1>1, Table, Transitions DEF Settled

LEMMA RunTerminated ==
  ASSUME NEW t, Settled(t)
  PROVE  /\ Settled(Terminate(t))
         /\ Terminate(t).state =
              IF t.state = "Historical" THEN "Terminated" ELSE t.state
<1>1. "Terminated" \in States BY DEF States
<1> QED BY <1>1, Table, Transitions DEF Settled, Terminate

-----------------------------------------------------------------------------
(* The invariant is inductive.                                             *)

RestType ==
  /\ orderLists \subseteq ListIds /\ registered \subseteq ListIds
  /\ orderToList \in [Ids -> ListIds \cup {None}]
  /\ submittedChildren \subseteq ListIds /\ processedOco \subseteq ListIds
  /\ step \in Steps /\ runs \in Nat /\ bars \in Nat /\ Notices
  /\ currentPrice \in [Instruments -> Prices \cup {None}]
  /\ close \in [inst : Instruments, price : Prices] \cup {None}
  /\ warmedUp \in BOOLEAN /\ lifecycle \in Tracked

EngineInv == /\ RestType /\ PlaceInv /\ NoteInv /\ PriceInv
             /\ LocksFollowOrders /\ FundsInv /\ LifeInv

LEMMA TypeParts ==
  BacktestTypeOK <=> RestType /\ FundsType /\ held \in [Instruments -> Nat]
BY DEF BacktestTypeOK, RestType, FundsType, Notices, MaybeNat

\* What a step leaves as it is when the books and the events stay.
LEMMA BookFrame ==
  ASSUME EngineInv, UNCHANGED <<sent, stored, history, fillEvents>>,
         UNCHANGED <<funds, stranded>>,
         \A i \in Ids : InFlight(i)' <=> InFlight(i),
         step \in {"flush", "idle"} => step' \in {"flush", "idle"}
  PROVE  NoteInv' /\ LocksFollowOrders' /\ FundsInv'
<1>1. NoteInv' BY DEF EngineInv, NoteInv, Whole
<1>2. LocksFollowOrders'
  <2>1. lockedAmounts' = lockedAmounts BY DEF funds
  <2>2. \A i \in Ids : /\ Live(i)' <=> Live(i)
                       /\ BuyOrder(i)' <=> BuyOrder(i)
                       /\ Has(i, {"Expired"})' <=> Has(i, {"Expired"})
    BY DEF Live, Waiting, BuyOrder, Has
  <2> QED BY <2>1, <2>2 DEF EngineInv, LocksFollowOrders
<1>3. FundsInv' BY FundsFrame DEF EngineInv
<1> QED BY <1>1, <1>2, <1>3

\* A part of the loop in which the exchange does nothing.
LEMMA ExchangeRests ==
  ASSUME EngineInv, UNCHANGED <<sent, stored, history, inflight, engine, matches>>,
         UNCHANGED <<fillEvents, funds, stranded>>,
         step \in {"flush", "idle"} => step' \in {"flush", "idle"}
  PROVE  NoteInv' /\ PriceInv' /\ LocksFollowOrders' /\ FundsInv'
<1>1. \A i \in Ids : InFlight(i)' <=> InFlight(i) BY DEF InFlight
<1>2. PriceInv' BY PriceFrame DEF EngineInv
<1>3. NoteInv' /\ LocksFollowOrders' /\ FundsInv' BY <1>1, BookFrame
<1> QED BY <1>2, <1>3

LEMMA RegisterStep ==
  ASSUME EngineInv, NEW l \in ListIds, Register(l)
  PROVE  EngineInv'
<1>1. /\ step = "idle" /\ UNCHANGED <<vars, step, fillEvents, funds>>
      /\ UNCHANGED <<currentPrice, close, runs, bars, warmedUp, lifecycle, stranded, registered>>
      /\ orderLists' = orderLists \cup {l}
      /\ orderToList' = [id \in Ids |-> IF id \in Members(l) THEN l ELSE orderToList[id]]
      /\ submittedChildren' = submittedChildren /\ processedOco' = processedOco
  BY DEF Register, RegisterList, loop
<1>2. UNCHANGED <<sent, stored, history, inflight, engine, matches>>
  BY <1>1 DEF vars, orders
<1>3. RestType'
  BY <1>1 DEF EngineInv, RestType, Notices
<1>4. PlaceInv' BY <1>1, <1>2 DEF EngineInv, PlaceInv
<1>5. LifeInv' BY <1>1, LifeFrame DEF EngineInv
<1>6. NoteInv' /\ PriceInv' /\ LocksFollowOrders' /\ FundsInv'
  BY <1>1, <1>2, ExchangeRests
<1> QED BY <1>3, <1>4, <1>5, <1>6 DEF EngineInv

LEMMA NextBarStep ==
  ASSUME EngineInv, NextBar
  PROVE  EngineInv'
<1>1. /\ step = "next" /\ step' = "commands" /\ bars' = bars + 1
      /\ UNCHANGED <<manager, fillEvents, funds, currentPrice, close, runs,
                     warmedUp, lifecycle, stranded, registered>>
  BY DEF NextBar
<1>2. UNCHANGED <<sent, stored, history, inflight, engine, matches>>
  BY DEF NextBar, AdvanceTime, vars, orders
<1>3. RestType'
  BY <1>1 DEF EngineInv, RestType, Notices, manager, Steps
<1>4. PlaceInv' BY <1>1, <1>2 DEF EngineInv, PlaceInv, manager
<1>5. LifeInv' BY <1>1, LifeFrame DEF EngineInv, InData
<1>6. NoteInv' /\ PriceInv' /\ LocksFollowOrders' /\ FundsInv'
  BY <1>1, <1>2, ExchangeRests
<1> QED BY <1>3, <1>4, <1>5, <1>6 DEF EngineInv

LEMMA EndBarStep ==
  ASSUME EngineInv, EndBar \/ LastTime
  PROVE  EngineInv'
<1>1. /\ step \in {"submit", "cancel", "last", "next"} /\ step' \in {"next", "flush"}
      /\ step' = "next" => step \in {"submit", "cancel"}
      /\ UNCHANGED <<manager, fillEvents, funds, currentPrice, close>>
      /\ UNCHANGED <<runs, bars, warmedUp, lifecycle, stranded, registered>>
  BY DEF EndBar, LastTime, loop
<1>2. UNCHANGED <<sent, stored, history, inflight, engine, matches>>
  BY DEF EndBar, LastTime, AdvanceTime, vars, orders
<1>3. RestType'
  BY <1>1 DEF EngineInv, RestType, Notices, manager, Steps
<1>4. PlaceInv' BY <1>1, <1>2 DEF EngineInv, PlaceInv, manager
<1>5. LifeInv' BY <1>1, LifeFrame DEF EngineInv, InData
<1>6. NoteInv' /\ PriceInv' /\ LocksFollowOrders' /\ FundsInv'
  BY <1>1, <1>2, ExchangeRests
<1> QED BY <1>3, <1>4, <1>5, <1>6 DEF EngineInv

LEMMA CancelStep ==
  ASSUME IInv, EngineInv, Cancel
  PROVE  EngineInv'
<1>1. /\ step \in {"submit", "cancel"} /\ step' = "cancel"
      /\ UNCHANGED <<manager, fillEvents, funds, currentPrice, close>>
      /\ UNCHANGED <<runs, bars, warmedUp, lifecycle, stranded, registered>>
  BY DEF Cancel, loop
<1>2. PICK id \in Ids, latency \in DeleteLatencies :
        Push("cancel", id, NoChange, latency) /\ sent' = sent
  BY DEF Cancel, CancelOrder
<1>3. latency \in Nat /\ "cancel" \in Kinds /\ NoChange \in Change
  BY ExchangeAssumption DEF Kinds, NoChange, Change
<1>4. /\ UNCHANGED <<stored, engine, history, matches>>
      /\ \E c \in Command : /\ inflight' = inflight \cup {c}
                            /\ c.kind = "cancel" /\ c.id = id
  BY <1>2, <1>3, PushFacts
<1>5. \A i \in Ids : InFlight(i)' <=> InFlight(i)
  BY <1>4 DEF InFlight
<1>6. RestType'
  BY <1>1 DEF EngineInv, RestType, Notices, manager, Steps
<1>7. PlaceInv' BY <1>1 DEF EngineInv, PlaceInv, manager
<1>8. LifeInv' BY <1>1, LifeFrame DEF EngineInv, InData
<1>9. NoteInv' /\ LocksFollowOrders' /\ FundsInv'
  BY <1>1, <1>2, <1>4, <1>5, BookFrame
<1>10. PriceInv'
  BY <1>2, <1>4 DEF EngineInv, PriceInv, TypeNow, Priced, AsSent
<1> QED BY <1>6, <1>7, <1>8, <1>9, <1>10 DEF EngineInv

LEMMA RunBarStep ==
  ASSUME IInv, EngineInv, NEW inst \in Instruments, RunBar(inst)
  PROVE  EngineInv'
<1>1. /\ step = "commands" /\ step' = "bar"
      /\ UNCHANGED <<manager, fillEvents, funds, currentPrice>>
      /\ UNCHANGED <<runs, bars, warmedUp, lifecycle, stranded, registered>>
  BY DEF RunBar, loop
<1>2. PICK low \in Prices, high \in Prices, last \in Prices :
        /\ MarketData(inst, BarView(inst, low, high, last))
        /\ close' = [inst |-> inst, price |-> last]
  BY DEF RunBar
<1>3. UNCHANGED <<inflight, sent, stored, history>>
  BY <1>2 DEF MarketData
<1>4. close' \in [inst : Instruments, price : Prices] BY <1>2
<1>5. RestType'
  BY <1>1, <1>4 DEF EngineInv, RestType, Notices, manager, Steps
<1>6. PlaceInv' BY <1>1, <1>3, <1>4 DEF EngineInv, PlaceInv, manager
<1>7. LifeInv' BY <1>1, LifeFrame DEF EngineInv, InData
<1>8. \A i \in Ids : InFlight(i)' <=> InFlight(i) BY <1>3 DEF InFlight
<1>9. NoteInv' /\ LocksFollowOrders' /\ FundsInv'
  BY <1>1, <1>3, <1>8, BookFrame
<1>10. PriceInv' BY <1>2, PriceBar DEF EngineInv
<1> QED BY <1>5, <1>6, <1>7, <1>9, <1>10 DEF EngineInv

LEMMA SettledNow ==
  ASSUME RestType, LifeInv
  PROVE  Settled(lifecycle)
BY DEF RestType, LifeInv, LifecycleFollowsRuns, Settled

LEMMA StrategySeesBarStep ==
  ASSUME EngineInv, StrategySeesBar
  PROVE  EngineInv'
<1>1. /\ step = "bar" /\ step' \in {"next", "submit"} /\ fillEvents = <<>>
      /\ currentPrice' = [currentPrice EXCEPT ![close.inst] = close.price]
      /\ UNCHANGED <<vars, manager, fillEvents, funds, close, runs, bars>>
      /\ UNCHANGED <<stranded, registered>>
      /\ \/ UNCHANGED <<warmedUp, lifecycle>>
         \/ /\ warmedUp' = TRUE
            /\ lifecycle' = IF warmedUp THEN lifecycle
                            ELSE TransitionTo(lifecycle, "Transition")
  BY DEF StrategySeesBar
<1>2. UNCHANGED <<sent, stored, history, inflight, engine, matches>>
  BY <1>1 DEF vars, orders
<1>3. Settled(lifecycle) BY SettledNow DEF EngineInv
<1>4. lifecycle.state # "Configure" BY <1>1 DEF EngineInv, LifeInv, InData
<1>5. Settled(lifecycle')
  <2>1. CASE lifecycle' = lifecycle BY <1>3, <2>1
  <2>2. CASE lifecycle' = TransitionTo(lifecycle, "Transition")
    BY <1>3, <1>4, <2>2, WarmedUp
  <2> QED BY <1>1, <2>1, <2>2
<1>6. warmedUp' \in BOOLEAN /\ lifecycle' \in Tracked
  <2>1. warmedUp \in BOOLEAN BY DEF EngineInv, RestType
  <2> QED BY <1>1, <1>5, <2>1 DEF Settled
<1>7. currentPrice' \in [Instruments -> Prices \cup {None}]
  <2>1. close \in [inst : Instruments, price : Prices]
    BY <1>1 DEF EngineInv, PlaceInv
  <2>2. close.price \in Prices BY <2>1
  <2> QED BY <1>1, <2>2 DEF EngineInv, RestType
<1>8. RestType'
  BY <1>1, <1>6, <1>7 DEF EngineInv, RestType, Notices, manager, Steps
<1>9. PlaceInv' BY <1>1, <1>2 DEF EngineInv, PlaceInv, manager
<1>10. NoteInv' /\ PriceInv' /\ LocksFollowOrders' /\ FundsInv'
  BY <1>1, <1>2, ExchangeRests
<1>11. LifeInv'
  <2>1. runs' = runs /\ runs # 0 /\ step' \in InData
    BY <1>1 DEF EngineInv, PlaceInv, InData
  <2>2. CASE UNCHANGED <<warmedUp, lifecycle>>
    BY <1>1, <2>2, LifeFrame DEF EngineInv, InData
  <2>3. CASE warmedUp /\ warmedUp' /\ lifecycle' = lifecycle
    BY <1>1, <2>1, <2>3 DEF EngineInv, LifeInv, LifecycleFollowsRuns
  <2>4. CASE ~warmedUp /\ warmedUp' /\ lifecycle' = TransitionTo(lifecycle, "Transition")
    <3>1. lifecycle'.state = IF lifecycle.state = "Historical"
                             THEN "Transition" ELSE lifecycle.state
      BY <1>3, <1>4, <2>4, WarmedUp
    <3>2. runs = 1 => lifecycle.state = "Historical"
      BY <1>1, <2>4 DEF EngineInv, LifeInv, InData
    <3> QED
      BY <1>4, <1>5, <2>1, <2>4, <3>1, <3>2
      DEF Settled, LifeInv, LifecycleFollowsRuns
  <2> QED BY <1>1, <2>2, <2>3, <2>4
<1> QED BY <1>8, <1>9, <1>10, <1>11 DEF EngineInv

LEMMA EndRunStep ==
  ASSUME EngineInv, EndRun
  PROVE  EngineInv'
<1>1. /\ step = "flush" /\ step' = "idle" /\ lifecycle' = Terminate(lifecycle)
      /\ UNCHANGED <<vars, manager, fillEvents, funds, currentPrice, close, runs,
                     bars, warmedUp, stranded, registered>>
  BY DEF EndRun
<1>2. UNCHANGED <<sent, stored, history, inflight, engine, matches>>
  BY <1>1 DEF vars, orders
<1>3. Settled(lifecycle)
      /\ Settled(lifecycle')
      /\ lifecycle'.state = IF lifecycle.state = "Historical"
                            THEN "Terminated" ELSE lifecycle.state
  BY <1>1, SettledNow, RunTerminated DEF EngineInv
<1>4. RestType'
  BY <1>1, <1>3 DEF EngineInv, RestType, Notices, manager, Steps, Settled
<1>5. PlaceInv' BY <1>1, <1>2 DEF EngineInv, PlaceInv, manager
<1>6. NoteInv' /\ PriceInv' /\ LocksFollowOrders' /\ FundsInv'
  BY <1>1, <1>2, ExchangeRests
<1>7. LifeInv'
  <2>1. runs # 0 BY <1>1 DEF EngineInv, PlaceInv
  <2> QED
    BY <1>1, <1>3, <2>1
    DEF EngineInv, Settled, LifeInv, LifecycleFollowsRuns, InData
<1> QED BY <1>4, <1>5, <1>6, <1>7 DEF EngineInv

LEMMA StutterStep ==
  ASSUME EngineInv, UNCHANGED bvars
  PROVE  EngineInv'
<1>1. /\ UNCHANGED <<vars, manager, step, fillEvents, funds, currentPrice, close>>
      /\ UNCHANGED <<runs, bars, warmedUp, lifecycle, stranded, registered>>
  BY DEF bvars, loop
<1>2. UNCHANGED <<sent, stored, history, inflight, engine, matches>>
  BY <1>1 DEF vars, orders
<1>3. RestType' BY <1>1 DEF EngineInv, RestType, Notices, manager
<1>4. PlaceInv' BY <1>1, <1>2 DEF EngineInv, PlaceInv, manager
<1>5. LifeInv' BY <1>1, LifeFrame DEF EngineInv
<1>6. NoteInv' /\ PriceInv' /\ LocksFollowOrders' /\ FundsInv'
  BY <1>1, <1>2, ExchangeRests
<1> QED BY <1>3, <1>4, <1>5, <1>6 DEF EngineInv

LEMMA CollectedTold ==
  ASSUME IInv, PriceInv, NEW last, NEW leaves,
         \/ CommandCalls /\ last = 0 /\ leaves = 0
         \/ DataCalls(last, leaves)
  PROVE  /\ sent' = sent
         /\ Quiet \/ \E id \in Ids, e \in Events : Noted(id, e, last, leaves)
<1>1. CASE CommandCalls /\ last = 0 /\ leaves = 0
  <2>1. sent' = sent
        /\ (Quiet \/ \E id \in Ids, e \in Events \ {"Filled"} : Tells(id, e))
    BY <1>1, CommandEffects
  <2> QED BY <1>1, <2>1 DEF Noted
<1>2. CASE DataCalls(last, leaves) BY <1>2, DataEffects
<1> QED BY <1>1, <1>2

\* A part of the bar in which the exchange works and its events are collected.
LEMMA CollectStep ==
  ASSUME IInv, IInv', EngineInv, NEW last, NEW leaves, Collect(last, leaves),
         \/ CommandCalls /\ last = 0 /\ leaves = 0
         \/ DataCalls(last, leaves),
         UNCHANGED <<manager, step, funds, currentPrice, close, loop>>,
         step \in {"commands", "bar"}
  PROVE  EngineInv'
<1>1. /\ sent' = sent
      /\ Quiet \/ \E id \in Ids, e \in Events : Noted(id, e, last, leaves)
  BY CollectedTold DEF EngineInv
<1>2. PriceInv' BY PriceCommands, PriceData DEF EngineInv
<1>3. NoteInv' /\ Notices'
  BY <1>1, NotesCollected DEF EngineInv, RestType
<1>4. lockedAmounts' = lockedAmounts BY DEF funds
<1>5. LocksFollowOrders'
  BY <1>1, <1>4, LocksCollected DEF EngineInv, RestType
<1>6. FundsInv' BY <1>1, FundsFrame DEF EngineInv, loop
<1>7. RestType' BY <1>3 DEF EngineInv, RestType, manager, loop
<1>8. PlaceInv' BY <1>1 DEF EngineInv, PlaceInv, manager, loop
<1>9. LifeInv' BY LifeFrame DEF EngineInv, loop
<1> QED BY <1>2, <1>3, <1>5, <1>6, <1>7, <1>8, <1>9 DEF EngineInv

LEMMA FlushStep ==
  ASSUME IInv, EngineInv, Flush
  PROVE  EngineInv'
<1>1. /\ step = "flush" /\ CommandCalls
      /\ UNCHANGED <<manager, step, fillEvents, funds, currentPrice, close, loop>>
  BY DEF Flush
<1>2. sent' = sent /\ (Quiet \/ \E id \in Ids, e \in Events : Tells(id, e))
  BY <1>1, CommandEffects DEF EngineInv
<1>3. PriceInv' BY <1>1, PriceCommands DEF EngineInv
<1>4. fillEvents = <<>> BY <1>1 DEF EngineInv, PlaceInv
<1>5. NoteInv' BY <1>1, <1>4 DEF NoteInv
<1>6. LocksFollowOrders'
  <2>1. \A i \in Ids : Pending(i)' => Pending(i)
    BY <1>2 DEF Quiet, Tells
  <2>2. \A i \in Ids : /\ Live(i)' => Live(i)
                       /\ BuyOrder(i)' <=> BuyOrder(i)
    BY <1>1, <1>2, <2>1 DEF Live, Pending, Waiting, BuyOrder
  <2> QED BY <1>1, <2>2 DEF EngineInv, LocksFollowOrders, funds
<1>7. FundsInv' BY <1>1, <1>2, FundsFrame DEF EngineInv, loop
<1>8. RestType' BY <1>1 DEF EngineInv, RestType, Notices, manager, loop
<1>9. PlaceInv' BY <1>1, <1>2 DEF EngineInv, PlaceInv, manager, loop
<1>10. LifeInv' BY <1>1, LifeFrame DEF EngineInv, loop
<1> QED BY <1>3, <1>5, <1>6, <1>7, <1>8, <1>9, <1>10 DEF EngineInv

\* Without a list the contingent manager has no part in any order.
LEMMA NothingListed ==
  ASSUME orderLists = {}, NEW id
  PROVE  ~IsOco(id) /\ ~IsOto(id)
BY DEF IsOco, IsOto, Listed

LEMMA ManagerRests ==
  ASSUME orderLists = {}, NEW kind, NEW id, OnOrderEvent(kind, id)
  PROVE  UNCHANGED manager
<1>1. ~IsOco(id) /\ ~IsOto(id) BY NothingListed
<1>2. ~TriggersChildren(id) /\ ~Sweeps(id)
  BY <1>1 DEF TriggersChildren, Sweeps
<1> QED
  BY <1>2 DEF OnOrderEvent, OnOrderFilled, OnOrderCanceled, manager

\* The price of a fill is known, and the portfolio's funds follow.
LEMMA FundsHandled ==
  ASSUME IInv, EngineInv, NEW e \in Notice, In(history[e.id], {e.kind}),
         sent[e.id] # None, e.kind = "Filled" => Whole(e.id, e.last, e.leaves),
         HandleFunds(e), UNCHANGED <<sent, stranded>>
  PROVE  FundsInv'
<1>1. e.id \in Ids BY DEF Notice
<1>2. sent[e.id] \in Request
  <2>1. sent[e.id] \in Requests \cup {None} BY <1>1 DEF IInv, TypeOK
  <2> QED BY <2>1, ExchangeAssumption
<1>3. FundsInv BY DEF EngineInv
<1>4. ASSUME e.kind = "Filled", FillEvent(e)
      PROVE  FundsInv'
  <2>1. Priced(e.id) BY <1>1, <1>4 DEF EngineInv, PriceInv
  <2>2. FillPrices(e.id) \subseteq Nat
    <3>1. sent[e.id].price \in Nat \/ sent[e.id].price = None
      BY <1>2 DEF Request, Positive
    <3>2. Prices \subseteq Nat BY ExchangeAssumption DEF Positive
    <3> QED BY <2>1, <3>1, <3>2 DEF FillPrices, Priced
  <2>3. PICK price \in FillPrices(e.id), fee \in Fees :
          IF sent[e.id].side = "Buy" THEN ExecuteBuy(e, price, fee)
                                     ELSE ExecuteSell(e, price, fee)
    BY <1>4 DEF FillEvent
  <2>4. price \in Nat /\ fee \in Nat BY <2>2, EngineAssumption
  <2>5. CASE sent[e.id].side = "Buy"
    <3>1. e.leaves = 0 BY <1>4 DEF Whole
    <3> QED BY <1>2, <1>3, <2>3, <2>4, <2>5, <3>1, BuyStep
  <2>6. CASE sent[e.id].side # "Buy"
    BY <1>2, <1>3, <2>3, <2>4, <2>6, SellStep DEF BuyOrder
  <2> QED BY <2>5, <2>6
<1>5. ASSUME UnlockEvent(e.id) PROVE FundsInv'
  BY <1>1, <1>3, <1>5, UnlockStep
<1>6. ASSUME UNCHANGED funds PROVE FundsInv'
  BY <1>3, <1>6, FundsFrame
<1> QED BY <1>4, <1>5, <1>6 DEF HandleFunds

\* The end of a buy order releases what was locked for it; a sell order has
\* nothing locked.
LEMMA LocksHandled ==
  ASSUME LocksFollowOrders, FundsInv, NEW e \in Notice, HandleFunds(e),
         sent[e.id] # None, e.kind = "Filled" => Whole(e.id, e.last, e.leaves)
  PROVE  /\ \A i \in Ids : lockedAmounts'[i] # None =>
              lockedAmounts'[i] = lockedAmounts[i]
         /\ \A i \in Ids \ {e.id} : lockedAmounts'[i] = lockedAmounts[i]
         /\ e.kind \in Ending => lockedAmounts'[e.id] = None
         /\ e.kind \notin Ending => lockedAmounts' = lockedAmounts
<1>1. e.id \in Ids BY DEF Notice
<1>2. lockedAmounts \in [Ids -> MaybeNat] BY DEF FundsInv, FundsType
<1>3. CASE lockedAmounts' = [lockedAmounts EXCEPT ![e.id] = None] /\ e.kind \in Ending
  BY <1>1, <1>2, <1>3
<1>4. CASE e.kind = "Filled" /\ ~BuyOrder(e.id) /\ lockedAmounts' = lockedAmounts
  BY <1>1, <1>4 DEF LocksFollowOrders, Ending
<1>5. CASE e.kind \notin Ending /\ lockedAmounts' = lockedAmounts
  BY <1>5
<1>6. e.kind = "Filled" /\ FillEvent(e) =>
        \/ lockedAmounts' = [lockedAmounts EXCEPT ![e.id] = None]
        \/ ~BuyOrder(e.id) /\ lockedAmounts' = lockedAmounts
  BY DEF FillEvent, ExecuteBuy, ExecuteSell, BuyOrder, Whole
<1> QED
  BY <1>3, <1>4, <1>5, <1>6 DEF HandleFunds, UnlockEvent, Ending, funds

LEMMA HandleEventStep ==
  ASSUME IInv, EngineInv, HandleEvent
  PROVE  EngineInv'
<1>1. /\ step = "bar" /\ fillEvents # <<>> /\ fillEvents' = Tail(fillEvents)
      /\ UNCHANGED <<vars, step, currentPrice, close>>
      /\ UNCHANGED <<runs, bars, warmedUp, lifecycle, stranded, registered>>
  BY DEF HandleEvent, loop
<1>2. PICK e : e = Head(fillEvents) OBVIOUS
<1>3. HandleFunds(e) /\ OnOrderEvent(e.kind, e.id)
  BY <1>2 DEF HandleEvent
<1>4. /\ Notices' /\ e \in Notice /\ In(history[e.id], {e.kind})
      /\ sent[e.id] # None
      /\ e.kind = "Filled" => Whole(e.id, e.last, e.leaves)
      /\ e.kind \in Terminal => ~Pending(e.id) /\ ~Waiting(e.id, Ending)'
      /\ e.kind \notin Ending =>
           (Waiting(e.id, Ending)' <=> Waiting(e.id, Ending))
      /\ \A i : i # e.id => (Waiting(i, Ending)' <=> Waiting(i, Ending))
  BY <1>1, <1>2, HandledNotice DEF EngineInv, RestType
<1>5. UNCHANGED <<sent, stored, history, inflight, engine, matches>>
  BY <1>1 DEF vars, orders
<1>6. FundsInv' BY <1>1, <1>3, <1>4, <1>5, FundsHandled
<1>7. /\ \A i \in Ids \ {e.id} : lockedAmounts'[i] = lockedAmounts[i]
      /\ e.kind \in Ending => lockedAmounts'[e.id] = None
      /\ e.kind \notin Ending => lockedAmounts' = lockedAmounts
  BY <1>3, <1>4, LocksHandled DEF EngineInv
<1>8. LocksFollowOrders'
  <2>1. \A i \in Ids : /\ BuyOrder(i)' <=> BuyOrder(i)
                       /\ Has(i, {"Expired"})' <=> Has(i, {"Expired"})
                       /\ Pending(i)' <=> Pending(i)
                       /\ Live(i)' <=> Pending(i)' \/ Waiting(i, Ending)'
                       /\ Live(i) <=> Pending(i) \/ Waiting(i, Ending)
    BY <1>5 DEF BuyOrder, Has, Pending, InFlight, Live, Ending
  <2>2. \A i \in Ids \ {e.id} : Live(i)' <=> Live(i)
    BY <1>4, <2>1
  <2>3. e.kind \in Ending => ~Live(e.id)'
    BY <1>4, <2>1 DEF Notice, Ending, Terminal
  <2>4. e.kind \notin Ending => (Live(e.id)' <=> Live(e.id))
    BY <1>4, <2>1 DEF Notice
  <2> QED BY <1>1, <1>7, <2>1, <2>2, <2>3, <2>4 DEF EngineInv, LocksFollowOrders
<1>9. NoteInv'
  <2> DEFINE n == Len(fillEvents)
  <2>1. /\ n \in Nat /\ DOMAIN fillEvents = 1 .. n
        /\ DOMAIN fillEvents' = 1 .. n - 1
        /\ \A i \in 1 .. n - 1 : fillEvents'[i] = fillEvents[i + 1] /\ i + 1 \in 1 .. n
    BY <1>1 DEF EngineInv, RestType, Notices
  <2>2. \A i, j \in 1 .. n - 1 : i + 1 = j + 1 => i = j BY <2>1
  <2> HIDE DEF n
  <2>3. history' = history /\ sent' = sent BY <1>5
  <2>4. ASSUME NEW i \in 1 .. n - 1
        PROVE  /\ In(history'[fillEvents'[i].id], {fillEvents'[i].kind})
               /\ fillEvents'[i].kind = "Filled" =>
                    /\ fillEvents'[i].last = sent'[fillEvents'[i].id].qty
                    /\ fillEvents'[i].leaves = 0
    <3>1. fillEvents'[i] = fillEvents[i + 1] /\ i + 1 \in DOMAIN fillEvents
      BY <2>1
    <3> QED BY <2>3, <3>1 DEF EngineInv, NoteInv, Whole
  <2>5. ASSUME NEW i \in 1 .. n - 1, NEW j \in 1 .. n - 1,
               fillEvents'[i].id = fillEvents'[j].id,
               fillEvents'[i].kind \in Terminal, fillEvents'[j].kind \in Terminal
        PROVE  i = j
    <3>1. i + 1 = j + 1 BY <2>1, <2>5 DEF EngineInv, NoteInv
    <3> QED BY <2>2, <3>1
  <2> QED BY <2>1, <2>3, <2>4, <2>5 DEF NoteInv, Whole
<1>10. PriceInv' BY <1>5, PriceFrame DEF EngineInv
<1>11. UNCHANGED manager
  BY <1>1, <1>3, ManagerRests DEF EngineInv, PlaceInv
<1>12. RestType' BY <1>1, <1>4, <1>11 DEF EngineInv, RestType, manager
<1>13. PlaceInv' BY <1>1, <1>5, <1>11 DEF EngineInv, PlaceInv, manager
<1>14. LifeInv' BY <1>1, LifeFrame DEF EngineInv
<1> QED BY <1>6, <1>8, <1>9, <1>10, <1>12, <1>13, <1>14 DEF EngineInv

LEMMA SubmitsOrder ==
  ASSUME IInv, EngineInv, Submit
  PROVE  EngineInv'
<1>1. /\ step = "submit"
      /\ UNCHANGED <<manager, step, fillEvents, currentPrice, close>>
      /\ UNCHANGED <<runs, bars, warmedUp, lifecycle, stranded, registered>>
  BY DEF Submit, loop
<1>2. PICK id \in Ids :
        sent[id] = None /\ SubmitOrder(id) /\ LockFunds(id, sent'[id])
  BY DEF Submit
<1>3. PICK r \in Requests, latency \in InsertLatencies :
        Push("submit", id, NoChange, latency) /\ sent' = [sent EXCEPT ![id] = r]
  BY <1>2 DEF SubmitOrder
<1>4. latency \in Nat /\ "submit" \in Kinds /\ NoChange \in Change
  BY ExchangeAssumption DEF Kinds, NoChange, Change
<1>5. /\ UNCHANGED <<stored, engine, history, matches>>
      /\ \E c \in Command : /\ inflight' = inflight \cup {c}
                            /\ c.kind = "submit" /\ c.id = id
  BY <1>3, <1>4, PushFacts
<1>6. /\ sent \in [Ids -> Requests \cup {None}] /\ r \in Request /\ r # None
      /\ sent'[id] = r /\ \A i \in Ids \ {id} : sent'[i] = sent[i]
  BY <1>3, ExchangeAssumption, NoneApart DEF IInv, TypeOK
<1>7. lockedAmounts[id] = None /\ lockedAmounts \in [Ids -> MaybeNat]
  BY <1>2 DEF EngineInv, LocksFollowOrders, BuyOrder, FundsInv, FundsType
<1>8. FundsInv'
  <2>1. currentPrice \in [Instruments -> Prices \cup {None}]
    BY DEF EngineInv, RestType
  <2> QED BY <1>1, <1>2, <1>3, <1>6, <1>7, <2>1, FundsLocked DEF EngineInv
<1>9. PriceInv'
  <2>1. \A c \in inflight' : c.kind # "modify"
    BY <1>5 DEF EngineInv, PriceInv
  <2> QED BY <1>2, <1>3, <1>5, <2>1, PriceSubmit DEF EngineInv
<1>10. LocksFollowOrders'
  <2>1. \A i \in Ids \ {id} : /\ Live(i)' <=> Live(i)
                              /\ BuyOrder(i)' <=> BuyOrder(i)
                              /\ Has(i, {"Expired"})' <=> Has(i, {"Expired"})
    BY <1>1, <1>5, <1>6 DEF Live, InFlight, Waiting, BuyOrder, Has
  <2>2. Live(id)' BY <1>5 DEF Live, InFlight
  <2>3. \A i \in Ids \ {id} : lockedAmounts'[i] = lockedAmounts[i]
    BY <1>2, <1>7 DEF LockFunds, funds
  <2>4. BuyOrder(id)' <=> lockedAmounts'[id] # None
    <3>1. r.side \in {"Buy", "Sell"} BY <1>6 DEF Request
    <3>2. CASE r.side = "Sell"
      BY <1>2, <1>6, <1>7, <3>2 DEF LockFunds, funds, BuyOrder
    <3>3. CASE r.side = "Buy"
      <4>1. lockedAmounts' = [lockedAmounts EXCEPT ![id] = Estimate(r)]
        BY <1>2, <1>6, <3>3 DEF LockFunds
      <4>2. Estimate(r) \in Nat
        BY <1>6, EstimateType DEF EngineInv, RestType
      <4> QED BY <1>6, <1>7, <3>3, <4>1, <4>2, NoneApart DEF BuyOrder
    <3> QED BY <3>1, <3>2, <3>3
  <2> QED BY <1>1, <2>1, <2>2, <2>3, <2>4 DEF EngineInv, LocksFollowOrders
<1>11. NoteInv'
  <2>1. fillEvents = <<>> BY <1>1 DEF EngineInv, PlaceInv
  <2> QED BY <1>1, <2>1 DEF NoteInv
<1>12. RestType'
  BY <1>1 DEF EngineInv, RestType, Notices, manager
<1>13. PlaceInv' BY <1>1 DEF EngineInv, PlaceInv, manager
<1>14. LifeInv' BY <1>1, LifeFrame DEF EngineInv
<1> QED BY <1>8, <1>9, <1>10, <1>11, <1>12, <1>13, <1>14 DEF EngineInv

LEMMA NothingLocked ==
  ASSUME NEW l, l = [id \in Ids |-> None]
  PROVE  /\ l \in [Ids -> MaybeNat] /\ AllUnits(l) = {}
         /\ IsFiniteSet(AllUnits(l)) /\ Cardinality(AllUnits(l)) = 0
<1>1. AllUnits(l) = {} BY DEF AllUnits, UnitsOf
<1> QED BY <1>1, FS_EmptySet DEF MaybeNat

LEMMA StartRunStep ==
  ASSUME IInv, EngineInv, StartRun
  PROVE  EngineInv'
<1>1. /\ step = "idle" /\ step' \in {"next", "last"}
      /\ IF runs = 0 THEN UNCHANGED vars ELSE Reset
      /\ orderLists' = {} /\ orderToList' = [id \in Ids |-> None]
      /\ submittedChildren' = {} /\ processedOco' = {}
      /\ lockedAmounts' = [id \in Ids |-> None]
      /\ stranded' = lockedCash /\ refused' = {} /\ registered' = orderLists
      /\ runs' = runs + 1 /\ bars' = 0 /\ warmedUp' = FALSE
      /\ UNCHANGED <<fillEvents, cash, lockedCash, position, overrun,
                     currentPrice, close>>
      /\ \/ step' = "next" /\ lifecycle' = EnterData(lifecycle)
         \/ step' = "last" /\ lifecycle' = lifecycle
  BY DEF StartRun, ClearLists
<1>2. fillEvents = <<>> /\ fillEvents' = <<>>
  BY <1>1 DEF EngineInv, PlaceInv
<1>3. /\ \A id \in Ids : sent'[id] = None
      /\ PriceInv'
  <2>1. CASE runs = 0
    <3>1. UNCHANGED <<inflight, engine, matches, sent, stored, history>>
      BY <1>1, <2>1 DEF vars, orders
    <3> QED BY <2>1, <3>1, PriceFrame DEF EngineInv, PlaceInv
  <2>2. CASE Reset
    <3>1. /\ inflight' = {} /\ engine' = {} /\ matches' = matches
          /\ sent' = [id \in Ids |-> None] /\ history' = [id \in Ids |-> <<>>]
          /\ stored' = [id \in Ids |-> None]
      BY <2>2 DEF Reset
    <3>2. matches = {} BY <2>2 DEF Reset, Open, IInv, WorkInv
    <3>3. \A id \in Ids : ~In(history'[id], {"Filled"}) BY <3>1 DEF In
    <3> QED BY <3>1, <3>2, <3>3 DEF PriceInv, AsSent
  <2> QED BY <1>1, <2>1, <2>2
<1>4. FundsInv'
  <2>1. /\ lockedAmounts' \in [Ids -> MaybeNat]
        /\ IsFiniteSet(AllUnits(lockedAmounts'))
        /\ Cardinality(AllUnits(lockedAmounts')) = 0
    BY <1>1, NothingLocked
  <2>2. /\ cash \in Int /\ lockedCash \in Nat
        /\ position \in [Instruments -> Nat] /\ overrun \in BOOLEAN
    BY DEF EngineInv, FundsInv, FundsType
  <2>3. FundsType' BY <1>1, <2>1, <2>2 DEF FundsType
  <2>4. LockedCashAccounted' /\ IsFiniteSet(AllUnits(lockedAmounts))'
    <3>1. lockedCash' = stranded' + Cardinality(AllUnits(lockedAmounts'))
      BY <1>1, <2>1, <2>2
    <3> QED BY <2>1, <3>1 DEF LockedCashAccounted, AllUnits
  <2>5. LocksCoverFills'
    BY <1>1 DEF EngineInv, FundsInv, LocksCoverFills
  <2> QED BY <1>1, <2>3, <2>4, <2>5 DEF FundsInv
<1>5. LocksFollowOrders'
  BY <1>1, <1>3 DEF LocksFollowOrders, BuyOrder
<1>6. NoteInv' BY <1>2 DEF NoteInv
<1>7. Settled(lifecycle) /\ lifecycle.state # "Historical"
  BY <1>1, SettledNow DEF EngineInv, LifeInv, LifecycleFollowsRuns
<1>8. /\ Settled(lifecycle') /\ lifecycle' \in Tracked
      /\ step' = "last" => lifecycle' = lifecycle
      /\ step' = "next" =>
           lifecycle'.state = IF lifecycle.state = "Configure" THEN "Historical"
                              ELSE lifecycle.state
  <2>1. CASE step' = "last" /\ lifecycle' = lifecycle
    BY <1>7, <2>1 DEF Settled
  <2>2. CASE step' = "next" /\ lifecycle' = EnterData(lifecycle)
    BY <1>7, <2>2, DataEntered DEF Settled
  <2> QED BY <1>1, <2>1, <2>2
<1>9. runs \in Nat /\ runs' \in Nat /\ runs' # 0 /\ (runs' = 1 => runs = 0)
  BY <1>1 DEF EngineInv, RestType
<1>10. LifeInv'
  <2>1. runs = 0 => lifecycle.state = "Configure"
    BY DEF EngineInv, LifeInv
  <2>2. CASE step' = "last"
    BY <1>1, <1>7, <1>8, <1>9, <2>2
    DEF Settled, LifeInv, LifecycleFollowsRuns, InData
  <2>3. CASE step' = "next"
    BY <1>1, <1>7, <1>8, <1>9, <2>1, <2>3
    DEF Settled, LifeInv, LifecycleFollowsRuns, InData
  <2> QED BY <1>1, <2>2, <2>3
<1>11. RestType'
  <2>1. registered' \subseteq ListIds BY <1>1 DEF EngineInv, RestType
  <2> QED BY <1>1, <1>2, <1>8, <1>9, <2>1 DEF EngineInv, RestType, Notices, Steps
<1>12. PlaceInv' BY <1>1, <1>2, <1>9 DEF PlaceInv
<1> QED BY <1>3, <1>4, <1>5, <1>6, <1>10, <1>11, <1>12 DEF EngineInv

LEMMA InitEngine == BacktestInit => IInv /\ EngineInv
<1> SUFFICES ASSUME BacktestInit PROVE IInv /\ EngineInv
  OBVIOUS
<1>1. Init /\ IInv BY InitInv DEF BacktestInit
<1>2. lifecycle = Initialized /\ Settled(lifecycle) /\ lifecycle.state = "Configure"
  <2> DEFINE r == Registered
             a == TransitionTo(r, "SetDefaults")
             b == TransitionTo(a, "Configure")
  <2>1. r \in Tracked /\ r.state = "Undefined" /\ ~r.firstData /\ ~r.warm
    BY DEF Registered, Tracked, States
  <2>2. "SetDefaults" \in States /\ "Configure" \in States BY DEF States
  <2> HIDE DEF r
  <2>3. a \in Tracked /\ a.state = "SetDefaults" /\ ~a.firstData /\ ~a.warm
    BY <2>1, <2>2, Table, Transitions
  <2> HIDE DEF a
  <2>4. b \in Tracked /\ b.state = "Configure" /\ b.current = "Configure"
        /\ ~b.firstData /\ ~b.warm
    BY <2>2, <2>3, Table, Transitions
  <2>5. lifecycle = b BY DEF BacktestInit, Initialized, a, r
  <2> HIDE DEF b
  <2> QED BY <2>4, <2>5 DEF Settled, BacktestInit
<1>3. LifeInv
  BY <1>2 DEF BacktestInit, Settled, LifeInv, LifecycleFollowsRuns, InData
<1>4. FundsInv
  <2>1. /\ lockedAmounts \in [Ids -> MaybeNat]
        /\ IsFiniteSet(AllUnits(lockedAmounts))
        /\ Cardinality(AllUnits(lockedAmounts)) = 0
    BY NothingLocked DEF BacktestInit
  <2>2. Capital \in Nat BY EngineAssumption
  <2>3. overrun \in BOOLEAN BY DEF BacktestInit
  <2>4. cash \in Int /\ lockedCash \in Nat /\ stranded \in Nat
        /\ position \in [Instruments -> Nat] /\ refused \subseteq Ids
    BY <2>2 DEF BacktestInit
  <2>5. FundsType BY <2>1, <2>3, <2>4 DEF FundsType
  <2>6. LockedCashAccounted BY <2>1 DEF BacktestInit, LockedCashAccounted
  <2>7. LocksCoverFills BY <2>2 DEF BacktestInit, LocksCoverFills
  <2> QED BY <2>1, <2>5, <2>6, <2>7 DEF FundsInv, BacktestInit
<1>5. PriceInv
  <2>1. \A id \in Ids : ~In(history[id], {"Filled"})
    BY <1>1 DEF Init, In
  <2> QED BY <1>1, <2>1 DEF PriceInv, AsSent, Init
<1>6. NoteInv BY DEF BacktestInit, NoteInv
<1>7. LocksFollowOrders
  BY <1>1 DEF BacktestInit, Init, LocksFollowOrders, BuyOrder
<1>8. RestType
  <2>1. warmedUp \in BOOLEAN BY DEF BacktestInit
  <2>2. orderToList \in [Ids -> ListIds \cup {None}]
        /\ currentPrice \in [Instruments -> Prices \cup {None}]
    BY DEF BacktestInit
  <2>3. step \in Steps BY DEF BacktestInit, Steps
  <2>4. <<>> \in Seq(Notice) OBVIOUS
  <2>5. Notices BY <2>4 DEF BacktestInit, Notices
  <2> QED
    BY <1>2, <2>1, <2>2, <2>3, <2>5 DEF BacktestInit, RestType, Settled
<1>9. PlaceInv BY <1>1 DEF BacktestInit, Init, PlaceInv
<1> QED BY <1>1, <1>3, <1>4, <1>5, <1>6, <1>7, <1>8, <1>9 DEF EngineInv

LEMMA MatchesCollected ==
  ASSUME BarMatches
  PROVE  \E last, leaves : DataCalls(last, leaves) /\ Collect(last, leaves)
BY DEF BarMatches, DataCalls

LEMMA NextEngine == IInv /\ EngineInv /\ [BacktestNext]_bvars => IInv' /\ EngineInv'
<1> SUFFICES ASSUME IInv, EngineInv, [BacktestNext]_bvars
             PROVE  IInv' /\ EngineInv'
  OBVIOUS
<1>1. IInv' BY ExchangeStep, NextInv
<1>2. CASE BarCommands
  BY <1>1, <1>2, CollectStep DEF BarCommands
<1>3. CASE BarMatches
  BY <1>1, <1>3, MatchesCollected, CollectStep DEF BarMatches
<1> QED
  BY <1>1, <1>2, <1>3, StartRunStep, NextBarStep, HandleEventStep,
     StrategySeesBarStep, SubmitsOrder, CancelStep, EndBarStep, FlushStep,
     EndRunStep, RegisterStep, RunBarStep, StutterStep
  DEF BacktestNext

LEMMA AlwaysEngineInv == BacktestSpec => [](IInv /\ EngineInv)
BY InitEngine, NextEngine, PTL DEF BacktestSpec

-----------------------------------------------------------------------------
(* The positions.                                                          *)

Total(i, s) == Cardinality(AllUnits(Traded(i, s)))

\* What was traded can be counted, and only a fill that was handled is refused.
PositionInv ==
  /\ held \in [Instruments -> Nat]
  /\ \A i \in Instruments, s \in {"Buy", "Sell"} :
       IsFiniteSet(AllUnits(Traded(i, s)))
  /\ \A id \in refused : FillHandled(id)
  /\ \A i \in Instruments :
       position[i] + Total(i, "Sell") = held[i] + Total(i, "Buy")

LEMMA HandledSent ==
  ASSUME IInv, NEW id \in Ids, FillHandled(id)
  PROVE  sent[id] # None /\ sent[id] \in Request /\ In(history[id], Terminal)
<1>1. In(history[id], {"Filled"}) BY DEF FillHandled, Has, In
<1>2. history[id] # <<>> /\ In(history[id], Terminal)
  BY <1>1 DEF In, Terminal
<1>3. sent[id] # None BY <1>2 DEF IInv, SentInv
<1>4. sent[id] \in Requests \cup {None} BY DEF IInv, TypeOK
<1> QED BY <1>2, <1>3, <1>4, ExchangeAssumption

LEMMA HandledSentNext ==
  ASSUME IInv', NEW id \in Ids, FillHandled(id)'
  PROVE  sent'[id] \in Request
<1>1. In(history'[id], {"Filled"}) BY DEF FillHandled, Has, In
<1>2. history'[id] # <<>> BY <1>1 DEF In
<1>3. sent'[id] # None BY <1>2 DEF IInv, SentInv
<1>4. sent'[id] \in Requests \cup {None} BY DEF IInv, TypeOK
<1> QED BY <1>3, <1>4, ExchangeAssumption

LEMMA TradedType ==
  ASSUME IInv, NEW i, NEW s
  PROVE  Traded(i, s) \in [Ids -> MaybeNat]
<1>1. ASSUME NEW id \in Ids, Executed(id)
      PROVE  sent[id].qty \in MaybeNat
  <2>1. sent[id] \in Request BY <1>1, HandledSent DEF Executed
  <2> QED BY <2>1 DEF Request, Positive, MaybeNat
<1> QED BY <1>1 DEF Traded, MaybeNat

\* A step that handles no fill changes no position.
LEMMA PositionFrame ==
  ASSUME PositionInv, UNCHANGED <<position, held, refused>>, refused \subseteq Ids,
         \A id \in Ids : FillHandled(id)' <=> FillHandled(id),
         \A id \in Ids : FillHandled(id) => sent'[id] = sent[id]
  PROVE  PositionInv'
<1>1. \A id \in Ids : Executed(id)' <=> Executed(id) BY DEF Executed
<1>2. ASSUME NEW i, NEW s
      PROVE  Traded(i, s)' = Traded(i, s)
  BY <1>1 DEF Traded, Executed
<1>3. \A i, s : /\ Total(i, s)' = Total(i, s)
                /\ AllUnits(Traded(i, s))' = AllUnits(Traded(i, s))
  BY <1>2 DEF Total, AllUnits
<1> QED BY <1>3 DEF PositionInv

\* Nothing was carried out.
LEMMA NothingTraded ==
  ASSUME \A id \in Ids : ~FillHandled(id), NEW i, NEW s
  PROVE  IsFiniteSet(AllUnits(Traded(i, s))) /\ Total(i, s) = 0
<1>1. Traded(i, s) = [id \in Ids |-> None] BY DEF Traded, Executed
<1> QED BY <1>1, NothingLocked DEF Total

\* The order id is carried out.
LEMMA TradeAdded ==
  ASSUME IInv, IInv', sent' = sent, NEW id \in Ids, ~Executed(id), Executed(id)',
         \A j \in Ids \ {id} : Executed(j)' <=> Executed(j),
         NEW i, NEW s, IsFiniteSet(AllUnits(Traded(i, s)))
  PROVE  /\ IsFiniteSet(AllUnits(Traded(i, s)))'
         /\ Total(i, s) \in Nat
         /\ Total(i, s)' = IF sent[id].inst = i /\ sent[id].side = s
                           THEN Total(i, s) + sent[id].qty ELSE Total(i, s)
<1> DEFINE v == IF sent[id].inst = i /\ sent[id].side = s THEN sent[id].qty ELSE None
           l == Traded(i, s)
           k == [l EXCEPT ![id] = v]
<1>1. l \in [Ids -> MaybeNat] BY TradedType
<1>2. sent[id].qty \in Nat
  <2>1. sent'[id] \in Request BY HandledSentNext DEF Executed
  <2> QED BY <2>1 DEF Request, Positive
<1>3. v \in MaybeNat BY <1>2 DEF MaybeNat
<1>4. l[id] = None BY DEF Traded
<1>5. Traded(i, s)' = k
  <2>1. Traded(i, s)' = [j \in Ids |-> IF j = id THEN v ELSE l[j]]
    BY DEF Traded
  <2> QED BY <1>1, <2>1
<1>0. k = [l EXCEPT ![id] = v] OBVIOUS
<1> HIDE DEF v, l, k
<1>6. /\ IsFiniteSet(AllUnits(k))
      /\ Cardinality(AllUnits(k)) + AmountOf(l[id])
           = Cardinality(AllUnits(l)) + AmountOf(v)
      /\ Cardinality(AllUnits(l)) \in Nat /\ Cardinality(AllUnits(k)) \in Nat
  <2>1. IsFiniteSet(AllUnits(l)) BY DEF l
  <2> QED BY <1>0, <1>1, <1>3, <2>1, AmountChange
<1>7. AmountOf(l[id]) = 0 BY <1>4 DEF AmountOf
<1>8. AmountOf(v) = IF sent[id].inst = i /\ sent[id].side = s
                    THEN sent[id].qty ELSE 0
  BY <1>2, NoneApart DEF AmountOf, v
<1>9. AmountOf(v) \in Nat BY <1>2, <1>8
<1>10. Cardinality(AllUnits(k)) = Cardinality(AllUnits(l)) + AmountOf(v)
  BY <1>6, <1>7, <1>9
<1>11. /\ Total(i, s) = Cardinality(AllUnits(l))
       /\ Total(i, s)' = Cardinality(AllUnits(k))
       /\ IsFiniteSet(AllUnits(Traded(i, s)))'
  BY <1>5, <1>6 DEF Total, AllUnits, l
<1> QED BY <1>2, <1>6, <1>8, <1>10, <1>11

\* An event that is collected is not handled yet.
LEMMA CollectedNotHandled ==
  ASSUME IInv, Notices, NEW last, NEW leaves, Collect(last, leaves),
         Quiet \/ \E id \in Ids, e \in Events : Noted(id, e, last, leaves),
         NEW i \in Ids
  PROVE  FillHandled(i)' <=> FillHandled(i)
<1>1. CASE Quiet
  BY <1>1, Collected DEF Quiet, FillHandled, Has, Waiting
<1>2. ASSUME NEW id \in Ids, NEW e \in Events, Tells(id, e),
             last \in Nat, leaves \in Nat
      PROVE  FillHandled(i)' <=> FillHandled(i)
  <2>1. fillEvents' = Append(fillEvents, Note(id, e, last, leaves))
    BY <1>2, Collected DEF Tells
  <2>2. Waiting(i, {"Filled"})' <=> Waiting(i, {"Filled"}) \/ (i = id /\ e = "Filled")
    BY <1>2, <2>1, NewNotice
  <2>3. /\ history[id] \in Seq(Events) /\ history'[id] = Append(history[id], e)
        /\ \A j \in Ids \ {id} : history'[j] = history[j]
    BY <1>2 DEF IInv, TypeOK, Tells, Report
  <2>4. In(history'[i], {"Filled"}) <=> In(history[i], {"Filled"}) \/ (i = id /\ e = "Filled")
    BY <2>3, AppendedIn
  <2>5. i = id /\ e = "Filled" => ~FillHandled(i)
    <3>1. e = "Filled" => Pending(id) BY <1>2 DEF Tells, Terminal
    <3> QED BY <3>1, HandledSent, EndedNotPending
  <2>6. /\ FillHandled(i) <=> In(history[i], {"Filled"}) /\ ~Waiting(i, {"Filled"})
        /\ FillHandled(i)' <=> In(history'[i], {"Filled"}) /\ ~Waiting(i, {"Filled"})'
    BY DEF FillHandled, Has, In
  <2> QED BY <2>2, <2>4, <2>5, <2>6
<1> QED BY <1>1, <1>2 DEF Noted

LEMMA PositionsFlushed ==
  ASSUME IInv, EngineInv, PositionInv, Flush
  PROVE  PositionInv'
<1>1. /\ CommandCalls
      /\ UNCHANGED <<fillEvents, position, held, refused>>
  BY DEF Flush, funds, loop
<1>2. sent' = sent
      /\ (Quiet \/ \E id \in Ids, e \in Events \ {"Filled"} : Tells(id, e))
  BY <1>1, CommandEffects DEF EngineInv
<1>3. \A i \in Ids : In(history'[i], {"Filled"}) <=> In(history[i], {"Filled"})
  <2>1. CASE Quiet BY <2>1 DEF Quiet
  <2>2. ASSUME NEW id \in Ids, NEW e \in Events \ {"Filled"}, Tells(id, e), NEW i \in Ids
        PROVE  In(history'[i], {"Filled"}) <=> In(history[i], {"Filled"})
    <3>1. /\ history[id] \in Seq(Events) /\ history'[id] = Append(history[id], e)
          /\ \A j \in Ids \ {id} : history'[j] = history[j]
      BY <2>2 DEF IInv, TypeOK, Tells, Report
    <3> QED BY <3>1, AppendedIn
  <2> QED BY <1>2, <2>1, <2>2
<1>4. \A i \in Ids : FillHandled(i)' <=> FillHandled(i)
  BY <1>1, <1>3 DEF FillHandled, Has, In, Waiting
<1> QED BY <1>1, <1>2, <1>4, PositionFrame DEF EngineInv, FundsInv, FundsType

LEMMA PositionsHandled ==
  ASSUME IInv, IInv', EngineInv, PositionInv, HandleEvent
  PROVE  PositionInv'
<1>1. /\ fillEvents # <<>> /\ fillEvents' = Tail(fillEvents)
      /\ UNCHANGED <<sent, history, held>>
  BY DEF HandleEvent, loop, vars, orders
<1>2. PICK e : e = Head(fillEvents) OBVIOUS
<1>3. HandleFunds(e) BY <1>2 DEF HandleEvent
<1>4. /\ e \in Notice /\ In(history[e.id], {e.kind})
      /\ e.kind = "Filled" => Whole(e.id, e.last, e.leaves)
      /\ e.kind \in Terminal => ~Waiting(e.id, Ending)'
      /\ \A i, K : Waiting(i, K) <=> Waiting(i, K)' \/ (i = e.id /\ e.kind \in K)
  BY <1>1, <1>2, HandledNotice DEF EngineInv, RestType
<1>5. e.id \in Ids /\ refused \subseteq Ids
      /\ position \in [Instruments -> Nat]
  BY <1>4 DEF Notice, EngineInv, FundsInv, FundsType
<1>6. \A i \in Ids : /\ FillHandled(i) <=> In(history[i], {"Filled"}) /\ ~Waiting(i, {"Filled"})
                     /\ FillHandled(i)' <=> In(history[i], {"Filled"}) /\ ~Waiting(i, {"Filled"})'
  BY <1>1 DEF FillHandled, Has, In
<1>7. \A i \in Ids : i # e.id \/ e.kind # "Filled" => (FillHandled(i)' <=> FillHandled(i))
  BY <1>4, <1>6
<1>8. CASE e.kind # "Filled"
  <2>1. UNCHANGED <<position, refused>>
    BY <1>3, <1>8 DEF HandleFunds, UnlockEvent, funds
  <2> QED BY <1>1, <1>5, <1>7, <1>8, <2>1, PositionFrame
<1>9. CASE e.kind = "Filled"
  <2> DEFINE r == sent[e.id]
  <2>1. ~FillHandled(e.id) /\ FillHandled(e.id)'
    <3>1. Waiting(e.id, {"Filled"}) BY <1>4, <1>9
    <3>2. ~Waiting(e.id, {"Filled"})'
      BY <1>4, <1>9 DEF Waiting, Ending, Terminal
    <3> QED BY <1>4, <1>5, <1>6, <1>9, <3>1, <3>2
  <2>2. e.id \notin refused BY <2>1 DEF PositionInv
  <2>3. r \in Request /\ r.side \in {"Buy", "Sell"} /\ r.qty \in Nat
        /\ r.inst \in Instruments
    <3>1. sent'[e.id] \in Request BY <1>5, <2>1, HandledSentNext
    <3> QED BY <1>1, <3>1 DEF Request, Positive
  <2>4. \/ position' = position /\ refused' = refused \cup {e.id}
        \/ /\ r.side = "Buy" /\ refused' = refused
           /\ position' = [position EXCEPT ![r.inst] = @ + r.qty]
        \/ /\ r.side # "Buy" /\ refused' = refused
           /\ position' = [position EXCEPT ![r.inst] = @ - r.qty]
    <3>1. e.last = r.qty BY <1>4, <1>9 DEF Whole
    <3> QED
      BY <1>3, <1>9, <3>1 DEF HandleFunds, FillEvent, ExecuteBuy, ExecuteSell
  <2>5. \A id \in refused' : FillHandled(id)'
    BY <1>5, <1>7, <2>1, <2>4 DEF PositionInv
  <2>6. CASE position' = position /\ refused' = refused \cup {e.id}
    <3>1. \A id \in Ids : Executed(id)' <=> Executed(id)
      BY <1>7, <2>1, <2>6 DEF Executed
    <3>2. ASSUME NEW i, NEW s
          PROVE  Traded(i, s)' = Traded(i, s)
      BY <1>1, <3>1 DEF Traded
    <3>3. \A i, s : /\ Total(i, s)' = Total(i, s)
                    /\ AllUnits(Traded(i, s))' = AllUnits(Traded(i, s))
      BY <3>2 DEF Total, AllUnits
    <3> QED BY <1>1, <2>5, <2>6, <3>3 DEF PositionInv
  <2>7. CASE refused' = refused
    <3>1. ~Executed(e.id) /\ Executed(e.id)'
          /\ \A j \in Ids \ {e.id} : Executed(j)' <=> Executed(j)
      BY <1>7, <2>1, <2>2, <2>7 DEF Executed
    <3>2. ASSUME NEW i \in Instruments, NEW s \in {"Buy", "Sell"}
          PROVE  /\ IsFiniteSet(AllUnits(Traded(i, s)))'
                 /\ Total(i, s) \in Nat
                 /\ Total(i, s)' = IF r.inst = i /\ r.side = s
                                   THEN Total(i, s) + r.qty ELSE Total(i, s)
      <4>1. IsFiniteSet(AllUnits(Traded(i, s))) BY DEF PositionInv
      <4> QED BY <1>1, <1>5, <3>1, <4>1, TradeAdded
    <3>3. \A i \in Instruments :
            position'[i] = IF i # r.inst THEN position[i]
                           ELSE IF r.side = "Buy" THEN position[i] + r.qty
                           ELSE position[i] - r.qty
      <4>1. refused' # refused \cup {e.id} BY <2>2, <2>7
      <4> QED BY <1>5, <2>3, <2>4, <4>1
    <3>4. ASSUME NEW i \in Instruments
          PROVE  position'[i] + Total(i, "Sell")' = held[i] + Total(i, "Buy")'
      <4>1. position[i] \in Nat /\ held[i] \in Nat /\ r.qty \in Nat
        BY <1>5, <2>3 DEF PositionInv
      <4>2. position[i] + Total(i, "Sell") = held[i] + Total(i, "Buy")
        BY DEF PositionInv
      <4>3. /\ Total(i, "Sell") \in Nat /\ Total(i, "Buy") \in Nat
            /\ Total(i, "Sell")' = IF r.inst = i /\ r.side = "Sell"
                                   THEN Total(i, "Sell") + r.qty ELSE Total(i, "Sell")
            /\ Total(i, "Buy")' = IF r.inst = i /\ r.side = "Buy"
                                  THEN Total(i, "Buy") + r.qty ELSE Total(i, "Buy")
        BY <3>2
      <4> QED BY <2>3, <3>3, <4>1, <4>2, <4>3
    <3> QED BY <1>1, <2>5, <3>2, <3>4 DEF PositionInv
  <2> QED BY <2>4, <2>6, <2>7
<1> QED BY <1>8, <1>9

LEMMA PositionsStart ==
  ASSUME IInv, EngineInv, StartRun
  PROVE  PositionInv'
<1>1. /\ held' = position /\ position' = position /\ refused' = {}
      /\ IF runs = 0 THEN UNCHANGED vars ELSE Reset
  BY DEF StartRun
<1>2. \A id \in Ids : history'[id] = <<>>
  <2>1. CASE runs = 0
    <3>1. history' = history BY <1>1, <2>1 DEF vars, orders
    <3> QED BY <2>1, <3>1 DEF EngineInv, PlaceInv, IInv, SentInv
  <2>2. CASE Reset BY <2>2 DEF Reset
  <2> QED BY <1>1, <2>1, <2>2
<1>3. \A id \in Ids : ~FillHandled(id)'
  BY <1>2 DEF FillHandled, Has
<1>4. ASSUME NEW i, NEW s
      PROVE  IsFiniteSet(AllUnits(Traded(i, s)))' /\ Total(i, s)' = 0
  <2>1. Traded(i, s)' = [id \in Ids |-> None] BY <1>3 DEF Traded, Executed
  <2>2. PICK l : l = [id \in Ids |-> None] OBVIOUS
  <2>3. IsFiniteSet(AllUnits(l)) /\ Cardinality(AllUnits(l)) = 0
    BY <2>2, NothingLocked
  <2> QED BY <2>1, <2>2, <2>3 DEF Total, AllUnits
<1>5. position \in [Instruments -> Nat]
  BY DEF EngineInv, FundsInv, FundsType
<1>6. \A i \in Instruments :
        position'[i] + Total(i, "Sell")' = held'[i] + Total(i, "Buy")'
  BY <1>1, <1>4, <1>5
<1> QED BY <1>1, <1>4, <1>5, <1>6 DEF PositionInv

LEMMA PositionsInit == BacktestInit => PositionInv
<1> SUFFICES ASSUME BacktestInit PROVE PositionInv
  OBVIOUS
<1>1. \A id \in Ids : ~FillHandled(id)
  BY DEF BacktestInit, Init, FillHandled, Has
<1>2. \A i, s : IsFiniteSet(AllUnits(Traded(i, s))) /\ Total(i, s) = 0
  BY <1>1, NothingTraded
<1>3. position = [i \in Instruments |-> 0] /\ held = position /\ refused = {}
  BY DEF BacktestInit
<1> QED BY <1>2, <1>3 DEF PositionInv

LEMMA NextPositions ==
  ASSUME IInv, IInv', EngineInv, PositionInv, [BacktestNext]_bvars
  PROVE  PositionInv'
<1>1. refused \subseteq Ids BY DEF EngineInv, FundsInv, FundsType
<1>2. ASSUME UNCHANGED <<position, held, refused, sent, history, fillEvents>>
      PROVE  PositionInv'
  <2>1. \A id \in Ids : FillHandled(id)' <=> FillHandled(id)
    BY <1>2 DEF FillHandled, Has, Waiting
  <2> QED BY <1>1, <1>2, <2>1, PositionFrame
<1>3. ASSUME NEW l \in ListIds, Register(l)
      PROVE  PositionInv'
  BY <1>2, <1>3 DEF Register, funds, loop, vars, orders
<1>4. ASSUME \/ NextBar \/ EndBar \/ LastTime \/ StrategySeesBar \/ EndRun
             \/ UNCHANGED bvars
      PROVE  PositionInv'
  BY <1>2, <1>4
  DEF NextBar, EndBar, LastTime, StrategySeesBar, EndRun, AdvanceTime, bvars,
      funds, loop, vars, orders
<1>5. ASSUME NEW inst \in Instruments, RunBar(inst)
      PROVE  PositionInv'
  BY <1>2, <1>5 DEF RunBar, MarketData, funds, loop
<1>6. CASE BarCommands \/ BarMatches
  <2>0. PICK last, leaves :
          /\ Collect(last, leaves)
          /\ \/ CommandCalls /\ last = 0 /\ leaves = 0
             \/ DataCalls(last, leaves)
    BY <1>6, MatchesCollected DEF BarCommands
  <2>1. UNCHANGED <<position, held, refused>>
    BY <1>6 DEF BarCommands, BarMatches, funds, loop
  <2>2. /\ sent' = sent
        /\ Quiet \/ \E id \in Ids, e \in Events : Noted(id, e, last, leaves)
    BY <2>0, CollectedTold DEF EngineInv
  <2>3. \A i \in Ids : FillHandled(i)' <=> FillHandled(i)
    BY <2>0, <2>2, CollectedNotHandled DEF EngineInv, RestType
  <2> QED BY <1>1, <2>1, <2>2, <2>3, PositionFrame
<1>7. CASE Submit
  <2>1. PICK id \in Ids : sent[id] = None /\ SubmitOrder(id) /\ LockFunds(id, sent'[id])
    BY <1>7 DEF Submit
  <2>2. PICK r \in Requests, latency \in InsertLatencies :
          Push("submit", id, NoChange, latency) /\ sent' = [sent EXCEPT ![id] = r]
    BY <2>1 DEF SubmitOrder
  <2>3. /\ history' = history
        /\ UNCHANGED <<position, held, refused, fillEvents>>
    BY <1>7, <2>1, <2>2 DEF Submit, Push, LockFunds, funds, loop
  <2>4. \A i \in Ids : FillHandled(i)' <=> FillHandled(i)
    BY <2>3 DEF FillHandled, Has, Waiting
  <2>5. \A i \in Ids : FillHandled(i) => sent'[i] = sent[i]
    <3>1. ~FillHandled(id) BY <2>1, HandledSent
    <3>2. sent \in [Ids -> Requests \cup {None}] BY DEF IInv, TypeOK
    <3> QED BY <2>2, <3>1, <3>2
  <2> QED BY <1>1, <2>3, <2>4, <2>5, PositionFrame
<1>8. CASE Cancel
  BY <1>2, <1>8 DEF Cancel, CancelOrder, Push, funds, loop
<1> QED
  BY <1>3, <1>4, <1>5, <1>6, <1>7, <1>8, PositionsStart, PositionsFlushed,
     PositionsHandled
  DEF BacktestNext

LEMMA AlwaysPositionInv == BacktestSpec => [](IInv /\ EngineInv /\ PositionInv)
<1> DEFINE Inv == IInv /\ EngineInv /\ PositionInv
<1>1. BacktestInit => Inv BY InitEngine, PositionsInit
<1>2. Inv /\ [BacktestNext]_bvars => Inv'
  BY NextEngine, NextPositions
<1> QED BY <1>1, <1>2, PTL DEF BacktestSpec

-----------------------------------------------------------------------------
(* Theorems.                                                               *)

\* run_with_exchange and the portfolio keep their types in every backtest:
\* no position ever goes negative, and nothing is locked below zero.
THEOREM EngineTypeCorrect == BacktestSpec => []BacktestTypeOK
<1>1. EngineInv /\ PositionInv => BacktestTypeOK
  BY TypeParts DEF EngineInv, FundsInv, PositionInv
<1> QED BY <1>1, AlwaysPositionInv, PTL

\* The portfolio's locked cash is the sum of what submit_order locked for the
\* orders of the run and handle_order_event has not yet released, and of what
\* earlier runs left locked: no path releases an order's funds twice.
THEOREM LockedCashAlwaysAccounted == BacktestSpec => []LockedCashAccounted
<1>1. EngineInv => LockedCashAccounted
  BY DEF EngineInv, FundsInv
<1> QED BY <1>1, AlwaysEngineInv, PTL

\* A buy order that can still fill has its funds locked, whatever commands,
\* bars and events come in between, and only an order that expired, or whose
\* end the engine did not look at, keeps funds it cannot use.
THEOREM LocksAlwaysFollow == BacktestSpec => []LocksFollowOrders
<1>1. EngineInv => LocksFollowOrders
  BY DEF EngineInv
<1> QED BY <1>1, AlwaysEngineInv, PTL

\* execute_buy_with_locked_funds: while every fill cost at most what was
\* locked for it, the cash covers the locked funds and no buy is refused.
THEOREM LocksAlwaysCover == BacktestSpec => []LocksCoverFills
<1>1. EngineInv => LocksCoverFills
  BY DEF EngineInv, FundsInv
<1> QED BY <1>1, AlwaysEngineInv, PTL

\* handle_order_event: in every instrument the portfolio's position is what it
\* was when the run began and what the exchange has filled since. No fill is
\* carried out twice or in part, and none is lost between process_bar and the
\* portfolio, however many bars, commands and runs there are.
THEOREM PositionsAlwaysFollow == BacktestSpec => []PositionsFollowFills
<1>1. PositionInv => PositionsFollowFills
  BY DEF PositionInv, PositionsFollowFills, Total
<1> QED BY <1>1, AlwaysPositionInv, PTL

\* run_with_exchange clears the contingent manager when it starts, so that the
\* manager answers no event of any run: that is why HandleEvent carries nothing
\* out. (The documentation of register_order_list and of run_with_exchange says
\* otherwise: ListsActOnFills.)
NoContingentAnswer ==
  step # "idle" =>
    \A id \in Ids, kind \in Events : Answer(kind, id) = {}

THEOREM NeverContingent == BacktestSpec => []NoContingentAnswer
<1>1. EngineInv => NoContingentAnswer
  <2> SUFFICES ASSUME EngineInv, step # "idle", NEW id \in Ids, NEW kind \in Events
               PROVE  Answer(kind, id) = {}
    BY DEF NoContingentAnswer
  <2>1. ~IsOco(id) /\ ~IsOto(id)
    BY NothingListed DEF EngineInv, PlaceInv
  <2> QED
    BY <2>1 DEF Answer, ActionsOnFilled, ActionsOnCanceled, TriggersChildren, Sweeps
<1> QED BY <1>1, AlwaysEngineInv, PTL

\* The engine's calls of the coordinator, in every order the runs allow, leave a
\* strategy's lifecycle as LifecycleFollowsRuns says.
THEOREM LifecycleAlwaysFollows == BacktestSpec => []LifecycleFollowsRuns
<1>1. EngineInv => LifecycleFollowsRuns
  BY DEF EngineInv, LifeInv
<1> QED BY <1>1, AlwaysEngineInv, PTL

=============================================================================
