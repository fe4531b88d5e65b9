----------------------- MODULE ContingentExchangeProofs -----------------------
(***************************************************************************)
(* Proofs about ContingentExchange for every value of its constants: the   *)
(* manager's commands reach the exchange through its calls only, so that   *)
(* what is proved of the exchange holds here; and what the manager         *)
(* promises of brackets and OCO lists.                                     *)
(***************************************************************************)
EXTENDS ContingentExchange, SimulatedExchangeProofs

(***************************************************************************)
(* The invariant.                                                          *)
(***************************************************************************)

\* The two maps agree, and only registered lists are flagged.
ListsInv ==
  /\ \A l \in orderLists : \A id \in Members(l) : orderToList[id] = l
  /\ \A id \in Ids : orderToList[id] # None =>
       orderToList[id] \in orderLists /\ id \in Members(orderToList[id])
  /\ submittedChildren \subseteq orderLists /\ processedOco \subseteq orderLists

\* A waiting event was reported.
NoteInv == \A i \in DOMAIN events : In(history[events[i].id], {events[i].kind})

\* The children of a list are submitted if and only if its flag is set, after
\* the fill of the entry order.
Placed(id) == sent[id] # None \/ InTodo("submit", id)
ChildInv ==
  /\ ChildrenWaitForEntry /\ EntryFillSubmitsChildren
  /\ \A l \in orderLists : \A id \in Children(l) :
       Placed(id) => l \in submittedChildren
  /\ \A l \in submittedChildren :
       /\ ListOf[l].type = "OTO" /\ Has(ListOf[l].entry, {"Filled"})
       /\ \A id \in Children(l) : Placed(id)

\* Commands in flight: nothing is modified, a submission arrives as late as
\* the slowest latency allows, and before any cancel of its order.
Precedes(c, d) ==
  c.kind = "submit" /\ d.kind = "cancel" /\ c.id = d.id
    => c.at <= d.at /\ c.seq < d.seq
TravelInv ==
  /\ \A c \in inflight : c.kind # "modify" /\ c.seq < count
  /\ \A c \in inflight : c.kind = "submit" =>
       \E latency \in InsertLatencies : c.at <= now + latency
  /\ CancelsTrail => \A c, d \in inflight : Precedes(c, d)

\* Once the end of one order of a group was handled, the list is flagged, and
\* every order of the group has ended or has its cancel on the way.
Gone(id) == stored[id] = None /\ sent[id] # None /\ ~InFlight(id)
Doomed(id) == CancelComing(id) \/ Gone(id)
SweepInv ==
  /\ \A l \in orderLists : \A id, other \in Group(l) :
       id # other /\ Ends(l, id) => l \in processedOco
  /\ CancelsTrail => \A l \in processedOco : \A id \in Group(l) : Doomed(id)
  /\ NoEcho

CInv == /\ ManagerTypeOK /\ ListsInv /\ NoteInv /\ ChildInv /\ TravelInv
        /\ SweepInv

-----------------------------------------------------------------------------
(* What a call of the exchange does to the orders and to what is on its    *)
(* way.                                                                    *)

\* An order that has ended is gone.
LEMMA EndedIsGone ==
  ASSUME IInv, NEW id \in Ids, In(history[id], Terminal)
  PROVE  Gone(id)
<1>1. stored[id] = None BY StoredFacts
<1>2. ~InFlight(id)
  <2> SUFFICES ASSUME NEW c \in inflight, c.kind = "submit", c.id = id
               PROVE  FALSE
    BY DEF InFlight
  <2> QED BY PendingNotStored DEF In
<1>3. sent[id] # None
  <2>1. history[id] # <<>> BY DEF In
  <2> QED BY <2>1 DEF IInv, SentInv
<1> QED BY <1>1, <1>2, <1>3 DEF Gone

Told1 == history' = history \/ \E id \in Ids, e \in Events : Report(id, e)

\* Calls that only take from the commands in flight: what is gone stays gone.
Works ==
  /\ now' = now /\ count' = count /\ sent' = sent /\ inflight' \subseteq inflight
  /\ Told1
  /\ \A id \in Ids : Gone(id) => stored'[id] = None

LEMMA CommandWorks ==
  ASSUME IInv, TravelInv, NEW c \in inflight, ProcessCommand(c)
  PROVE  Works /\ inflight' = inflight \ {c} /\ Earliest(c)
<1>1. /\ c.kind # "modify" /\ c.id \in Ids
      /\ stored \in [Ids -> Stored \cup {None}]
  BY CommandFacts DEF TravelInv, IInv, TypeOK
<1>2. /\ now' = now /\ count' = count /\ sent' = sent
      /\ inflight' = inflight \ {c} /\ Earliest(c)
  BY DEF ProcessCommand, RejectSubmit, AcceptSubmit, CancelWorking,
         CancelUnknown, RejectModify, AcceptModify, Take
<1>3. c.kind = "submit" => ~Gone(c.id)
  BY DEF Gone, InFlight
<1>4. CASE RejectSubmit(c)
  BY <1>1, <1>2, <1>4 DEF RejectSubmit, Works, Told1, Gone, Events
<1>5. CASE AcceptSubmit(c)
  <2>1. c.kind = "submit" BY <1>5 DEF AcceptSubmit, Take
  <2>2. \A i \in Ids \ {c.id} : stored'[i] = stored[i]
    BY <1>1, <1>5 DEF AcceptSubmit
  <2>3. Report(c.id, "Accepted") BY <1>5 DEF AcceptSubmit
  <2> QED BY <1>1, <1>2, <1>3, <2>1, <2>2, <2>3 DEF Works, Told1, Gone, Events
<1>6. CASE CancelWorking(c)
  <2>1. stored' = [stored EXCEPT ![c.id] = None] /\ Report(c.id, "Canceled")
    BY <1>6 DEF CancelWorking
  <2> QED BY <1>1, <1>2, <2>1 DEF Works, Told1, Gone, Events
<1>7. CASE CancelUnknown(c)
  BY <1>1, <1>2, <1>7 DEF CancelUnknown, Works, Told1, Gone
<1> QED
  BY <1>1, <1>2, <1>4, <1>5, <1>6, <1>7
  DEF ProcessCommand, RejectModify, AcceptModify, Take

LEMMA CallWorks ==
  ASSUME IInv, TravelInv, RunCommands \/ RunData \/ \E i \in Instruments : ProcessBar(i)
  PROVE  Works
<1>0. stored \in [Ids -> Stored \cup {None}] BY DEF IInv, TypeOK
<1>1. CASE StartCommands \/ EndCommands \/ EndData
  BY <1>1 DEF StartCommands, EndCommands, EndData, orders, Works, Told1, Gone
<1>2. ASSUME NEW c \in inflight, ProcessCommand(c) PROVE Works
  BY <1>2, CommandWorks
<1>3. ASSUME NEW x \in matches, ProcessMatch(x) PROVE Works
  <2>1. x.id \in Ids BY DEF IInv, TypeOK
  <2>2. now' = now /\ count' = count /\ sent' = sent /\ inflight' = inflight
    BY <1>3 DEF ProcessMatch
  <2>3. Told1 BY <1>3, <2>1 DEF ProcessMatch, Told1, Events
  <2>4. \A id \in Ids : stored[id] = None => stored'[id] = None
    BY <1>0, <1>3, <2>1 DEF ProcessMatch
  <2> QED BY <2>2, <2>3, <2>4 DEF Works, Gone
<1>4. ASSUME NEW id \in Ids, ExpireOrder(id) PROVE Works
  <2>1. /\ now' = now /\ count' = count /\ sent' = sent /\ inflight' = inflight
        /\ Report(id, "Expired") /\ stored' = [stored EXCEPT ![id] = None]
    BY <1>4 DEF ExpireOrder
  <2> QED BY <1>0, <2>1 DEF Works, Told1, Gone, Events
<1>5. ASSUME NEW i \in Instruments, ProcessBar(i) PROVE Works
  BY <1>5 DEF ProcessBar, MarketData, Works, Told1, Gone
<1> QED BY <1>1, <1>2, <1>3, <1>4, <1>5 DEF RunCommands, RunData

\* A cancel that arrives leaves its order gone: the submission is not still
\* on its way.
LEMMA CancelArrives ==
  ASSUME IInv, TravelInv, CancelsTrail, NEW c \in inflight, ProcessCommand(c),
         c.kind = "cancel"
  PROVE  Gone(c.id)'
<1>1. Works /\ inflight' = inflight \ {c} /\ Earliest(c) BY CommandWorks
<1>2. /\ c \in Command /\ c.id \in Ids /\ sent[c.id] # None
      /\ stored \in [Ids -> Stored \cup {None}] /\ now \in Nat
  BY CommandFacts DEF IInv, TypeOK
<1>3. stored'[c.id] = None
  BY <1>2 DEF ProcessCommand, RejectSubmit, AcceptSubmit, CancelWorking,
              CancelUnknown, RejectModify, AcceptModify, Take
<1>4. ASSUME NEW d \in inflight, d.kind = "submit", d.id = c.id PROVE FALSE
  <2>1. d.at <= c.at /\ d.seq < c.seq
    BY <1>4 DEF TravelInv, Precedes
  <2>2. d \in Command BY CommandFacts
  <2>3. d.at \in Nat /\ c.at \in Nat /\ d.seq \in Nat /\ c.seq \in Nat
    BY <1>2, <2>2 DEF Command
  <2>4. d \in Ready
    <3>1. c.at <= now BY <1>1 DEF Earliest, Ready
    <3> QED BY <1>2, <2>1, <2>3, <3>1 DEF Ready
  <2>5. Before(c, d) BY <1>1, <2>4 DEF Earliest
  <2> QED BY <2>1, <2>3, <2>5 DEF Before
<1>5. ~InFlight(c.id)' BY <1>1, <1>4 DEF InFlight
<1>6. sent'[c.id] # None BY <1>1, <1>2 DEF Works
<1> QED BY <1>3, <1>5, <1>6 DEF Gone

\* So what is doomed stays so.
LEMMA DoomedWorks ==
  ASSUME IInv, TravelInv, CancelsTrail, todo' = todo,
         RunCommands \/ RunData \/ \E i \in Instruments : ProcessBar(i),
         NEW id \in Ids, Doomed(id)
  PROVE  Doomed(id)'
<1>1. Works BY CallWorks
<1>2. CASE Gone(id)
  <2>1. stored'[id] = None /\ sent'[id] # None BY <1>1, <1>2 DEF Works, Gone
  <2>2. ~InFlight(id)' BY <1>1, <1>2 DEF Works, Gone, InFlight
  <2> QED BY <2>1, <2>2 DEF Doomed, Gone
<1>3. CASE InTodo("cancel", id) BY <1>3 DEF InTodo, Doomed, CancelComing
<1>4. ASSUME NEW c \in inflight, c.kind = "cancel", c.id = id
      PROVE  Doomed(id)'
  <2>1. CASE c \in inflight'
    BY <1>4, <2>1 DEF Doomed, CancelComing
  <2>2. CASE c \notin inflight'
    <3>1. PICK d \in inflight : ProcessCommand(d)
      <4>1. ASSUME inflight' = inflight PROVE FALSE BY <2>2, <4>1
      <4>2. ASSUME \/ StartCommands \/ EndCommands \/ RunData
                   \/ \E i \in Instruments : ProcessBar(i)
            PROVE  FALSE
        BY <4>1, <4>2 DEF StartCommands, EndCommands, RunData, EndData,
           ProcessMatch, ExpireOrder, ProcessBar, MarketData
      <4> QED BY <4>2 DEF RunCommands
    <3>2. d = c BY <2>2, <3>1, CommandWorks
    <3> QED BY <1>4, <3>1, <3>2, CancelArrives DEF Doomed
  <2> QED BY <2>1, <2>2
<1> QED BY <1>2, <1>3, <1>4 DEF Doomed, CancelComing

-----------------------------------------------------------------------------
(* Waiting events.                                                         *)

Notices == events \in Seq(Notice)

\* The caller collects what the exchange has told.
LEMMA Collected ==
  ASSUME IInv, Collect
  PROVE  /\ history' = history => events' = events
         /\ \A id \in Ids : \A e \in Events : Report(id, e) =>
              events' = Append(events, [id |-> id, kind |-> e])
<1>1. history' = history => News = {} BY DEF News
<1>2. ASSUME NEW id \in Ids, NEW e \in Events, Report(id, e)
      PROVE  News = {[id |-> id, kind |-> e]}
  <2>1. history \in [Ids -> Seq(Events)] BY DEF IInv, TypeOK
  <2>2. history'[id] = Append(history[id], e)
        /\ \A i \in Ids \ {id} : history'[i] = history[i]
    BY <1>2, <2>1 DEF Report
  <2>3. Len(history'[id]) = Len(history[id]) + 1 /\ Len(history[id]) \in Nat
        /\ history'[id][Len(history[id]) + 1] = e
    BY <2>1, <2>2
  <2>4. {i \in Ids : history'[i] # history[i]} = {id}
    BY <2>2, <2>3
  <2> QED BY <2>3, <2>4 DEF News
<1> QED BY <1>1, <1>2 DEF Collect

LEMMA HasIn == \A id, K : Has(id, K) <=> In(history[id], K)
BY DEF Has, In

LEMMA HasInNext == \A id, K : Has(id, K)' <=> In(history'[id], K)
BY DEF Has, In

\* What a story tells it goes on telling, and every new event waits.
LEMMA EventsCollected ==
  ASSUME IInv, Notices, NoteInv, Told1, Collect
  PROVE  /\ Notices' /\ NoteInv'
         /\ \A id \in Ids : \A K : Has(id, K) => Has(id, K)'
         /\ \A id \in Ids : \A kind : Handled(id, kind)' => Handled(id, kind)
<1>0. history \in [Ids -> Seq(Events)] BY DEF IInv, TypeOK
<1>1. CASE history' = history
  <2>1. events' = events BY <1>1, Collected
  <2> QED BY <1>1, <2>1 DEF Notices, NoteInv, Has, Handled, EventWaiting
<1>2. ASSUME NEW id \in Ids, NEW e \in Events, Report(id, e)
      PROVE  /\ Notices' /\ NoteInv'
             /\ \A i \in Ids : \A K : Has(i, K) => Has(i, K)'
             /\ \A i \in Ids : \A kind : Handled(i, kind)' => Handled(i, kind)
  <2> DEFINE note == [id |-> id, kind |-> e]
             n == Len(events)
  <2>1. note \in Notice /\ note.id = id /\ note.kind = e BY DEF Notice
  <2>2. events' = Append(events, note) BY <1>2, Collected
  <2> HIDE DEF note
  <2>3. /\ Notices' /\ n \in Nat /\ DOMAIN events = 1 .. n
        /\ DOMAIN events' = 1 .. n + 1 /\ events'[n + 1] = note
        /\ \A i \in DOMAIN events : events'[i] = events[i] /\ events[i] \in Notice
    BY <2>1, <2>2 DEF Notices
  <2> HIDE DEF n
  <2>4. \A i \in DOMAIN events' : i \in DOMAIN events \/ i = n + 1
    BY <2>3
  <2>5. n + 1 \in DOMAIN events' /\ DOMAIN events \subseteq DOMAIN events'
    BY <2>3
  <2>6. /\ history'[id] = Append(history[id], e) /\ history[id] \in Seq(Events)
        /\ \A i \in Ids \ {id} : history'[i] = history[i]
    BY <1>0, <1>2 DEF Report
  <2>7. \A K : In(history'[id], K) <=> In(history[id], K) \/ e \in K
    BY <2>6, AppendedIn
  <2>8. \A i \in Ids : \A K : In(history[i], K) => In(history'[i], K)
    BY <2>6, <2>7
  <2>9. NoteInv'
    <3> SUFFICES ASSUME NEW i \in DOMAIN events'
                 PROVE  In(history'[events'[i].id], {events'[i].kind})
      BY DEF NoteInv
    <3>1. CASE i \in DOMAIN events
      <4>1. events'[i] = events[i] /\ events[i].id \in Ids
        BY <2>3, <3>1 DEF Notice
      <4> QED BY <2>8, <3>1, <4>1 DEF NoteInv
    <3>2. CASE i = n + 1
      <4>1. events'[i].id = id /\ events'[i].kind = e
        BY <2>1, <2>3, <3>2
      <4> QED BY <2>7, <4>1
    <3> QED BY <2>4, <3>1, <3>2
  <2>10. ASSUME NEW i \in Ids, NEW kind, Handled(i, kind)'
         PROVE  Handled(i, kind)
    <3>1. In(history'[i], {kind}) /\ ~EventWaiting(i, kind)'
      BY <2>10, HasInNext DEF Handled
    <3>2. ~EventWaiting(i, kind)
      BY <2>3, <2>5, <3>1 DEF EventWaiting
    <3>3. ~(i = id /\ kind = e)
      <4> SUFFICES ASSUME i = id, kind = e PROVE FALSE
        OBVIOUS
      <4>1. note = [id |-> i, kind |-> kind] BY DEF note
      <4> QED BY <2>3, <2>5, <3>1, <4>1 DEF EventWaiting
    <3>4. In(history[i], {kind}) BY <2>6, <2>7, <3>1, <3>3
    <3> QED BY <3>2, <3>4, HasIn DEF Handled
  <2> QED BY <2>3, <2>8, <2>9, <2>10, HasIn, HasInNext
<1> QED BY <1>1, <1>2 DEF Told1

\* The event that is handled, and what it is the first handling of.
LEMMA EventHandled ==
  ASSUME IInv, Notices, NoteInv, events # <<>>, events' = Tail(events),
         NEW e, e = Head(events), history' = history
  PROVE  /\ Notices' /\ NoteInv'
         /\ e.id \in Ids /\ e.kind \in Events /\ In(history[e.id], {e.kind})
         /\ \A id, kind : Handled(id, kind)' =>
              Handled(id, kind) \/ (id = e.id /\ kind = e.kind)
<1> DEFINE n == Len(events)
<1>1. /\ n \in Nat /\ n > 0 /\ DOMAIN events = 1 .. n /\ e = events[1]
      /\ DOMAIN events' = 1 .. n - 1 /\ Notices' /\ e \in Notice
      /\ \A i \in 1 .. n - 1 : events'[i] = events[i + 1]
  BY DEF Notices
<1>2. \A i \in 1 .. n - 1 : i + 1 \in 1 .. n BY <1>1
<1>3. NoteInv' BY <1>1, <1>2 DEF NoteInv
<1>4. In(history[e.id], {e.kind})
  <2>1. 1 \in DOMAIN events BY <1>1
  <2> QED BY <1>1, <2>1 DEF NoteInv
<1>5. ASSUME NEW id, NEW kind, EventWaiting(id, kind),
             ~(id = e.id /\ kind = e.kind)
      PROVE  EventWaiting(id, kind)'
  <2>1. PICK i \in 1 .. n : events[i] = [id |-> id, kind |-> kind]
    BY <1>1, <1>5 DEF EventWaiting
  <2>2. i # 1 BY <1>1, <1>5, <2>1
  <2>3. i - 1 \in 1 .. n - 1 /\ i = (i - 1) + 1 BY <1>1, <2>1, <2>2
  <2> QED BY <1>1, <2>1, <2>3 DEF EventWaiting
<1>6. e.id \in Ids /\ e.kind \in Events BY <1>1 DEF Notice
<1> QED BY <1>1, <1>3, <1>4, <1>5, <1>6 DEF Handled, Has

-----------------------------------------------------------------------------
(* What keeps the promises to the lists when no list changes.              *)

LEMMA ListFacts ==
  ASSUME NEW l \in ListIds
  PROVE  /\ Children(l) \subseteq Members(l) \ {ListOf[l].entry}
         /\ Members(l) \subseteq Ids /\ Group(l) \subseteq Members(l)
         /\ Children(l) # {} => ListOf[l].type = "OTO"
         /\ ListOf[l].type = "OTO" => ListOf[l].entry \in Members(l)
         /\ \A k \in ListIds : \A id \in Members(l) : id \in Members(k) => k = l
<1>1. ListOf[l] \in OrderList BY ListsAssumption
<1>2. Members(l) \subseteq Ids
  <2>1. ListOf[l].orders \in Seq(Ids) BY <1>1 DEF OrderList
  <2>2. \A i \in DOMAIN ListOf[l].orders : ListOf[l].orders[i] \in Ids BY <2>1
  <2> QED BY <2>2 DEF Members
<1>3. /\ Children(l) \subseteq Members(l) \ {ListOf[l].entry}
      /\ Children(l) # {} => ListOf[l].type = "OTO"
      /\ ListOf[l].type = "OTO" => ListOf[l].entry \in Members(l)
  BY ListsAssumption
<1>4. \A k \in ListIds : \A id \in Members(l) : id \in Members(k) => k = l
  BY ListsAssumption
<1> QED BY <1>2, <1>3, <1>4 DEF Group

\* The children's promises: no order is submitted anew, none is forgotten, and
\* no fill has been handled in the step.
LEMMA ChildKept ==
  ASSUME ChildInv, ManagerTypeOK, UNCHANGED <<orderLists, submittedChildren>>,
         \A id \in Ids : Placed(id)' <=> Placed(id),
         \A id \in Ids : sent'[id] # None /\ InTodo("submit", id)'
                           => sent[id] # None /\ InTodo("submit", id),
         \A id \in Ids : Has(id, {"Filled"}) => Has(id, {"Filled"})',
         \A id \in Ids : Handled(id, "Filled")' => Handled(id, "Filled")
  PROVE  ChildInv'
<1>1. \A l \in ListIds : \A id \in Children(l) :
        id \in Ids /\ ListOf[l].entry \in Ids
  BY ListFacts
<1>2. orderLists \subseteq ListIds /\ submittedChildren \subseteq ListIds
  BY DEF ManagerTypeOK
<1>3. ChildrenWaitForEntry'
  BY <1>1 DEF ChildInv, ChildrenWaitForEntry, Placed
<1>4. EntryFillSubmitsChildren'
  BY <1>1, <1>2 DEF ChildInv, EntryFillSubmitsChildren, Placed
<1>5. \A l \in orderLists' : \A id \in Children(l) :
        Placed(id)' => l \in submittedChildren'
  BY <1>1, <1>2 DEF ChildInv
<1>6. \A l \in submittedChildren' :
        /\ ListOf[l].type = "OTO" /\ Has(ListOf[l].entry, {"Filled"})'
        /\ \A id \in Children(l) : Placed(id)'
  <2> SUFFICES ASSUME NEW l \in submittedChildren
               PROVE  /\ ListOf[l].type = "OTO" /\ Has(ListOf[l].entry, {"Filled"})'
                      /\ \A id \in Children(l) : Placed(id)'
    OBVIOUS
  <2>1. ListOf[l].type = "OTO" /\ Has(ListOf[l].entry, {"Filled"}) BY DEF ChildInv
  <2>2. ListOf[l].entry \in Ids BY <1>2, <2>1, ListFacts
  <2> QED BY <1>1, <1>2, <2>1, <2>2 DEF ChildInv
<1> QED BY <1>3, <1>4, <1>5, <1>6 DEF ChildInv

\* The siblings' promises: no end has been handled in the step, and who is
\* doomed stays so.
LEMMA SweepKept ==
  ASSUME SweepInv, ManagerTypeOK, UNCHANGED <<orderLists, processedOco>>,
         ListsInv, \A id \in Ids : InTodo("cancel", id)' => InTodo("cancel", id),
         \A id \in Ids : \A kind : Handled(id, kind)' => Handled(id, kind),
         CancelsTrail => \A id \in Ids : Doomed(id) => Doomed(id)'
  PROVE  SweepInv'
<1>1. \A l \in ListIds : Group(l) \subseteq Ids BY ListFacts
<1>2. orderLists \subseteq ListIds /\ processedOco \subseteq ListIds
  BY DEF ManagerTypeOK
<1>3. \A l \in orderLists : \A id \in Group(l) : Ends(l, id)' => Ends(l, id)
  BY <1>1, <1>2 DEF Ends
<1>4. \A l \in orderLists' : \A id, other \in Group(l) :
        id # other /\ Ends(l, id)' => l \in processedOco'
  BY <1>3 DEF SweepInv
<1>5. CancelsTrail => \A l \in processedOco' : \A id \in Group(l) : Doomed(id)'
  BY <1>1, <1>2 DEF SweepInv
<1>6. NoEcho' BY <1>1, <1>2, <1>3 DEF SweepInv, NoEcho
<1> QED BY <1>4, <1>5, <1>6 DEF SweepInv, CancelsTrail, NoEcho

-----------------------------------------------------------------------------
(* The exchange's calls, and commands sent to it.                          *)

LEMMA CallStep ==
  ASSUME IInv, CInv, CommandsStep \/ BarStep
  PROVE  CInv'
<1>1. /\ RunCommands \/ RunData \/ \E i \in Instruments : ProcessBar(i)
      /\ Collect /\ UNCHANGED <<manager, todo>>
  BY DEF CommandsStep, BarStep
<1>2. UNCHANGED <<orderLists, orderToList, submittedChildren, processedOco, todo>>
  BY <1>1 DEF manager
<1>3. Works BY <1>1, CallWorks DEF CInv
<1>4. /\ Notices' /\ NoteInv'
      /\ \A id \in Ids : \A K : Has(id, K) => Has(id, K)'
      /\ \A id \in Ids : \A kind : Handled(id, kind)' => Handled(id, kind)
  BY <1>1, <1>3, EventsCollected DEF CInv, ManagerTypeOK, Notices, Works
<1>5. ManagerTypeOK' BY <1>2, <1>4 DEF CInv, ManagerTypeOK, Notices
<1>6. ListsInv' BY <1>2 DEF CInv, ListsInv
<1>7. \A kind, id : InTodo(kind, id)' <=> InTodo(kind, id) BY <1>2 DEF InTodo
<1>8. ChildInv'
  <2>1. \A id \in Ids : Placed(id)' <=> Placed(id) BY <1>3, <1>7 DEF Placed, Works
  <2>2. sent' = sent BY <1>3 DEF Works
  <2> QED BY <1>2, <1>4, <1>7, <2>1, <2>2, ChildKept DEF CInv
<1>9. TravelInv' BY <1>3 DEF CInv, TravelInv, Works, Precedes, CancelsTrail
<1>10. SweepInv'
  <2>1. CancelsTrail => \A id \in Ids : Doomed(id) => Doomed(id)'
    BY <1>1, <1>2, DoomedWorks DEF CInv
  <2> QED BY <1>2, <1>4, <1>7, <2>1, SweepKept DEF CInv
<1> QED BY <1>4, <1>5, <1>6, <1>8, <1>9, <1>10 DEF CInv

LEMMA TimeStep ==
  ASSUME IInv, CInv, NextBarTime
  PROVE  CInv'
<1>1. /\ UNCHANGED <<orderLists, orderToList, submittedChildren, processedOco,
                     events, todo, inflight, count, sent, stored, history>>
      /\ now' \in now + 1 .. MaxTime
  BY DEF NextBarTime, manager, AdvanceTime, orders
<1>2. /\ \A id, K : Has(id, K)' <=> Has(id, K)
      /\ \A id, kind : Handled(id, kind)' <=> Handled(id, kind)
      /\ \A kind, id : InTodo(kind, id)' <=> InTodo(kind, id)
      /\ \A id : (Placed(id)' <=> Placed(id)) /\ (Doomed(id)' <=> Doomed(id))
  BY <1>1 DEF Has, Handled, EventWaiting, InTodo, Placed, Doomed, CancelComing,
              Gone, InFlight
<1>3. ManagerTypeOK' /\ ListsInv' /\ NoteInv'
  BY <1>1 DEF CInv, ManagerTypeOK, ListsInv, NoteInv
<1>4. ChildInv' BY <1>1, <1>2, ChildKept DEF CInv
<1>5. SweepInv' BY <1>1, <1>2, SweepKept DEF CInv
<1>6. TravelInv'
  <2>1. \A c \in inflight : c.at \in Nat
    BY CommandFacts DEF Command
  <2>2. now \in Nat /\ now' \in Nat /\ now <= now'
    BY <1>1, ExchangeAssumption DEF IInv, TypeOK
  <2>3. \A c \in inflight, latency \in InsertLatencies :
          c.at <= now + latency => c.at <= now' + latency
    <3>1. \A latency \in InsertLatencies : latency \in Nat BY ExchangeAssumption
    <3> QED BY <2>1, <2>2, <3>1
  <2> QED BY <1>1, <2>3 DEF CInv, TravelInv, Precedes, CancelsTrail
<1> QED BY <1>3, <1>4, <1>5, <1>6 DEF CInv

\* A command enters the queue: what is known of those in flight goes on.
LEMMA PushTravels ==
  ASSUME IInv, TravelInv, NEW kind \in {"submit", "cancel"}, NEW id \in Ids,
         NEW latency, Push(kind, id, NoChange, latency),
         \/ kind = "submit" /\ sent[id] = None /\ latency \in InsertLatencies
         \/ kind = "cancel" /\ latency \in DeleteLatencies
  PROVE  /\ TravelInv'
         /\ UNCHANGED <<now, stored, history>>
         /\ \A i : InFlight(i)' <=> InFlight(i) \/ (kind = "submit" /\ i = id)
         /\ \A c \in inflight : c \in inflight'
         /\ kind = "cancel" => CancelComing(id)'
<1> DEFINE new == [kind |-> kind, id |-> id, price |-> NoChange.price,
                   qty |-> NoChange.qty, at |-> now + latency, seq |-> count]
<1>1. /\ inflight' = inflight \cup {new} /\ count' = count + 1
      /\ UNCHANGED <<now, stored, history>>
  BY DEF Push
<1>2. /\ new.kind = kind /\ new.id = id /\ new.at = now + latency
      /\ new.seq = count
  OBVIOUS
<1> HIDE DEF new
<1>3. /\ now \in Nat /\ count \in Nat /\ latency \in Nat
      /\ InsertLatencies \subseteq Nat
  BY ExchangeAssumption DEF IInv, TypeOK
<1>4. \A c \in inflight : c.at \in Nat /\ c.seq \in Nat /\ sent[c.id] # None
  BY CommandFacts DEF Command
<1>5. ASSUME NEW c \in inflight'
      PROVE  /\ c.kind # "modify" /\ c.seq < count'
             /\ c.kind = "submit" =>
                  \E late \in InsertLatencies : c.at <= now' + late
  <2>1. CASE c \in inflight BY <1>1, <1>3, <1>4, <2>1 DEF TravelInv
  <2>2. CASE c = new BY <1>1, <1>2, <1>3, <2>2
  <2> QED BY <1>1, <2>1, <2>2
<1>6. ASSUME CancelsTrail, NEW c \in inflight', NEW d \in inflight'
      PROVE  Precedes(c, d)
  <2> SUFFICES ASSUME c.kind = "submit", d.kind = "cancel", c.id = d.id
               PROVE  c.at <= d.at /\ c.seq < d.seq
    BY DEF Precedes
  <2>1. CASE c \in inflight /\ d \in inflight
    BY <1>6, <2>1 DEF TravelInv, Precedes
  <2>2. CASE c \in inflight /\ d = new
    <3>1. PICK late \in InsertLatencies : c.at <= now + late
      BY <2>2 DEF TravelInv
    <3>2. late <= latency /\ c.seq < count
      BY <1>2, <1>6, <2>2 DEF CancelsTrail, TravelInv
    <3> QED BY <1>2, <1>3, <1>4, <2>2, <3>1, <3>2
  <2>3. CASE c = new /\ d \in inflight
    BY <1>2, <1>4, <2>3
  <2>4. CASE c = new /\ d = new
    BY <2>4
  <2> QED BY <1>1, <2>1, <2>2, <2>3, <2>4
<1>7. TravelInv'
  <2>1. CancelsTrail' <=> CancelsTrail BY DEF CancelsTrail
  <2> QED BY <1>5, <1>6, <2>1 DEF TravelInv
<1>8. /\ \A i : InFlight(i)' <=> InFlight(i) \/ (kind = "submit" /\ i = id)
      /\ kind = "cancel" => CancelComing(id)'
  BY <1>1, <1>2 DEF InFlight, CancelComing
<1> QED BY <1>1, <1>7, <1>8

\* A cancel, of the caller or of the manager.
LEMMA CancelSends ==
  ASSUME IInv, CInv, NEW id \in Ids, CancelOrder(id), UNCHANGED <<manager, events>>,
         todo' = todo \/ todo' = todo \ {[kind |-> "cancel", id |-> id]}
  PROVE  CInv'
<1>1. PICK latency \in DeleteLatencies : Push("cancel", id, NoChange, latency)
  BY DEF CancelOrder
<1>2. sent' = sent BY DEF CancelOrder
<1>3. /\ TravelInv' /\ UNCHANGED <<now, stored, history>>
      /\ \A i : InFlight(i)' <=> InFlight(i)
      /\ \A c \in inflight : c \in inflight'
      /\ CancelComing(id)'
  BY <1>1, PushTravels DEF CInv
<1>4. UNCHANGED <<orderLists, orderToList, submittedChildren, processedOco, events>>
  BY DEF manager
<1>5. /\ \A i, K : Has(i, K)' <=> Has(i, K)
      /\ \A i, kind : Handled(i, kind)' <=> Handled(i, kind)
  BY <1>3, <1>4 DEF Has, Handled, EventWaiting
<1>6. /\ \A i : InTodo("submit", i)' <=> InTodo("submit", i)
      /\ \A i : InTodo("cancel", i)' => InTodo("cancel", i)
      /\ \A i : i # id /\ InTodo("cancel", i) => InTodo("cancel", i)'
  <2>1. \A i : /\ [kind |-> "submit", id |-> i] # [kind |-> "cancel", id |-> id]
               /\ i # id => [kind |-> "cancel", id |-> i] # [kind |-> "cancel", id |-> id]
    <3>1. \A i : [kind |-> "submit", id |-> i].kind = "submit"
                 /\ [kind |-> "cancel", id |-> i].kind = "cancel"
                 /\ [kind |-> "cancel", id |-> i].id = i
      OBVIOUS
    <3> QED BY <3>1
  <2> QED BY <2>1 DEF InTodo
<1>7. \A i : Doomed(i) => Doomed(i)'
  <2>1. \A i : Gone(i) => Gone(i)' BY <1>2, <1>3 DEF Gone
  <2>2. \A i : CancelComing(i) => CancelComing(i)' BY <1>3, <1>6 DEF CancelComing
  <2> QED BY <2>1, <2>2 DEF Doomed
<1>8. ManagerTypeOK' /\ ListsInv' /\ NoteInv'
  BY <1>3, <1>4 DEF CInv, ManagerTypeOK, ListsInv, NoteInv
<1>9. ChildInv' BY <1>2, <1>4, <1>5, <1>6, ChildKept DEF CInv, Placed
<1>10. SweepInv' BY <1>4, <1>5, <1>6, <1>7, SweepKept DEF CInv
<1> QED BY <1>3, <1>8, <1>9, <1>10 DEF CInv

\* A submission of the manager's answer.
LEMMA SubmitSends ==
  ASSUME IInv, CInv, NEW id \in Ids, SubmitOrder(id), UNCHANGED <<manager, events>>,
         InTodo("submit", id), todo' = todo \ {[kind |-> "submit", id |-> id]}
  PROVE  CInv'
<1>1. PICK r \in Requests, latency \in InsertLatencies :
        Push("submit", id, NoChange, latency) /\ sent' = [sent EXCEPT ![id] = r]
  BY DEF SubmitOrder
<1>2. sent[id] = None /\ sent \in [Ids -> Requests \cup {None}] /\ None \notin Requests
  BY NoneApart, ExchangeAssumption DEF SubmitOrder, IInv, TypeOK
<1>3. /\ TravelInv' /\ UNCHANGED <<now, stored, history>>
      /\ \A i : InFlight(i)' <=> InFlight(i) \/ i = id
      /\ \A c \in inflight : c \in inflight'
  BY <1>1, <1>2, PushTravels DEF CInv
<1>4. UNCHANGED <<orderLists, orderToList, submittedChildren, processedOco, events>>
  BY DEF manager
<1>5. /\ \A i, K : Has(i, K)' <=> Has(i, K)
      /\ \A i, kind : Handled(i, kind)' <=> Handled(i, kind)
  BY <1>3, <1>4 DEF Has, Handled, EventWaiting
<1>6. /\ \A i : InTodo("cancel", i)' <=> InTodo("cancel", i)
      /\ \A i : InTodo("submit", i)' <=> InTodo("submit", i) /\ i # id
  <2>1. \A i : /\ [kind |-> "cancel", id |-> i] # [kind |-> "submit", id |-> id]
               /\ i # id => [kind |-> "submit", id |-> i] # [kind |-> "submit", id |-> id]
    <3>1. \A i : [kind |-> "submit", id |-> i].kind = "submit"
                 /\ [kind |-> "cancel", id |-> i].kind = "cancel"
                 /\ [kind |-> "submit", id |-> i].id = i
      OBVIOUS
    <3> QED BY <3>1
  <2> QED BY <2>1 DEF InTodo
<1>7. \A i \in Ids : sent'[i] # None <=> sent[i] # None \/ i = id
  BY <1>1, <1>2
<1>8. \A i \in Ids : Doomed(i) => Doomed(i)'
  <2>1. \A i \in Ids : Gone(i) => Gone(i)' BY <1>2, <1>3, <1>7 DEF Gone
  <2>2. \A i : CancelComing(i) => CancelComing(i)' BY <1>3, <1>6 DEF CancelComing
  <2> QED BY <2>1, <2>2 DEF Doomed
<1>9. ManagerTypeOK' /\ ListsInv' /\ NoteInv'
  BY <1>3, <1>4 DEF CInv, ManagerTypeOK, ListsInv, NoteInv
<1>10. ChildInv'
  <2>1. \A i \in Ids : Placed(i)' <=> Placed(i) BY <1>6, <1>7 DEF Placed
  <2> QED BY <1>4, <1>5, <1>6, <1>7, <2>1, ChildKept DEF CInv
<1>11. SweepInv' BY <1>4, <1>5, <1>6, <1>8, SweepKept DEF CInv
<1> QED BY <1>3, <1>9, <1>10, <1>11 DEF CInv

LEMMA SendStep ==
  ASSUME IInv, CInv, SendCommand
  PROVE  CInv' /\ [Next]_vars
<1>1. PICK command \in todo :
        /\ \/ command.kind = "submit" /\ SubmitOrder(command.id)
           \/ command.kind = "cancel" /\ CancelOrder(command.id)
        /\ todo' = todo \ {command}
  BY DEF SendCommand
<1>2. command \in ToDo BY DEF CInv, ManagerTypeOK
<1>3. /\ command.id \in Ids
      /\ command = [kind |-> command.kind, id |-> command.id]
  BY <1>2 DEF ToDo
<1>4. UNCHANGED <<manager, events>> BY DEF SendCommand
<1>5. CASE command.kind = "submit" /\ SubmitOrder(command.id)
  BY <1>1, <1>3, <1>4, <1>5, SubmitSends DEF InTodo, Next, Caller
<1>6. CASE command.kind = "cancel" /\ CancelOrder(command.id)
  BY <1>1, <1>3, <1>4, <1>6, CancelSends DEF Next, Caller
<1> QED BY <1>1, <1>5, <1>6

-----------------------------------------------------------------------------
(* The caller's lists.                                                     *)

\* Of an order that was not sent, nothing was reported.
LEMMA UnsentTold ==
  ASSUME IInv, NEW id \in Ids, sent[id] = None
  PROVE  \A K, kind : ~Has(id, K) /\ ~Handled(id, kind)
BY DEF IInv, SentInv, Has, Handled

\* With an empty answer an order is placed when it was sent.
LEMMA NothingTodo ==
  ASSUME todo = {}
  PROVE  \A id, kind : ~InTodo(kind, id) /\ (Placed(id) <=> sent[id] # None)
BY DEF InTodo, Placed

LEMMA SameOrders ==
  ASSUME UNCHANGED vars, events' = events
  PROVE  /\ UNCHANGED <<now, inflight, count, sent, stored, history>>
         /\ \A id, K : Has(id, K)' <=> Has(id, K)
         /\ \A id, kind : Handled(id, kind)' <=> Handled(id, kind)
         /\ \A id : Gone(id)' <=> Gone(id)
         /\ \A l, id : Ends(l, id)' <=> Ends(l, id)
         /\ TravelInv => TravelInv'
         /\ NoteInv => NoteInv'
BY DEF vars, orders, Has, Handled, EventWaiting, Gone, InFlight, Ends,
       TravelInv, NoteInv, Precedes, CancelsTrail

LEMMA RegisterStep ==
  ASSUME IInv, CInv, NEW l \in ListIds, Register(l)
  PROVE  CInv'
<1>1. /\ todo = {} /\ l \notin orderLists /\ UNCHANGED <<vars, events, todo>>
      /\ \A id \in Members(l) : sent[id] = None
      /\ orderLists' = orderLists \cup {l}
      /\ orderToList' = [id \in Ids |-> IF id \in Members(l) THEN l
                                        ELSE orderToList[id]]
      /\ UNCHANGED <<submittedChildren, processedOco>>
  BY DEF Register, Idle, Unsent, RegisterList
<1>2. /\ UNCHANGED <<now, inflight, count, sent, stored, history>>
      /\ \A id, K : Has(id, K)' <=> Has(id, K)
      /\ \A id, kind : Handled(id, kind)' <=> Handled(id, kind)
      /\ \A id : Gone(id)' <=> Gone(id)
      /\ \A k, id : Ends(k, id)' <=> Ends(k, id)
      /\ TravelInv' /\ NoteInv'
  BY <1>1, SameOrders DEF CInv
<1>3. \A id, kind : /\ ~InTodo(kind, id) /\ (Placed(id) <=> sent[id] # None)
                    /\ ~InTodo(kind, id)' /\ (Placed(id)' <=> sent[id] # None)
  BY <1>1, <1>2, NothingTodo DEF InTodo, Placed
<1>4. \A id \in Members(l) : ~Placed(id) /\ \A K, kind : ~Has(id, K) /\ ~Handled(id, kind)
  BY <1>1, <1>3, ListFacts, UnsentTold
<1>5. ManagerTypeOK' BY <1>1 DEF CInv, ManagerTypeOK
<1>6. ListsInv'
  <2>1. \A k \in orderLists : k \in ListIds /\ k # l BY <1>1 DEF CInv, ManagerTypeOK
  <2>2. ASSUME NEW k \in orderLists', NEW id \in Members(k)
        PROVE  orderToList'[id] = k
    <3>1. CASE k = l BY <1>1, <3>1, ListFacts
    <3>2. CASE k \in orderLists
      <4>1. id \notin Members(l) /\ id \in Ids BY <2>1, <3>2, ListFacts
      <4> QED BY <1>1, <3>2, <4>1 DEF CInv, ListsInv
    <3> QED BY <1>1, <3>1, <3>2
  <2>3. ASSUME NEW id \in Ids, orderToList'[id] # None
        PROVE  orderToList'[id] \in orderLists' /\ id \in Members(orderToList'[id])
    BY <1>1, <2>3 DEF CInv, ListsInv
  <2> QED BY <1>1, <2>2, <2>3 DEF CInv, ListsInv
<1>7. ChildInv'
  <2>1. ChildrenWaitForEntry'
    BY <1>2, <1>3 DEF CInv, ChildInv, ChildrenWaitForEntry, Placed
  <2>2. EntryFillSubmitsChildren'
    <3> SUFFICES ASSUME NEW k \in orderLists', NEW id \in Children(k),
                        Handled(ListOf[k].entry, "Filled")
                 PROVE  sent[id] # None
      BY <1>2, <1>3 DEF EntryFillSubmitsChildren
    <3>1. CASE k = l
      <4>1. ListOf[l].entry \in Members(l) BY <3>1, ListFacts
      <4> QED BY <1>4, <3>1, <4>1
    <3>2. CASE k \in orderLists
      BY <1>3, <3>2 DEF CInv, ChildInv, EntryFillSubmitsChildren, Placed
    <3> QED BY <1>1, <3>1, <3>2
  <2>3. ASSUME NEW k \in orderLists', NEW id \in Children(k), Placed(id)'
        PROVE  k \in submittedChildren'
    <3>1. CASE k = l
      <4>1. id \in Members(l) BY <3>1, ListFacts
      <4> QED BY <1>3, <1>4, <2>3, <4>1
    <3>2. CASE k \in orderLists
      BY <1>1, <1>3, <2>3, <3>2 DEF CInv, ChildInv
    <3> QED BY <1>1, <3>1, <3>2
  <2>4. \A k \in submittedChildren' :
          /\ ListOf[k].type = "OTO" /\ Has(ListOf[k].entry, {"Filled"})'
          /\ \A id \in Children(k) : Placed(id)'
    BY <1>1, <1>2, <1>3 DEF CInv, ChildInv
  <2> QED BY <2>1, <2>2, <2>3, <2>4 DEF ChildInv
<1>8. SweepInv'
  <2>1. ASSUME NEW k \in orderLists', NEW id \in Group(k), NEW other \in Group(k),
               id # other, Ends(k, id)'
        PROVE  k \in processedOco'
    <3>1. CASE k = l
      <4>1. id \in Members(l) BY <3>1, ListFacts
      <4> QED BY <1>2, <1>4, <2>1, <4>1 DEF Ends
    <3>2. CASE k \in orderLists
      BY <1>1, <1>2, <2>1, <3>2 DEF CInv, SweepInv
    <3> QED BY <1>1, <3>1, <3>2
  <2>2. CancelsTrail => \A k \in processedOco' : \A id \in Group(k) : Doomed(id)'
    BY <1>1, <1>2 DEF CInv, SweepInv, Doomed, CancelComing, InTodo
  <2>3. NoEcho' BY <1>3 DEF NoEcho
  <2> QED BY <2>1, <2>2, <2>3 DEF SweepInv, CancelsTrail
<1> QED BY <1>2, <1>5, <1>6, <1>7, <1>8 DEF CInv

LEMMA UnregisterStep ==
  ASSUME IInv, CInv, NEW l \in ListIds, Unregister(l)
  PROVE  CInv'
<1>1. /\ todo = {} /\ l \in orderLists /\ UNCHANGED <<vars, events, todo>>
      /\ orderLists' = orderLists \ {l}
      /\ orderToList' = [id \in Ids |-> IF id \in Members(l) THEN None
                                        ELSE orderToList[id]]
      /\ submittedChildren' = submittedChildren \ {l}
      /\ processedOco' = processedOco \ {l}
  BY DEF Unregister, Idle, UnregisterList
<1>2. /\ UNCHANGED <<now, inflight, count, sent, stored, history>>
      /\ \A id, K : Has(id, K)' <=> Has(id, K)
      /\ \A id, kind : Handled(id, kind)' <=> Handled(id, kind)
      /\ \A id : Gone(id)' <=> Gone(id)
      /\ \A k, id : Ends(k, id)' <=> Ends(k, id)
      /\ TravelInv' /\ NoteInv'
  BY <1>1, SameOrders DEF CInv
<1>3. \A id, kind : InTodo(kind, id)' <=> InTodo(kind, id) BY <1>1 DEF InTodo
<1>4. \A id : (Placed(id)' <=> Placed(id)) /\ (Doomed(id)' <=> Doomed(id))
  BY <1>2, <1>3 DEF Placed, Doomed, CancelComing
<1>5. ManagerTypeOK' BY <1>1 DEF CInv, ManagerTypeOK
<1>6. ListsInv'
  <2>1. \A k \in orderLists : k \in ListIds BY DEF CInv, ManagerTypeOK
  <2>2. ASSUME NEW k \in orderLists', NEW id \in Members(k)
        PROVE  orderToList'[id] = k
    <3>1. id \notin Members(l) /\ id \in Ids BY <1>1, <2>1, ListFacts
    <3> QED BY <1>1, <3>1 DEF CInv, ListsInv
  <2>3. ASSUME NEW id \in Ids, orderToList'[id] # None
        PROVE  orderToList'[id] \in orderLists' /\ id \in Members(orderToList'[id])
    <3>1. orderToList'[id] = orderToList[id] /\ id \notin Members(l)
      BY <1>1, <2>3
    <3> QED BY <1>1, <2>3, <3>1 DEF CInv, ListsInv
  <2> QED BY <1>1, <2>2, <2>3 DEF CInv, ListsInv
<1>7. ChildInv'
  <2>1. ChildrenWaitForEntry'
    BY <1>2, <1>3 DEF CInv, ChildInv, ChildrenWaitForEntry
  <2>2. EntryFillSubmitsChildren'
    BY <1>1, <1>2, <1>3 DEF CInv, ChildInv, EntryFillSubmitsChildren
  <2>3. \A k \in orderLists' : \A id \in Children(k) :
          Placed(id)' => k \in submittedChildren'
    BY <1>1, <1>4 DEF CInv, ChildInv
  <2>4. \A k \in submittedChildren' :
          /\ ListOf[k].type = "OTO" /\ Has(ListOf[k].entry, {"Filled"})'
          /\ \A id \in Children(k) : Placed(id)'
    BY <1>1, <1>2, <1>4 DEF CInv, ChildInv
  <2> QED BY <2>1, <2>2, <2>3, <2>4 DEF ChildInv
<1>8. SweepInv'
  BY <1>1, <1>2, <1>3, <1>4 DEF CInv, SweepInv, NoEcho, CancelsTrail
<1> QED BY <1>2, <1>5, <1>6, <1>7, <1>8 DEF CInv

\* The orders a caller submits are no children.
LEMMA SubmitListStep ==
  ASSUME IInv, CInv, NEW l \in ListIds, SubmitList(l)
  PROVE  CInv'
<1>1. /\ todo = {} /\ UNCHANGED <<vars, manager, events>>
      /\ todo' = Commands("submit", l, FirstOrders(l))
  BY DEF SubmitList, Idle
<1>2. /\ UNCHANGED <<now, inflight, count, sent, stored, history>>
      /\ \A id, K : Has(id, K)' <=> Has(id, K)
      /\ \A id, kind : Handled(id, kind)' <=> Handled(id, kind)
      /\ \A id : Gone(id)' <=> Gone(id)
      /\ \A k, id : Ends(k, id)' <=> Ends(k, id)
      /\ TravelInv' /\ NoteInv'
  BY <1>1, SameOrders DEF CInv
<1>3. UNCHANGED <<orderLists, orderToList, submittedChildren, processedOco>>
  BY <1>1 DEF manager
<1>4. \A c \in todo' : \E id \in FirstOrders(l) \cap Members(l) :
                         c = [kind |-> "submit", id |-> id]
  BY <1>1 DEF Commands
<1>5. \A id : ~InTodo("cancel", id) /\ ~InTodo("cancel", id)'
              /\ (InTodo("submit", id)' => id \in FirstOrders(l) \cap Members(l))
  <2>1. \A id, i : /\ [kind |-> "cancel", id |-> id] # [kind |-> "submit", id |-> i]
                   /\ [kind |-> "submit", id |-> id] = [kind |-> "submit", id |-> i]
                        => id = i
    <3>1. \A i : [kind |-> "submit", id |-> i].kind = "submit"
                 /\ [kind |-> "cancel", id |-> i].kind = "cancel"
                 /\ [kind |-> "submit", id |-> i].id = i
      OBVIOUS
    <3> QED BY <3>1
  <2> QED BY <1>1, <1>4, <2>1 DEF InTodo
<1>6. \A k \in ListIds : \A id \in Children(k) :
        /\ id \in Ids /\ ~InTodo("submit", id) /\ ~InTodo("submit", id)'
        /\ (Placed(id)' <=> Placed(id))
  <2> SUFFICES ASSUME NEW k \in ListIds, NEW id \in Children(k)
               PROVE  id \in Ids /\ id \notin FirstOrders(l) \cap Members(l)
    BY <1>1, <1>2, <1>5 DEF Placed, InTodo
  <2>1. id \in Members(k) /\ id \in Ids /\ id # ListOf[k].entry
        /\ ListOf[k].type = "OTO"
    BY ListFacts
  <2>2. id \in Members(l) => k = l BY <2>1, ListFacts
  <2> QED BY <2>1, <2>2 DEF FirstOrders
<1>7. ManagerTypeOK'
  <2>1. todo' \subseteq ToDo BY <1>4, ListFacts DEF ToDo
  <2> QED BY <1>1, <1>3, <2>1 DEF CInv, ManagerTypeOK
<1>8. ListsInv' BY <1>3 DEF CInv, ListsInv
<1>9. orderLists \subseteq ListIds /\ submittedChildren \subseteq ListIds
  BY DEF CInv, ManagerTypeOK
<1>10. ChildInv'
  <2>1. ChildrenWaitForEntry'
    BY <1>2, <1>6 DEF CInv, ChildInv, ChildrenWaitForEntry
  <2>2. EntryFillSubmitsChildren'
    BY <1>2, <1>3, <1>6, <1>9 DEF CInv, ChildInv, EntryFillSubmitsChildren
  <2>3. \A k \in orderLists' : \A id \in Children(k) :
          Placed(id)' => k \in submittedChildren'
    BY <1>3, <1>6, <1>9 DEF CInv, ChildInv
  <2>4. \A k \in submittedChildren' :
          /\ ListOf[k].type = "OTO" /\ Has(ListOf[k].entry, {"Filled"})'
          /\ \A id \in Children(k) : Placed(id)'
    BY <1>2, <1>3, <1>6, <1>9 DEF CInv, ChildInv
  <2> QED BY <2>1, <2>2, <2>3, <2>4 DEF ChildInv
<1>11. SweepInv'
  <2>1. \A id : Doomed(id)' <=> Doomed(id)
    BY <1>2, <1>5 DEF Doomed, CancelComing
  <2> QED BY <1>2, <1>3, <1>5, <2>1, SweepKept DEF CInv
<1> QED BY <1>2, <1>7, <1>8, <1>10, <1>11 DEF CInv

-----------------------------------------------------------------------------
(* Handling an event.                                                      *)

\* The event `kind' of order id is handled; the orders and the lists stay.
Handling(id, kind) ==
  /\ todo = {} /\ UNCHANGED <<vars, orderLists, orderToList>>
  /\ id \in Ids /\ In(history[id], {kind})
  /\ \A i, k : Handled(i, k)' => Handled(i, k) \/ (i = id /\ k = kind)

LEMMA ListOfMember ==
  ASSUME CInv, NEW l \in orderLists, NEW id \in Members(l)
  PROVE  /\ l \in ListIds /\ ListFor(id) = l
         /\ IsOco(id) <=> ListOf[l].type = "OCO"
         /\ IsOto(id) <=> ListOf[l].type = "OTO"
         /\ IsEntry(id) <=> ListOf[l].entry = id
BY DEF CInv, ManagerTypeOK, ListsInv, ListFor, Listed, IsOco, IsOto, IsEntry

LEMMA MemberOfList ==
  ASSUME CInv, NEW id \in Ids, IsOco(id) \/ IsOto(id)
  PROVE  /\ ListFor(id) \in orderLists /\ ListFor(id) \in ListIds
         /\ id \in Members(ListFor(id))
<1>1. Listed(id) BY DEF IsOco, IsOto
<1>2. orderToList[id] \in orderLists /\ orderToList[id] \in ListIds
  BY <1>1 DEF Listed, CInv, ManagerTypeOK
<1>3. orderToList[id] # None BY <1>2, ListsAssumption
<1> QED BY <1>2, <1>3 DEF CInv, ListsInv, ListFor

\* An order of a group with another order cancels that order when it ends.
LEMMA GroupSweeps ==
  ASSUME CInv, NEW l \in orderLists, NEW id \in Group(l), NEW other \in Group(l),
         id # other, l \notin processedOco
  PROVE  /\ Sweeps(id) /\ ~TriggersChildren(id)
         /\ ListOf[l].type = "OCO" => IsOco(id)
<1>1. l \in ListIds /\ id \in Members(l)
  BY ListFacts DEF CInv, ManagerTypeOK
<1>2. /\ ListFor(id) = l
      /\ IsOco(id) <=> ListOf[l].type = "OCO"
      /\ IsOto(id) <=> ListOf[l].type = "OTO"
      /\ IsEntry(id) <=> ListOf[l].entry = id
  BY <1>1, ListOfMember
<1>3. CASE ListOf[l].type = "OCO"
  <2>1. IsOco(id) /\ ~IsOto(id) BY <1>2, <1>3
  <2>2. other \in Siblings(id) BY <1>2, <1>3, <2>1 DEF Siblings, Group
  <2> QED BY <1>2, <2>1, <2>2 DEF Sweeps, TriggersChildren
<1>4. CASE ListOf[l].type # "OCO"
  <2>1. id \in Children(l) /\ other \in Children(l) BY <1>4 DEF Group
  <2>2. ListOf[l].type = "OTO" /\ id # ListOf[l].entry BY <1>1, <2>1, ListFacts
  <2>3. IsOto(id) /\ ~IsOco(id) /\ ~IsEntry(id) BY <1>2, <2>2
  <2>4. other \in Siblings(id) BY <1>2, <2>1, <2>3 DEF Siblings
  <2> QED BY <1>2, <1>4, <2>1, <2>3, <2>4 DEF Sweeps, TriggersChildren
<1> QED BY <1>3, <1>4

\* The fill of an entry order whose children were not submitted triggers them.
LEMMA EntryTriggers ==
  ASSUME CInv, NEW l \in orderLists, Children(l) # {}, NEW id, id = ListOf[l].entry
  PROVE  /\ id \in Members(l) /\ ListFor(id) = l /\ ~Sweeps(id)
         /\ l \notin submittedChildren => TriggersChildren(id)
<1>1. l \in ListIds BY DEF CInv, ManagerTypeOK
<1>2. ListOf[l].type = "OTO" /\ id \in Members(l) /\ id \notin Children(l)
  BY <1>1, ListFacts
<1>3. ListFor(id) = l /\ IsOto(id) /\ IsEntry(id) /\ ~IsOco(id)
  BY <1>2, ListOfMember
<1> QED BY <1>2, <1>3 DEF TriggersChildren, Sweeps

\* Commands of the manager's answer.
LEMMA CommandsTodo ==
  ASSUME NEW kind \in {"submit", "cancel"}, NEW l \in ListIds, NEW S,
         todo' = Commands(kind, l, S)
  PROVE  /\ todo' \subseteq ToDo
         /\ \A id : InTodo(kind, id)' <=> id \in S \cap Members(l)
         /\ \A other, id : other # kind => ~InTodo(other, id)'
<1>2. Members(l) \subseteq Ids BY ListFacts
<1>3. \A c : c \in todo' <=> \E id \in S \cap Members(l) : c = [kind |-> kind, id |-> id]
  BY DEF Commands
<1>4. todo' \subseteq ToDo BY <1>2, <1>3 DEF ToDo
<1>5. \A k, id : InTodo(k, id)' <=> [kind |-> k, id |-> id] \in todo' BY DEF InTodo
<1>6. ASSUME NEW k, NEW id, InTodo(k, id)'
      PROVE  k = kind /\ id \in S \cap Members(l)
  <2>1. PICK i \in S \cap Members(l) : [kind |-> k, id |-> id] = [kind |-> kind, id |-> i]
    BY <1>3, <1>5, <1>6
  <2>2. k = kind /\ id = i
    <3>1. /\ [kind |-> k, id |-> id].kind = k /\ [kind |-> k, id |-> id].id = id
          /\ [kind |-> kind, id |-> i].kind = kind /\ [kind |-> kind, id |-> i].id = i
      OBVIOUS
    <3> QED BY <2>1, <3>1
  <2> QED BY <2>2
<1>7. ASSUME NEW id \in S \cap Members(l) PROVE InTodo(kind, id)'
  BY <1>3, <1>5
<1>8. \A id : InTodo(kind, id)' <=> id \in S \cap Members(l) BY <1>6, <1>7
<1>9. \A other, id : other # kind => ~InTodo(other, id)' BY <1>6
<1> QED BY <1>4, <1>8, <1>9

\* What an answer without submissions leaves of the children's promises.
LEMMA ChildRests ==
  ASSUME IInv, CInv, NEW id, NEW kind, Handling(id, kind),
         submittedChildren' = submittedChildren, \A i : ~InTodo("submit", i)',
         kind = "Filled" => ~TriggersChildren(id)
  PROVE  ChildInv'
<1>1. /\ todo = {} /\ UNCHANGED <<orderLists, orderToList, sent, history>>
      /\ \A i, K : Has(i, K)' <=> Has(i, K)
      /\ \A i : Placed(i)' <=> Placed(i)
      /\ \A i : ~InTodo("submit", i)
  BY DEF Handling, vars, orders, Has, Placed, InTodo
<1>2. ChildrenWaitForEntry'
  BY <1>1 DEF CInv, ChildInv, ChildrenWaitForEntry
<1>3. EntryFillSubmitsChildren'
  <2> SUFFICES ASSUME NEW l \in orderLists, NEW c \in Children(l),
                      Handled(ListOf[l].entry, "Filled")'
               PROVE  Placed(c)
    BY <1>1 DEF EntryFillSubmitsChildren, Placed
  <2>1. CASE Handled(ListOf[l].entry, "Filled")
    BY <2>1 DEF CInv, ChildInv, EntryFillSubmitsChildren, Placed
  <2>2. CASE ListOf[l].entry = id /\ kind = "Filled"
    <3>1. l \in submittedChildren BY <2>2, EntryTriggers
    <3> QED BY <3>1 DEF CInv, ChildInv
  <2> QED BY <2>1, <2>2 DEF Handling
<1>4. \A l \in orderLists' : \A c \in Children(l) :
        Placed(c)' => l \in submittedChildren'
  BY <1>1 DEF CInv, ChildInv
<1>5. \A l \in submittedChildren' :
        /\ ListOf[l].type = "OTO" /\ Has(ListOf[l].entry, {"Filled"})'
        /\ \A c \in Children(l) : Placed(c)'
  BY <1>1 DEF CInv, ChildInv
<1> QED BY <1>2, <1>3, <1>4, <1>5 DEF ChildInv

\* And an answer without cancels, of the siblings' promises.
LEMMA SweepRests ==
  ASSUME IInv, CInv, NEW id, NEW kind, Handling(id, kind),
         processedOco' = processedOco, \A i : ~InTodo("cancel", i)',
         kind = "Filled" => TriggersChildren(id) \/ ~Sweeps(id),
         kind = "Canceled" => ~(IsOco(id) /\ Sweeps(id))
  PROVE  SweepInv'
<1>1. /\ todo = {} /\ UNCHANGED <<orderLists, orderToList, inflight, sent, stored>>
      /\ \A i : ~InTodo("cancel", i)
  BY DEF Handling, vars, orders, InTodo
<1>2. ASSUME NEW l \in orderLists', NEW i \in Group(l), NEW other \in Group(l),
             i # other, Ends(l, i)'
      PROVE  l \in processedOco'
  <2> SUFFICES ASSUME l \notin processedOco PROVE FALSE
    OBVIOUS
  <2>1. Sweeps(i) /\ ~TriggersChildren(i) /\ (ListOf[l].type = "OCO" => IsOco(i))
    BY <1>1, <1>2, GroupSweeps
  <2>2. CASE Ends(l, i) BY <1>1, <1>2, <2>2 DEF CInv, SweepInv
  <2>3. CASE ~Ends(l, i)
    <3>1. i = id /\ (kind = "Filled" \/ (kind = "Canceled" /\ ListOf[l].type = "OCO"))
      BY <1>2, <2>3 DEF Handling, Ends
    <3> QED BY <2>1, <3>1
  <2> QED BY <2>2, <2>3
<1>3. \A i : Doomed(i)' <=> Doomed(i)
  BY <1>1 DEF Doomed, CancelComing, Gone, InFlight
<1>4. CancelsTrail => \A l \in processedOco' : \A i \in Group(l) : Doomed(i)'
  BY <1>3 DEF CInv, SweepInv
<1>5. NoEcho' BY DEF NoEcho
<1> QED BY <1>2, <1>4, <1>5 DEF SweepInv, CancelsTrail

\* The fill of an entry order: its children follow.
LEMMA TriggerStep ==
  ASSUME IInv, CInv, NEW id, Handling(id, "Filled"), TriggersChildren(id),
         todo' = Commands("submit", ListFor(id), Children(ListFor(id))),
         submittedChildren' = submittedChildren \cup {ListFor(id)},
         processedOco' = processedOco
  PROVE  ChildInv' /\ SweepInv' /\ todo' \subseteq ToDo /\ submittedChildren' \subseteq orderLists
<1> DEFINE l == ListFor(id)
<1>1. /\ todo = {} /\ id \in Ids /\ UNCHANGED <<orderLists, orderToList, sent, history>>
      /\ In(history[id], {"Filled"})
      /\ \A i, K : Has(i, K)' <=> Has(i, K)
      /\ \A i : ~InTodo("submit", i) /\ (Placed(i) <=> sent[i] # None)
  BY DEF Handling, vars, orders, Has, Placed, InTodo
<1>2. IsOto(id) /\ IsEntry(id) /\ l \notin submittedChildren
  BY DEF TriggersChildren
<1>3. l \in orderLists /\ l \in ListIds /\ id \in Members(l)
  BY <1>1, <1>2, MemberOfList
<1>4. ListOf[l].type = "OTO" /\ ListOf[l].entry = id
  BY <1>2 DEF IsOto, IsEntry
<1> HIDE DEF l
<1>5. Children(l) \subseteq Members(l) /\ id \notin Children(l)
  BY <1>3, <1>4, ListFacts
<1>6. /\ todo' \subseteq ToDo
      /\ \A i : InTodo("submit", i)' <=> i \in Children(l)
      /\ \A i : ~InTodo("cancel", i)'
  <2>1. todo' = Commands("submit", l, Children(l)) BY DEF l
  <2>2. /\ todo' \subseteq ToDo
        /\ \A i : InTodo("submit", i)' <=> i \in Children(l) \cap Members(l)
        /\ \A i : ~InTodo("cancel", i)'
    BY <1>3, <2>1, CommandsTodo
  <2> QED BY <1>5, <2>2
<1>7. \A i : Placed(i)' <=> sent[i] # None \/ i \in Children(l)
  BY <1>1, <1>6 DEF Placed
<1>8. \A i \in Children(l) : sent[i] = None
  BY <1>1, <1>2, <1>3 DEF CInv, ChildInv, l
<1>9. submittedChildren' = submittedChildren \cup {l} BY DEF l
<1>10. orderLists \subseteq ListIds /\ submittedChildren \subseteq orderLists
  BY DEF CInv, ManagerTypeOK, ListsInv
<1>11. ASSUME NEW k \in ListIds, NEW c \in Children(k), c \in Children(l)
       PROVE  k = l
  BY <1>3, <1>11, ListFacts
<1>12. ChildrenWaitForEntry'
  <2> SUFFICES ASSUME NEW k \in ListIds, NEW c \in Children(k), Placed(c)'
               PROVE  /\ Has(ListOf[k].entry, {"Filled"})
                      /\ sent[c] # None => ~InTodo("submit", c)'
    BY <1>1 DEF ChildrenWaitForEntry, Placed
  <2>1. CASE c \in Children(l)
    BY <1>1, <1>4, <1>8, <1>11, <2>1, HasIn
  <2>2. CASE c \notin Children(l)
    <3>1. sent[c] # None BY <1>7, <2>2
    <3> QED BY <1>6, <2>2, <3>1 DEF CInv, ChildInv, ChildrenWaitForEntry
  <2> QED BY <2>1, <2>2
<1>13. EntryFillSubmitsChildren'
  <2> SUFFICES ASSUME NEW k \in orderLists, NEW c \in Children(k),
                      Handled(ListOf[k].entry, "Filled")'
               PROVE  Placed(c)'
    BY <1>1 DEF EntryFillSubmitsChildren, Placed
  <2>1. CASE Handled(ListOf[k].entry, "Filled")
    BY <1>1, <1>7, <2>1 DEF CInv, ChildInv, EntryFillSubmitsChildren
  <2>2. CASE ListOf[k].entry = id
    <3>1. ListFor(id) = k BY <2>2, EntryTriggers
    <3> QED BY <1>7, <3>1 DEF l
  <2> QED BY <2>1, <2>2 DEF Handling
<1>14. ASSUME NEW k \in orderLists', NEW c \in Children(k), Placed(c)'
       PROVE  k \in submittedChildren'
  <2>1. k \in orderLists BY <1>1
  <2>2. CASE c \in Children(l) BY <1>9, <1>10, <1>11, <2>1, <2>2
  <2>3. CASE sent[c] # None BY <1>1, <1>9, <2>1, <2>3 DEF CInv, ChildInv
  <2> QED BY <1>7, <1>14, <2>2, <2>3
<1>15. ASSUME NEW k \in submittedChildren'
       PROVE  /\ ListOf[k].type = "OTO" /\ Has(ListOf[k].entry, {"Filled"})'
              /\ \A c \in Children(k) : Placed(c)'
  <2>1. CASE k = l BY <1>1, <1>4, <1>7, <2>1, HasIn
  <2>2. CASE k \in submittedChildren
    BY <1>1, <1>7, <2>2 DEF CInv, ChildInv
  <2> QED BY <1>9, <2>1, <2>2
<1>16. ChildInv' BY <1>12, <1>13, <1>14, <1>15 DEF ChildInv
<1>17. SweepInv' BY <1>6, SweepRests
<1> QED BY <1>3, <1>6, <1>9, <1>10, <1>16, <1>17

\* The end of an order of a group: the others are canceled.
LEMMA SweepStep ==
  ASSUME IInv, CInv, NEW id, NEW kind \in {"Filled", "Canceled"}, Handling(id, kind),
         Sweeps(id), kind = "Filled" => ~TriggersChildren(id),
         todo' = Commands("cancel", ListFor(id), Siblings(id)),
         submittedChildren' = submittedChildren,
         processedOco' = processedOco \cup {ListFor(id)}
  PROVE  ChildInv' /\ SweepInv' /\ todo' \subseteq ToDo /\ processedOco' \subseteq orderLists
<1> DEFINE l == ListFor(id)
<1>1. /\ todo = {} /\ id \in Ids /\ UNCHANGED <<orderLists, orderToList, inflight, sent,
                                                stored, history>>
      /\ In(history[id], {kind})
      /\ \A i : ~InTodo("cancel", i)
      /\ \A i : Gone(i)' <=> Gone(i)
  BY DEF Handling, vars, orders, InTodo, Gone, InFlight
<1>2. /\ IsOco(id) \/ (IsOto(id) /\ id \in Children(l))
      /\ l \notin processedOco
  BY DEF Sweeps
<1>3. l \in orderLists /\ l \in ListIds /\ id \in Members(l)
  BY <1>1, <1>2, MemberOfList
<1>4. /\ id \in Group(l) /\ Siblings(id) = Group(l) \ {id}
      /\ Group(l) \subseteq Members(l)
  <2>1. IsOco(id) => ListOf[l].type = "OCO" BY DEF IsOco
  <2>2. IsOto(id) => ListOf[l].type = "OTO" BY DEF IsOto
  <2>3. CASE IsOco(id) BY <1>3, <2>1, <2>3 DEF Group, Siblings
  <2>4. CASE ~IsOco(id)
    <3>1. ListOf[l].type # "OCO" /\ id \in Children(l) BY <1>2, <2>2, <2>4
    <3> QED BY <1>3, <2>4, <3>1, ListFacts DEF Group, Siblings
  <2> QED BY <2>3, <2>4
<1>5. processedOco' = processedOco \cup {l} /\ todo' = Commands("cancel", l, Siblings(id))
  OBVIOUS
<1> HIDE DEF l
<1>6. /\ todo' \subseteq ToDo
      /\ \A i : InTodo("cancel", i)' <=> i \in Group(l) \ {id}
      /\ \A i : ~InTodo("submit", i)'
  <2>1. /\ todo' \subseteq ToDo
        /\ \A i : InTodo("cancel", i)' <=> i \in Siblings(id) \cap Members(l)
        /\ \A i : ~InTodo("submit", i)'
    BY <1>3, <1>5, CommandsTodo
  <2> QED BY <1>4, <2>1
<1>7. ChildInv' BY <1>6, ChildRests
<1>8. orderLists \subseteq ListIds /\ processedOco \subseteq orderLists
  BY DEF CInv, ManagerTypeOK, ListsInv
<1>9. ASSUME NEW k \in orderLists', NEW i \in Group(k), NEW other \in Group(k),
             i # other, Ends(k, i)'
      PROVE  k \in processedOco'
  <2>1. k \in orderLists /\ k \in ListIds BY <1>1, <1>8
  <2>2. CASE Ends(k, i) BY <1>5, <1>9, <2>1, <2>2 DEF CInv, SweepInv
  <2>3. CASE ~Ends(k, i)
    <3>1. i = id BY <1>9, <2>3 DEF Handling, Ends
    <3>2. k = l BY <1>3, <2>1, <3>1, ListFacts
    <3> QED BY <1>5, <3>2
  <2> QED BY <2>2, <2>3
<1>10. ASSUME CancelsTrail, NEW k \in processedOco', NEW i \in Group(k)
       PROVE  Doomed(i)'
  <2>1. CASE k \in processedOco
    <3>1. Doomed(i) BY <1>10, <2>1 DEF CInv, SweepInv
    <3> QED BY <1>1, <3>1 DEF Doomed, CancelComing
  <2>2. CASE k = l /\ i = id
    <3>1. In(history[id], Terminal) BY <1>1 DEF In, Terminal
    <3>2. Gone(id) BY <1>1, <3>1, EndedIsGone
    <3> QED BY <1>1, <2>2, <3>2 DEF Doomed
  <2>3. CASE k = l /\ i # id
    BY <1>6, <2>3 DEF Doomed, CancelComing
  <2> QED BY <1>5, <2>1, <2>2, <2>3
<1>11. NoEcho'
  <2> SUFFICES ASSUME NEW k \in orderLists, NEW i \in Group(k), InTodo("cancel", i)',
                      Ends(k, i)'
               PROVE  FALSE
    BY <1>1 DEF NoEcho
  <2>1. k \in ListIds /\ i \in Group(l) /\ i # id BY <1>6, <1>8
  <2>2. k = l BY <1>3, <1>4, <2>1, ListFacts
  <2>3. Ends(l, i) BY <2>1, <2>2 DEF Handling, Ends
  <2> QED BY <1>2, <1>3, <1>4, <2>1, <2>3 DEF CInv, SweepInv, l
<1>12. SweepInv'
  <2>1. CancelsTrail' <=> CancelsTrail BY DEF CancelsTrail
  <2> QED BY <1>9, <1>10, <1>11, <2>1 DEF SweepInv
<1> QED BY <1>3, <1>5, <1>6, <1>7, <1>8, <1>12

\* No order ends twice.
LEMMA OneEnd ==
  ASSUME IInv, NEW id \in Ids, NEW d \in Terminal, NEW e \in Terminal,
         In(history[id], {d}), In(history[id], {e})
  PROVE  d = e
<1> DEFINE h == history[id]
<1>1. PICK i \in DOMAIN h : h[i] = d BY DEF In
<1>2. PICK j \in DOMAIN h : h[j] = e BY DEF In
<1>3. /\ d # "ModifyRejected" /\ e # "ModifyRejected" BY DEF Terminal
<1>4. Told(h, stored[id] # None) BY OneStoryTold DEF IInv
<1>5. h \in Seq(Events) BY DEF IInv, TypeOK
<1> HIDE DEF h
<1>6. i \in Nat /\ j \in Nat BY <1>5
<1>7. ~(i < j) /\ ~(j < i) BY <1>1, <1>2, <1>3, <1>4 DEF Told
<1>8. i = j BY <1>6, <1>7
<1> QED BY <1>1, <1>2, <1>8

\* The children of an entry order that was canceled were not submitted.
LEMMA CanceledEntry ==
  ASSUME IInv, CInv, NEW id \in Ids, In(history[id], {"Canceled"}), IsEntry(id)
  PROVE  ListFor(id) \notin submittedChildren
<1> SUFFICES ASSUME ListFor(id) \in submittedChildren PROVE FALSE
  OBVIOUS
<1>1. Has(ListOf[ListFor(id)].entry, {"Filled"}) BY DEF CInv, ChildInv
<1>2. ListOf[ListFor(id)].entry = id BY DEF IsEntry
<1>3. In(history[id], {"Filled"}) BY <1>1, <1>2, HasIn
<1>4. "Filled" \in Terminal /\ "Canceled" \in Terminal BY DEF Terminal
<1>5. "Filled" = "Canceled" BY <1>3, <1>4, OneEnd
<1> QED BY <1>5

LEMMA HandleStep ==
  ASSUME IInv, CInv, HandleEvent
  PROVE  CInv'
<1> DEFINE e == Head(events)
<1>1. /\ todo = {} /\ events # <<>> /\ events' = Tail(events) /\ UNCHANGED vars
      /\ todo' = Answer(e.kind, e.id) /\ OnOrderEvent(e.kind, e.id)
  BY DEF HandleEvent, Idle
<1>2. /\ UNCHANGED <<now, inflight, count, sent, stored, history>>
      /\ TravelInv'
  <2>1. UNCHANGED <<now, inflight, count, sent, stored, history>>
    BY <1>1 DEF vars, orders
  <2> QED BY <2>1 DEF CInv, TravelInv, Precedes, CancelsTrail
<1>3. /\ Notices' /\ NoteInv'
      /\ e.id \in Ids /\ e.kind \in Events /\ In(history[e.id], {e.kind})
      /\ \A id, kind : Handled(id, kind)' =>
           Handled(id, kind) \/ (id = e.id /\ kind = e.kind)
  <2>1. Notices /\ NoteInv BY DEF CInv, ManagerTypeOK, Notices
  <2> QED BY <1>1, <1>2, <2>1, EventHandled
<1>4. PICK id, kind : id = e.id /\ kind = e.kind
  OBVIOUS
<1>5. /\ todo' = Answer(kind, id) /\ OnOrderEvent(kind, id)
      /\ UNCHANGED <<orderLists, orderToList>>
  <2>1. todo' = Answer(kind, id) /\ OnOrderEvent(kind, id) BY <1>1, <1>4
  <2> QED BY <2>1 DEF OnOrderEvent, OnOrderFilled, OnOrderCanceled
<1>6. Handling(id, kind) BY <1>1, <1>3, <1>4, <1>5 DEF Handling
<1>7. id \in Ids BY <1>3, <1>4
<1> HIDE DEF e
<1> DEFINE Goal == /\ ChildInv' /\ SweepInv' /\ todo' \subseteq ToDo
                   /\ submittedChildren' \subseteq orderLists
                   /\ processedOco' \subseteq orderLists
<1>8. submittedChildren \subseteq orderLists /\ processedOco \subseteq orderLists
  BY DEF CInv, ListsInv
<1>9. ASSUME todo' = {}, UNCHANGED <<submittedChildren, processedOco>>,
             kind = "Filled" => ~TriggersChildren(id) /\ ~Sweeps(id),
             kind = "Canceled" => ~(IsOco(id) /\ Sweeps(id))
      PROVE  Goal
  <2>1. \A i : ~InTodo("submit", i)' /\ ~InTodo("cancel", i)'
    BY <1>9 DEF InTodo
  <2>2. ChildInv' BY <1>6, <1>9, <2>1, ChildRests
  <2>3. SweepInv' BY <1>6, <1>9, <2>1, SweepRests
  <2> QED BY <1>8, <1>9, <2>2, <2>3
<1>10. ASSUME kind = "Filled" PROVE Goal
  <2>1. todo' = ActionsOnFilled(id) /\ OnOrderFilled(id)
    BY <1>5, <1>10 DEF Answer, OnOrderEvent
  <2>2. CASE TriggersChildren(id)
    <3>1. todo' = Commands("submit", ListFor(id), Children(ListFor(id)))
      BY <2>1, <2>2 DEF ActionsOnFilled
    <3>2. /\ submittedChildren' = submittedChildren \cup {ListFor(id)}
          /\ processedOco' = processedOco
      BY <2>1, <2>2 DEF OnOrderFilled
    <3>3. Handling(id, "Filled") BY <1>6, <1>10
    <3> QED BY <1>8, <2>2, <3>1, <3>2, <3>3, TriggerStep
  <2>3. CASE ~TriggersChildren(id) /\ Sweeps(id)
    <3>1. todo' = Commands("cancel", ListFor(id), Siblings(id))
      BY <2>1, <2>3 DEF ActionsOnFilled
    <3>2. /\ submittedChildren' = submittedChildren
          /\ processedOco' = processedOco \cup {ListFor(id)}
      BY <2>1, <2>3 DEF OnOrderFilled
    <3> QED BY <1>6, <1>8, <1>10, <2>3, <3>1, <3>2, SweepStep
  <2>4. CASE ~TriggersChildren(id) /\ ~Sweeps(id)
    <3>1. todo' = {} BY <2>1, <2>4 DEF ActionsOnFilled
    <3>2. UNCHANGED <<submittedChildren, processedOco>>
      BY <2>1, <2>4 DEF OnOrderFilled
    <3> QED BY <1>9, <1>10, <2>4, <3>1, <3>2
  <2> QED BY <2>2, <2>3, <2>4
<1>11. ASSUME kind = "Canceled" PROVE Goal
  <2>1. todo' = ActionsOnCanceled(id) /\ OnOrderCanceled(id)
    BY <1>5, <1>11 DEF Answer, OnOrderEvent
  <2>2. CASE IsOco(id) /\ Sweeps(id)
    <3>1. todo' = Commands("cancel", ListFor(id), Siblings(id))
      BY <2>1, <2>2 DEF ActionsOnCanceled
    <3>2. /\ submittedChildren' = submittedChildren
          /\ processedOco' = processedOco \cup {ListFor(id)}
      BY <2>1, <2>2 DEF OnOrderCanceled
    <3> QED BY <1>6, <1>8, <1>11, <2>2, <3>1, <3>2, SweepStep
  <2>3. CASE ~(IsOco(id) /\ Sweeps(id))
    <3>1. IsEntry(id) => ListFor(id) \notin submittedChildren
      BY <1>6, <1>7, <1>11, CanceledEntry DEF Handling
    <3>2. todo' = {} BY <2>1, <2>3, <3>1 DEF ActionsOnCanceled
    <3>3. UNCHANGED <<submittedChildren, processedOco>>
      BY <2>1, <2>3 DEF OnOrderCanceled
    <3> QED BY <1>9, <1>11, <2>3, <3>2, <3>3
  <2> QED BY <2>2, <2>3
<1>12. ASSUME kind \notin {"Filled", "Canceled"} PROVE Goal
  <2>1. todo' = {} /\ UNCHANGED <<submittedChildren, processedOco>>
    BY <1>5, <1>12 DEF Answer, OnOrderEvent
  <2> QED BY <1>9, <1>12, <2>1
<1>13. Goal BY <1>10, <1>11, <1>12
<1>14. ManagerTypeOK' BY <1>3, <1>5, <1>13 DEF CInv, ManagerTypeOK, Notices
<1>15. ListsInv' BY <1>5, <1>13 DEF CInv, ListsInv
<1> QED BY <1>2, <1>3, <1>13, <1>14, <1>15 DEF CInv

-----------------------------------------------------------------------------
(* The whole.                                                              *)

LEMMA ContingentStep ==
  ASSUME IInv, CInv, [ContingentNext]_cvars
  PROVE  [Next]_vars /\ IInv' /\ CInv'
<1>1. CASE CommandsStep \/ BarStep
  <2>1. Next
    BY <1>1 DEF CommandsStep, BarStep, RunCommands, RunData, Next, Data
  <2> QED BY <1>1, <2>1, CallStep, NextInv
<1>2. CASE NextBarTime
  <2>1. Next BY <1>2 DEF NextBarTime, Next
  <2> QED BY <1>2, <2>1, TimeStep, NextInv
<1>3. CASE SendCommand BY <1>3, SendStep, NextInv
<1>4. CASE HandleEvent
  <2>1. UNCHANGED vars BY <1>4 DEF HandleEvent
  <2> QED BY <1>4, <2>1, HandleStep, NextInv
<1>5. ASSUME NEW l \in ListIds, Register(l) \/ Unregister(l) \/ SubmitList(l)
      PROVE  [Next]_vars /\ IInv' /\ CInv'
  <2>1. UNCHANGED vars BY <1>5 DEF Register, Unregister, SubmitList
  <2>2. CInv' BY <1>5, RegisterStep, UnregisterStep, SubmitListStep
  <2> QED BY <2>1, <2>2, NextInv
<1>6. ASSUME NEW id \in Ids, CallerCancels(id) PROVE [Next]_vars /\ IInv' /\ CInv'
  <2>1. CancelOrder(id) /\ UNCHANGED <<manager, events>> /\ todo' = todo
    BY <1>6 DEF CallerCancels
  <2>2. Next BY <2>1 DEF Next, Caller
  <2> QED BY <2>1, <2>2, CancelSends, NextInv
<1>7. CASE UNCHANGED cvars
  <2>1. UNCHANGED vars /\ UNCHANGED <<manager, events, todo>>
    BY <1>7 DEF cvars
  <2>2. UNCHANGED <<orderLists, orderToList, submittedChildren, processedOco>>
    BY <2>1 DEF manager
  <2>3. /\ UNCHANGED <<now, inflight, count, sent, stored, history>>
        /\ \A id, K : Has(id, K)' <=> Has(id, K)
        /\ \A id, kind : Handled(id, kind)' <=> Handled(id, kind)
        /\ \A id : Gone(id)' <=> Gone(id)
        /\ \A k, id : Ends(k, id)' <=> Ends(k, id)
        /\ TravelInv' /\ NoteInv'
    BY <2>1, SameOrders DEF CInv
  <2>4. \A kind, id : InTodo(kind, id)' <=> InTodo(kind, id) BY <2>1 DEF InTodo
  <2>5. ManagerTypeOK' /\ ListsInv'
    BY <2>1, <2>2 DEF CInv, ManagerTypeOK, ListsInv
  <2>6. ChildInv'
    <3>1. \A id : Placed(id)' <=> Placed(id) BY <2>3, <2>4 DEF Placed
    <3> QED BY <2>2, <2>3, <2>4, <3>1, ChildKept DEF CInv
  <2>7. SweepInv'
    <3>1. \A id : Doomed(id)' <=> Doomed(id)
      BY <2>3, <2>4 DEF Doomed, CancelComing
    <3> QED BY <2>2, <2>3, <2>4, <3>1, SweepKept DEF CInv
  <2> QED BY <2>1, <2>3, <2>5, <2>6, <2>7, NextInv DEF CInv
<1> QED
  BY <1>1, <1>2, <1>3, <1>4, <1>5, <1>6, <1>7 DEF ContingentNext

LEMMA ContingentStart == ContingentInit => IInv /\ CInv
<1> SUFFICES ASSUME ContingentInit PROVE IInv /\ CInv
  OBVIOUS
<1>1. IInv BY InitInv DEF ContingentInit
<1>2. /\ orderLists = {} /\ orderToList = [id \in Ids |-> None]
      /\ submittedChildren = {} /\ processedOco = {}
      /\ events = <<>> /\ todo = {} /\ inflight = {}
      /\ sent = [id \in Ids |-> None]
  BY DEF ContingentInit, ManagerInit, Init
<1>3. ManagerTypeOK BY <1>2 DEF ManagerTypeOK
<1>4. ListsInv BY <1>2 DEF ListsInv
<1>5. NoteInv BY <1>2 DEF NoteInv
<1>6. TravelInv BY <1>2 DEF TravelInv
<1>7. \A l \in ListIds : \A id \in Children(l) : ~Placed(id)
  BY <1>2, ListFacts DEF Placed, InTodo
<1>8. ChildInv
  BY <1>2, <1>7 DEF ChildInv, ChildrenWaitForEntry, EntryFillSubmitsChildren, Placed
<1>9. SweepInv BY <1>2 DEF SweepInv, NoEcho
<1> QED BY <1>1, <1>3, <1>4, <1>5, <1>6, <1>8, <1>9 DEF CInv

LEMMA AlwaysCInv == ContingentSpec => [](IInv /\ CInv)
<1>1. (IInv /\ CInv) /\ [ContingentNext]_cvars => (IInv /\ CInv)'
  BY ContingentStep
<1> QED BY <1>1, ContingentStart, PTL DEF ContingentSpec

\* The manager and its caller only make calls of the exchange: every step is a
\* step of the exchange or leaves it alone, so what is proved of the exchange
\* holds at work with the manager.
THEOREM ExchangeServesManager == ContingentSpec => Spec
<1>1. ContingentInit => Init BY DEF ContingentInit
<1>2. (IInv /\ CInv) /\ [ContingentNext]_cvars => [Next]_vars BY ContingentStep
<1> QED BY <1>1, <1>2, AlwaysCInv, PTL DEF ContingentSpec, Spec

\* The maps of the manager, the events still to be handled and the commands
\* of its answer stay of their types; in particular only registered lists and
\* their orders are ever looked up.
THEOREM ManagerTypeCorrect == ContingentSpec => []ManagerTypeOK
<1>1. CInv => ManagerTypeOK BY DEF CInv
<1> QED BY <1>1, AlwaysCInv, PTL

\* on_order_filled: the children of a bracket go to the exchange after the
\* fill of its entry order, and once, whatever latencies, cancellations,
\* expiries and bars come in between.
THEOREM ChildrenAlwaysWait == ContingentSpec => []ChildrenWaitForEntry
<1>1. CInv => ChildrenWaitForEntry BY DEF CInv, ChildInv
<1> QED BY <1>1, AlwaysCInv, PTL

\* And no bracket's position is left without its children: when the fill of
\* the entry was handled they have all been submitted or are next.
THEOREM EntryFillAlwaysSubmits == ContingentSpec => []EntryFillSubmitsChildren
<1>1. CInv => EntryFillSubmitsChildren BY DEF CInv, ChildInv
<1> QED BY <1>1, AlwaysCInv, PTL

\* When the end of one order of an OCO group, or the fill of one child of a
\* bracket, was handled, no other works at the exchange without its
\* cancellation on the way, if no cancellation overtakes a submission.
THEOREM SiblingsAlwaysCanceled == ContingentSpec => []NoSiblingLeftWorking
<1>1. CInv => NoSiblingLeftWorking
  BY DEF CInv, SweepInv, NoSiblingLeftWorking, Doomed, Gone
<1> QED BY <1>1, AlwaysCInv, PTL

\* An order's end does not come back as a cancellation of that order when its
\* siblings end in turn: processed_oco cuts the chain.
THEOREM CancelsNeverEcho == ContingentSpec => []NoEcho
<1>1. CInv => NoEcho BY DEF CInv, SweepInv
<1> QED BY <1>1, AlwaysCInv, PTL

=============================================================================
