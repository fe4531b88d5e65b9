----------------------- MODULE SimulatedExchangeProofs -----------------------
(***************************************************************************)
(* Theorems about SimulatedExchange for every value of its constants.      *)
(* IInv strengthens the invariants of the module into one that every step  *)
(* preserves.  The sum of the locked funds is the number of locked units,  *)
(* so that it can be reasoned about with the theorems on cardinality.      *)
(***************************************************************************)
EXTENDS SimulatedExchange, FiniteSetTheorems, TLAPS

LockRec == [acct : Accounts, amount : Nat]
Balance == [total : Nat, free : Nat, locked : Nat]

\* An order is in the books only after it was sent.
SentInv ==
  /\ \A id \in Ids : sent[id] = None => stored[id] = None /\ history[id] = <<>>
  /\ \A c \in inflight : sent[c.id] # None

\* A submission on its way is the only one of its order, of which nothing but
\* refused modifications was reported.
PendingInv ==
  \A c \in inflight : c.kind = "submit" =>
    /\ \A i \in DOMAIN history[c.id] : history[c.id][i] = "ModifyRejected"
    /\ \A d \in inflight : d.kind = "submit" /\ d.id = c.id => d = c

\* A stored order is unfilled, and the engine has it once.
WorkInv ==
  /\ phase # "data" => matches = {}
  /\ \A id \in Ids : stored[id] # None => stored[id].cum = 0 /\ stored[id].qty > 0
  /\ OneCopyWorking

\* The funds locked for a stored order are what it costs at its price.
LockInv ==
  \A id \in Ids :
    /\ lock[id] # None =>
         /\ stored[id] # None /\ stored[id].price # None
         /\ Required(sent[id]) > 0
         /\ lock[id].acct = sent[id].acct
         /\ lock[id].amount = Cost(stored[id].price, stored[id].qty)
    /\ stored[id] # None /\ Required(sent[id]) > 0 => lock[id] # None

\* The balances agree with the locks and with what a reset forgot of them.
MoneyInv ==
  /\ BalancesConsistent
  /\ \A a \in Accounts :
       /\ IsFiniteSet(LockedUnits(lock, a))
       /\ balance[a].locked = forgotten[a] + Cardinality(LockedUnits(lock, a))

IInv == /\ TypeOK /\ SentInv /\ PendingInv /\ WorkInv /\ LockInv /\ MoneyInv
        /\ OneStory

-----------------------------------------------------------------------------
(* The number of locked units follows every change of a lock.              *)

\* What the lock e contributes to account a.
Amount(e, a) == IF e # None /\ e.acct = a THEN e.amount ELSE 0

LEMMA UnitsSize ==
  ASSUME NEW id, NEW e \in LockRec \cup {None}, NEW a
  PROVE  IsFiniteSet(Units(id, e, a)) /\ Cardinality(Units(id, e, a)) = Amount(e, a)
<1>1. CASE e # None /\ e.acct = a
  <2>1. e.amount \in Nat
    BY <1>1 DEF LockRec
  <2>2. /\ IsFiniteSet(1 .. e.amount)
        /\ Cardinality(1 .. e.amount) = e.amount
    <3>1. /\ IsFiniteSet(1 .. e.amount)
          /\ Cardinality(1 .. e.amount) =
               IF 1 > e.amount THEN 0 ELSE e.amount - 1 + 1
      <4>1. 1 \in Int /\ e.amount \in Int
        BY <2>1
      <4> QED BY <4>1, FS_Interval
    <3> QED BY <2>1, <3>1
  <2>3. /\ IsFiniteSet({id}) /\ Cardinality({id}) = 1
    BY FS_Singleton
  <2>4. /\ IsFiniteSet({id} \X (1 .. e.amount))
        /\ Cardinality({id} \X (1 .. e.amount)) = 1 * e.amount
    BY <2>2, <2>3, FS_Product
  <2> QED BY <1>1, <2>1, <2>4 DEF Units, Amount
<1>2. CASE ~(e # None /\ e.acct = a)
  BY <1>2, FS_EmptySet DEF Units, Amount
<1> QED BY <1>1, <1>2

\* The locks l with the entry of id replaced by v.
LEMMA UnitsChange ==
  ASSUME NEW l \in [Ids -> LockRec \cup {None}], NEW id \in Ids,
         NEW v \in LockRec \cup {None}, NEW a, IsFiniteSet(LockedUnits(l, a)),
         NEW k \in [Ids -> LockRec \cup {None}],
         \A i \in Ids : k[i] = IF i = id THEN v ELSE l[i]
  PROVE  /\ IsFiniteSet(LockedUnits(k, a))
         /\ Cardinality(LockedUnits(k, a)) + Amount(l[id], a)
              = Cardinality(LockedUnits(l, a)) + Amount(v, a)
         /\ Amount(l[id], a) <= Cardinality(LockedUnits(l, a))
         /\ Cardinality(LockedUnits(l, a)) \in Nat
         /\ Cardinality(LockedUnits(k, a)) \in Nat
<1> DEFINE Rest == UNION {Units(i, l[i], a) : i \in Ids \ {id}}
<1>1. LockedUnits(l, a) = Rest \cup Units(id, l[id], a)
  BY DEF LockedUnits
<1>2. LockedUnits(k, a) = Rest \cup Units(id, v, a)
  <2>1. k[id] = v /\ \A i \in Ids \ {id} : k[i] = l[i]
    OBVIOUS
  <2>2. ASSUME NEW u
        PROVE  (\E i \in Ids : u \in Units(i, k[i], a))
                 <=> (u \in Units(id, v, a)
                        \/ \E i \in Ids \ {id} : u \in Units(i, l[i], a))
    BY <2>1
  <2> QED BY <2>2 DEF LockedUnits
<1>3. /\ Rest \cap Units(id, l[id], a) = {}
      /\ Rest \cap Units(id, v, a) = {}
  <2>1. \A i, e, u : u \in Units(i, e, a) => u[1] = i
    BY DEF Units
  <2> QED BY <2>1
<1>4. IsFiniteSet(Rest)
  BY <1>1, FS_Subset
<1>5. l[id] \in LockRec \cup {None}
  OBVIOUS
<1>6. /\ IsFiniteSet(Units(id, l[id], a))
      /\ Cardinality(Units(id, l[id], a)) = Amount(l[id], a)
      /\ IsFiniteSet(Units(id, v, a))
      /\ Cardinality(Units(id, v, a)) = Amount(v, a)
  BY <1>5, UnitsSize
<1>7. /\ IsFiniteSet(LockedUnits(k, a))
      /\ Cardinality(LockedUnits(k, a)) =
           Cardinality(Rest) + Amount(v, a) - Cardinality({})
      /\ Cardinality(LockedUnits(l, a)) =
           Cardinality(Rest) + Amount(l[id], a) - Cardinality({})
  <2>1. Cardinality(Rest \cup Units(id, v, a)) =
          Cardinality(Rest) + Cardinality(Units(id, v, a)) - Cardinality({})
    BY <1>3, <1>4, <1>6, FS_Union
  <2>2. Cardinality(Rest \cup Units(id, l[id], a)) =
          Cardinality(Rest) + Cardinality(Units(id, l[id], a)) - Cardinality({})
    BY <1>3, <1>4, <1>6, FS_Union
  <2>3. IsFiniteSet(Rest \cup Units(id, v, a))
    BY <1>4, <1>6, FS_Union
  <2> HIDE DEF Rest
  <2> QED BY <1>1, <1>2, <1>6, <2>1, <2>2, <2>3
<1>8. Cardinality({}) = 0 /\ Cardinality(Rest) \in Nat
  BY <1>4, FS_EmptySet, FS_CardinalityType
<1>9. Amount(l[id], a) \in Nat /\ Amount(v, a) \in Nat
  BY <1>5 DEF Amount, LockRec
<1> HIDE DEF Rest
<1> QED BY <1>7, <1>8, <1>9

-----------------------------------------------------------------------------
(* The story an order's events tell.                                       *)

In(h, kinds) == \E i \in DOMAIN h : h[i] \in kinds
Told(h, isStored) ==
  /\ \A i, j \in DOMAIN h : i < j =>
       /\ h[i] \in Terminal => h[j] = "ModifyRejected"
       /\ h[j] = "Accepted" => h[i] = "ModifyRejected"
  /\ isStored <=> In(h, {"Accepted"}) /\ ~In(h, Terminal)

LEMMA OneStoryTold ==
  OneStory <=> \A id \in Ids : Told(history[id], stored[id] # None)
BY DEF OneStory, Told, Has, In

LEMMA OneStoryTold2 ==
  OneStory' <=> \A id \in Ids : Told(history'[id], stored'[id] # None)
BY DEF OneStory, Told, Has, In

LEMMA Appended ==
  ASSUME NEW h \in Seq(Events), NEW e \in Events, NEW g, g = Append(h, e)
  PROVE  /\ g \in Seq(Events)
         /\ DOMAIN g = 1 .. Len(h) + 1 /\ DOMAIN h = 1 .. Len(h)
         /\ Len(h) \in Nat
         /\ \A i \in DOMAIN h : g[i] = h[i]
         /\ g[Len(h) + 1] = e
OBVIOUS

LEMMA AppendedIn ==
  ASSUME NEW h \in Seq(Events), NEW e \in Events, NEW g, g = Append(h, e),
         NEW K
  PROVE  In(g, K) <=> In(h, K) \/ e \in K
<1>1. /\ DOMAIN g = 1 .. Len(h) + 1 /\ DOMAIN h = 1 .. Len(h)
      /\ Len(h) \in Nat
      /\ \A i \in DOMAIN h : g[i] = h[i]
      /\ g[Len(h) + 1] = e
  BY Appended
<1>2. ASSUME NEW i \in DOMAIN g PROVE i \in DOMAIN h \/ i = Len(h) + 1
  BY <1>1
<1> QED BY <1>1, <1>2 DEF In

\* What an event appended to a story makes of it.
LEMMA TellMore ==
  ASSUME NEW h \in Seq(Events), NEW e \in Events, NEW g, g = Append(h, e),
         NEW old \in BOOLEAN, Told(h, old),
         In(h, Terminal) => e = "ModifyRejected",
         e = "Accepted" => \A i \in DOMAIN h : h[i] = "ModifyRejected"
  PROVE  Told(g, In(g, {"Accepted"}) /\ ~In(g, Terminal))
<1>1. /\ DOMAIN g = 1 .. Len(h) + 1 /\ DOMAIN h = 1 .. Len(h)
      /\ Len(h) \in Nat
      /\ \A i \in DOMAIN h : g[i] = h[i]
      /\ g[Len(h) + 1] = e
  BY Appended
<1>2. ASSUME NEW i \in DOMAIN g, NEW j \in DOMAIN g, i < j
      PROVE  /\ g[i] \in Terminal => g[j] = "ModifyRejected"
             /\ g[j] = "Accepted" => g[i] = "ModifyRejected"
  <2>1. i \in DOMAIN h
    BY <1>1, <1>2
  <2>2. CASE j \in DOMAIN h
    BY <1>1, <1>2, <2>1, <2>2 DEF Told
  <2>3. CASE j = Len(h) + 1
    BY <1>1, <2>1, <2>3 DEF In
  <2> QED BY <1>1, <2>2, <2>3
<1> QED BY <1>2 DEF Told

\* An order whose story goes on with event e, in the books as the last
\* argument says.
LEMMA StoryStep ==
  ASSUME TypeOK, OneStory, NEW id \in Ids, NEW e \in Events, Report(id, e),
         In(history[id], Terminal) => e = "ModifyRejected",
         e = "Accepted" =>
           \A i \in DOMAIN history[id] : history[id][i] = "ModifyRejected",
         \A i \in Ids \ {id} : stored'[i] # None <=> stored[i] # None,
         stored'[id] # None <=> /\ In(history[id], {"Accepted"}) \/ e = "Accepted"
                                /\ ~In(history[id], Terminal) /\ e \notin Terminal
  PROVE  OneStory' /\ history' \in [Ids -> Seq(Events)]
<1>1. /\ history \in [Ids -> Seq(Events)]
      /\ history' = [history EXCEPT ![id] = Append(@, e)]
  BY DEF TypeOK, Report
<1>2. history' \in [Ids -> Seq(Events)]
  BY <1>1
<1>3. \A i \in Ids : Told(history[i], stored[i] # None)
  BY OneStoryTold
<1>4. ASSUME NEW i \in Ids PROVE Told(history'[i], stored'[i] # None)
  <2>1. CASE i = id
    <3>1. history'[id] = Append(history[id], e) /\ history[id] \in Seq(Events)
      BY <1>1
    <3>2. Told(history[id], stored[id] # None) /\ (stored[id] # None) \in BOOLEAN
      BY <1>3
    <3>3. Told(history'[id],
               In(history'[id], {"Accepted"}) /\ ~In(history'[id], Terminal))
      BY <3>1, <3>2, TellMore
    <3>4. In(history'[id], {"Accepted"})
            <=> In(history[id], {"Accepted"}) \/ e \in {"Accepted"}
      BY <3>1, AppendedIn
    <3>5. In(history'[id], Terminal) <=> In(history[id], Terminal) \/ e \in Terminal
      BY <3>1, AppendedIn
    <3> QED BY <2>1, <3>3, <3>4, <3>5 DEF Told
  <2>2. CASE i # id
    BY <1>1, <1>3, <2>2 DEF Told
  <2> QED BY <2>1, <2>2
<1> QED BY <1>2, <1>4, OneStoryTold2

-----------------------------------------------------------------------------
(* The money.                                                              *)

MoneyType ==
  /\ lock \in [Ids -> LockRec \cup {None}]
  /\ balance \in [Accounts -> Balance]
  /\ spent \in [Accounts -> Nat]
  /\ forgotten \in [Accounts -> Nat]

LEMMA TypeMoney == TypeOK => MoneyType
BY DEF TypeOK, MoneyType, LockRec, Balance

LEMMA LockIsNotNone == None \notin LockRec
BY ExchangeAssumption DEF LockRec

\* What the operations make of the three amounts of a balance.
LEMMA BalanceOps ==
  ASSUME NEW b \in Balance, NEW n \in Nat, b.free + b.locked = b.total
  PROVE  /\ n <= b.free => /\ Locked(b, n) \in Balance
                           /\ Locked(b, n).total = b.total
                           /\ Locked(b, n).free = b.free - n
                           /\ Locked(b, n).locked = b.locked + n
         /\ n <= b.locked => /\ Unlocked(b, n) \in Balance
                             /\ Unlocked(b, n).total = b.total
                             /\ Unlocked(b, n).free = b.free + n
                             /\ Unlocked(b, n).locked = b.locked - n
         /\ n <= b.locked => /\ Charged(b, n) \in Balance
                             /\ Charged(b, n).total = b.total - n
                             /\ Charged(b, n).free = b.free
                             /\ Charged(b, n).locked = b.locked - n
<1>1. b.total \in Nat /\ b.free \in Nat /\ b.locked \in Nat
  BY DEF Balance
<1>2. ASSUME n <= b.free
      PROVE  /\ Locked(b, n) \in Balance
             /\ Locked(b, n).total = b.total
             /\ Locked(b, n).free = b.free - n
             /\ Locked(b, n).locked = b.locked + n
  <2> DEFINE f == b.free - n
             l == b.locked + n
  <2>1. f \in Nat /\ l \in Nat
    BY <1>1, <1>2
  <2>2. Locked(b, n) = [b EXCEPT !.free = f, !.locked = l]
    BY DEF Locked
  <2> HIDE DEF f, l
  <2>3. Locked(b, n) \in Balance /\ Locked(b, n).total = b.total
    BY <2>1, <2>2 DEF Balance
  <2>4. Locked(b, n).free = f /\ Locked(b, n).locked = l
    BY <2>2 DEF Balance
  <2> QED BY <2>3, <2>4 DEF f, l
<1>3. ASSUME n <= b.locked
      PROVE  /\ Unlocked(b, n) \in Balance
             /\ Unlocked(b, n).total = b.total
             /\ Unlocked(b, n).free = b.free + n
             /\ Unlocked(b, n).locked = b.locked - n
             /\ Charged(b, n) \in Balance
             /\ Charged(b, n).total = b.total - n
             /\ Charged(b, n).free = b.free
             /\ Charged(b, n).locked = b.locked - n
  <2> DEFINE f == b.free + n
             l == b.locked - n
             t == b.total - n
  <2>1. f \in Nat /\ l \in Nat /\ t \in Nat
    BY <1>1, <1>3
  <2>2. ~(n > b.locked)
    BY <1>1, <1>3
  <2>3. /\ Unlocked(b, n) = [b EXCEPT !.locked = l, !.free = f]
        /\ Charged(b, n) = [b EXCEPT !.locked = l, !.total = t]
    BY <2>2 DEF Unlocked, Charged
  <2> HIDE DEF f, l, t
  <2>4. /\ Unlocked(b, n) \in Balance /\ Unlocked(b, n).total = b.total
        /\ Charged(b, n) \in Balance /\ Charged(b, n).free = b.free
    BY <2>1, <2>3 DEF Balance
  <2>5. /\ Unlocked(b, n).free = f /\ Unlocked(b, n).locked = l
        /\ Charged(b, n).total = t /\ Charged(b, n).locked = l
    BY <2>3 DEF Balance
  <2> QED BY <2>4, <2>5 DEF f, l, t
<1> QED BY <1>2, <1>3

\* The entry v replaces the lock of id, and account a, the only one concerned,
\* gets the balance b and has spent s.
LEMMA MoneyStep ==
  ASSUME MoneyType, MoneyInv, NEW id \in Ids, NEW v \in LockRec \cup {None},
         NEW a \in Accounts, NEW b \in Balance, NEW s \in Nat,
         lock[id] # None => lock[id].acct = a, v # None => v.acct = a,
         lock' = [lock EXCEPT ![id] = v],
         balance' = [balance EXCEPT ![a] = b],
         spent' = [spent EXCEPT ![a] = s],
         forgotten' = forgotten,
         b.free + b.locked = b.total, b.total + s = Deposit[a],
         b.locked + Amount(lock[id], a) = balance[a].locked + Amount(v, a)
  PROVE  MoneyType' /\ MoneyInv'
<1>1. MoneyType'
  BY DEF MoneyType
<1>2. /\ lock \in [Ids -> LockRec \cup {None}] /\ lock[id] \in LockRec \cup {None}
      /\ balance \in [Accounts -> Balance] /\ spent \in [Accounts -> Nat]
  BY DEF MoneyType
<1>3. ASSUME NEW x \in Accounts
      PROVE  /\ balance'[x].free + balance'[x].locked = balance'[x].total
             /\ balance'[x].total + spent'[x] = Deposit[x]
             /\ IsFiniteSet(LockedUnits(lock', x))
             /\ balance'[x].locked =
                  forgotten'[x] + Cardinality(LockedUnits(lock', x))
  <2>1. /\ balance[x].free + balance[x].locked = balance[x].total
        /\ balance[x].total + spent[x] = Deposit[x]
        /\ IsFiniteSet(LockedUnits(lock, x))
        /\ balance[x].locked = forgotten[x] + Cardinality(LockedUnits(lock, x))
        /\ forgotten[x] \in Nat
    BY DEF MoneyInv, BalancesConsistent, MoneyType
  <2>2. /\ IsFiniteSet(LockedUnits(lock', x))
        /\ Cardinality(LockedUnits(lock', x)) + Amount(lock[id], x)
             = Cardinality(LockedUnits(lock, x)) + Amount(v, x)
        /\ Cardinality(LockedUnits(lock, x)) \in Nat
        /\ Cardinality(LockedUnits(lock', x)) \in Nat
    <3>1. ASSUME NEW k \in [Ids -> LockRec \cup {None}],
                 \A i \in Ids : k[i] = IF i = id THEN v ELSE lock[i]
          PROVE  /\ IsFiniteSet(LockedUnits(k, x))
                 /\ Cardinality(LockedUnits(k, x)) + Amount(lock[id], x)
                      = Cardinality(LockedUnits(lock, x)) + Amount(v, x)
                 /\ Cardinality(LockedUnits(lock, x)) \in Nat
                 /\ Cardinality(LockedUnits(k, x)) \in Nat
      <4>1. lock \in [Ids -> LockRec \cup {None}] /\ IsFiniteSet(LockedUnits(lock, x))
        BY <1>2, <2>1
      <4>2. id \in Ids /\ v \in LockRec \cup {None}
        OBVIOUS
      <4> QED BY ONLY <3>1, <4>1, <4>2, UnitsChange
    <3>2. /\ lock' \in [Ids -> LockRec \cup {None}]
          /\ \A i \in Ids : lock'[i] = IF i = id THEN v ELSE lock[i]
      BY <1>1, <1>2 DEF MoneyType
    <3> QED BY <3>1, <3>2
  <2>3. /\ Amount(lock[id], x) \in Nat /\ Amount(v, x) \in Nat
        /\ balance[x].locked \in Nat
    BY <1>2 DEF Amount, LockRec, Balance
  <2>4. CASE x = a
    <3>1. balance'[x] = b /\ spent'[x] = s
      BY <1>2, <2>4
    <3>2. b.locked \in Nat
      BY DEF Balance
    <3> QED BY <2>1, <2>2, <2>3, <2>4, <3>1, <3>2
  <2>5. CASE x # a
    <3>1. balance'[x] = balance[x] /\ spent'[x] = spent[x]
      BY <1>2, <2>5
    <3>2. Amount(lock[id], x) = 0 /\ Amount(v, x) = 0
      BY <2>5 DEF Amount
    <3> QED BY <2>1, <2>2, <2>3, <3>1, <3>2
  <2> QED BY <2>4, <2>5
<1>4. MoneyInv'
  BY <1>3 DEF MoneyInv, BalancesConsistent
<1> QED BY <1>1, <1>4

\* Where locks and balances do not change.
LEMMA MoneyStays ==
  ASSUME MoneyType, MoneyInv, UNCHANGED <<lock, balance, spent, forgotten>>
  PROVE  MoneyType' /\ MoneyInv'
BY DEF MoneyType, MoneyInv, BalancesConsistent

\* A lock never exceeds what is locked in its account.
LEMMA LockCovered ==
  ASSUME MoneyType, MoneyInv, NEW id \in Ids, lock[id] # None
  PROVE  /\ lock[id] \in LockRec
         /\ lock[id].amount <= balance[lock[id].acct].locked
<1> DEFINE a == lock[id].acct
<1>1. lock[id] \in LockRec /\ a \in Accounts /\ lock[id].amount \in Nat
  BY DEF MoneyType, LockRec
<1>2. /\ IsFiniteSet(LockedUnits(lock, a))
      /\ balance[a].locked = forgotten[a] + Cardinality(LockedUnits(lock, a))
      /\ forgotten[a] \in Nat
  BY <1>1 DEF MoneyInv, MoneyType
<1>3. /\ Amount(lock[id], a) <= Cardinality(LockedUnits(lock, a))
      /\ Cardinality(LockedUnits(lock, a)) \in Nat
  <2>1. lock \in [Ids -> LockRec \cup {None}]
    BY DEF MoneyType
  <2>2. \E k \in [Ids -> LockRec \cup {None}] :
          \A i \in Ids : k[i] = IF i = id THEN None ELSE lock[i]
    <3>1. [lock EXCEPT ![id] = None] \in [Ids -> LockRec \cup {None}]
      BY <2>1
    <3> QED BY <2>1, <3>1
  <2> QED BY <1>2, <2>1, <2>2, UnitsChange
<1>4. balance[a].locked \in Nat
  BY <1>1 DEF MoneyType, Balance
<1> QED BY <1>1, <1>2, <1>3, <1>4 DEF Amount

\* An order ends without a fill: what was locked for it is free again.
LEMMA MoneyReleased ==
  ASSUME MoneyType, MoneyInv, NEW id \in Ids,
         lock' = [lock EXCEPT ![id] = None], balance' = Settle(id, Unlocked),
         UNCHANGED <<spent, forgotten>>
  PROVE  MoneyType' /\ MoneyInv'
<1>1. CASE lock[id] = None
  <2>1. lock' = lock /\ balance' = balance
    BY <1>1 DEF MoneyType, Settle
  <2> QED BY <2>1, MoneyStays
<1>2. CASE lock[id] # None
  <2> DEFINE a == lock[id].acct
             n == lock[id].amount
             b == Unlocked(balance[a], n)
  <2>1. lock[id] \in LockRec /\ a \in Accounts /\ n \in Nat /\ n <= balance[a].locked
    BY <1>2, LockCovered DEF LockRec
  <2>2. balance[a] \in Balance /\ spent[a] \in Nat
    BY <2>1 DEF MoneyType
  <2>3. /\ balance[a].free + balance[a].locked = balance[a].total
        /\ balance[a].total + spent[a] = Deposit[a]
    BY <2>1 DEF MoneyInv, BalancesConsistent
  <2>5. /\ b \in Balance /\ b.locked = balance[a].locked - n
        /\ b.free = balance[a].free + n /\ b.total = balance[a].total
    BY <2>1, <2>2, <2>3, BalanceOps
  <2>6. balance' = [balance EXCEPT ![a] = b]
    BY <1>2, <2>1 DEF Settle, MoneyType
  <2>7. spent' = [spent EXCEPT ![a] = spent[a]]
    BY <2>1 DEF MoneyType
  <2>8. b.free + b.locked = b.total /\ b.total + spent[a] = Deposit[a]
    BY <2>1, <2>2, <2>3, <2>5 DEF Balance
  <2>9. b.locked + Amount(lock[id], a) = balance[a].locked + Amount(None, a)
    BY <1>2, <2>1, <2>2, <2>5 DEF Amount, Balance
  <2>10. /\ MoneyType /\ MoneyInv /\ id \in Ids /\ None \in LockRec \cup {None}
         /\ lock' = [lock EXCEPT ![id] = None] /\ forgotten' = forgotten
    OBVIOUS
  <2> HIDE DEF b, n
  <2>11. lock[id] # None => lock[id].acct = a
    OBVIOUS
  <2> HIDE DEF a
  <2> QED BY ONLY <2>1, <2>2, <2>5, <2>6, <2>7, <2>8, <2>9, <2>10, <2>11, MoneyStep
<1> QED BY <1>1, <1>2

\* An order is filled: what was locked for it is spent.
LEMMA MoneyCharged ==
  ASSUME MoneyType, MoneyInv, NEW id \in Ids, lock[id] # None,
         lock' = [lock EXCEPT ![id] = None], balance' = Settle(id, Charged),
         spent' = [spent EXCEPT ![lock[id].acct] = @ + lock[id].amount],
         forgotten' = forgotten
  PROVE  MoneyType' /\ MoneyInv'
<1> DEFINE a == lock[id].acct
           n == lock[id].amount
           b == Charged(balance[a], n)
           s == spent[a] + n
<1>1. lock[id] \in LockRec /\ a \in Accounts /\ n \in Nat /\ n <= balance[a].locked
  BY LockCovered DEF LockRec
<1>2. balance[a] \in Balance /\ spent[a] \in Nat /\ s \in Nat
  BY <1>1 DEF MoneyType
<1>3. /\ balance[a].free + balance[a].locked = balance[a].total
      /\ balance[a].total + spent[a] = Deposit[a]
  BY <1>1 DEF MoneyInv, BalancesConsistent
<1>5. /\ b \in Balance /\ b.locked = balance[a].locked - n
      /\ b.free = balance[a].free /\ b.total = balance[a].total - n
  BY <1>1, <1>2, <1>3, BalanceOps
<1>6. balance' = [balance EXCEPT ![a] = b] /\ spent' = [spent EXCEPT ![a] = s]
  BY <1>1 DEF Settle, MoneyType
<1>7. b.free + b.locked = b.total /\ b.total + s = Deposit[a]
  BY <1>1, <1>2, <1>3, <1>5 DEF Balance
<1>8. b.locked + Amount(lock[id], a) = balance[a].locked + Amount(None, a)
  BY <1>1, <1>2, <1>5 DEF Amount, Balance
<1>9. /\ MoneyType /\ MoneyInv /\ id \in Ids /\ None \in LockRec \cup {None}
      /\ lock' = [lock EXCEPT ![id] = None] /\ forgotten' = forgotten
  OBVIOUS
<1> HIDE DEF b, s, n
<1>10. lock[id] # None => lock[id].acct = a
  OBVIOUS
<1> HIDE DEF a
<1> QED BY ONLY <1>1, <1>2, <1>5, <1>6, <1>7, <1>8, <1>9, <1>10, MoneyStep

\* Funds are locked for an order that had none locked.
LEMMA MoneyTaken ==
  ASSUME MoneyType, MoneyInv, NEW id \in Ids, lock[id] = None,
         NEW a \in Accounts, NEW n \in Nat, n <= balance[a].free,
         lock' = [lock EXCEPT ![id] = [acct |-> a, amount |-> n]],
         balance' = [balance EXCEPT ![a] = Locked(@, n)],
         UNCHANGED <<spent, forgotten>>
  PROVE  MoneyType' /\ MoneyInv'
<1> DEFINE v == [acct |-> a, amount |-> n]
           b == Locked(balance[a], n)
<1>1. v \in LockRec \cup {None} /\ v # None /\ v.acct = a
  BY LockIsNotNone DEF LockRec
<1>2. balance[a] \in Balance /\ spent[a] \in Nat
  BY DEF MoneyType
<1>3. /\ balance[a].free + balance[a].locked = balance[a].total
      /\ balance[a].total + spent[a] = Deposit[a]
  BY DEF MoneyInv, BalancesConsistent
<1>4. /\ b \in Balance /\ b.locked = balance[a].locked + n
      /\ b.free = balance[a].free - n /\ b.total = balance[a].total
  BY <1>2, <1>3, BalanceOps
<1>5. balance' = [balance EXCEPT ![a] = b] /\ spent' = [spent EXCEPT ![a] = spent[a]]
  BY DEF MoneyType
<1>6. b.free + b.locked = b.total /\ b.total + spent[a] = Deposit[a]
  BY <1>2, <1>3, <1>4 DEF Balance
<1>7. b.locked + Amount(lock[id], a) = balance[a].locked + Amount(v, a)
  BY <1>1, <1>2, <1>4 DEF Amount, Balance
<1>8. /\ MoneyType /\ MoneyInv /\ id \in Ids /\ a \in Accounts
      /\ lock' = [lock EXCEPT ![id] = v] /\ forgotten' = forgotten
      /\ lock[id] # None => lock[id].acct = a
  OBVIOUS
<1> HIDE DEF b, v
<1> QED BY ONLY <1>1, <1>2, <1>4, <1>5, <1>6, <1>7, <1>8, MoneyStep

\* The funds locked for an order change to n.
LEMMA MoneyMoved ==
  ASSUME MoneyType, MoneyInv, NEW id \in Ids, lock[id] # None, NEW n \in Nat,
         n > lock[id].amount =>
           n - lock[id].amount <= balance[lock[id].acct].free,
         lock' = [lock EXCEPT ![id].amount = n],
         balance' = [balance EXCEPT ![lock[id].acct] =
                       Relocked(@, lock[id].amount, n)],
         UNCHANGED <<spent, forgotten>>
  PROVE  MoneyType' /\ MoneyInv'
<1> DEFINE a == lock[id].acct
           m == lock[id].amount
           v == [lock[id] EXCEPT !.amount = n]
           b == Relocked(balance[a], m, n)
<1>1. lock[id] \in LockRec /\ a \in Accounts /\ m \in Nat /\ m <= balance[a].locked
  BY LockCovered DEF LockRec
<1>2. v \in LockRec /\ v # None /\ v.acct = a /\ v.amount = n
  BY <1>1, LockIsNotNone DEF LockRec
<1>3. balance[a] \in Balance /\ spent[a] \in Nat
  BY <1>1 DEF MoneyType
<1>4. /\ balance[a].free + balance[a].locked = balance[a].total
      /\ balance[a].total + spent[a] = Deposit[a]
  BY <1>1 DEF MoneyInv, BalancesConsistent
<1>5. /\ balance[a].free \in Nat /\ balance[a].locked \in Nat
      /\ balance[a].total \in Nat
  BY <1>3 DEF Balance
<1>6. /\ b \in Balance /\ b.locked + m = balance[a].locked + n
      /\ b.free + n = balance[a].free + m /\ b.total = balance[a].total
  <2>1. CASE n > m
    <3> DEFINE d == n - m
    <3>1. d \in Nat /\ d <= balance[a].free /\ d + m = n
      BY <1>1, <2>1
    <3>2. b = Locked(balance[a], d)
      BY <2>1 DEF Relocked
    <3> HIDE DEF d, b, m
    <3>3. /\ b \in Balance /\ b.locked = balance[a].locked + d
          /\ b.free = balance[a].free - d /\ b.total = balance[a].total
      BY <1>3, <1>4, <3>1, <3>2, BalanceOps
    <3> QED BY <1>1, <1>5, <3>1, <3>3
  <2>2. CASE ~(n > m)
    <3> DEFINE d == m - n
    <3>1. d \in Nat /\ d <= balance[a].locked /\ d + n = m
      BY <1>1, <1>5, <2>2
    <3>2. b = Unlocked(balance[a], d)
      BY <2>2 DEF Relocked
    <3> HIDE DEF d, b, m
    <3>3. /\ b \in Balance /\ b.locked = balance[a].locked - d
          /\ b.free = balance[a].free + d /\ b.total = balance[a].total
      BY <1>3, <1>4, <3>1, <3>2, BalanceOps
    <3> QED BY <1>1, <1>5, <3>1, <3>3
  <2> QED BY <2>1, <2>2
<1>7. balance' = [balance EXCEPT ![a] = b] /\ spent' = [spent EXCEPT ![a] = spent[a]]
  BY <1>1 DEF MoneyType
<1>8. b.free + b.locked = b.total /\ b.total + spent[a] = Deposit[a]
  <2>1. b.free \in Nat /\ b.locked \in Nat
    BY <1>6 DEF Balance
  <2> HIDE DEF b, m
  <2> QED BY <1>1, <1>4, <1>5, <1>6, <2>1
<1>9. Amount(lock[id], a) = m /\ Amount(v, a) = n
  BY <1>2 DEF Amount
<1>10. b.locked + Amount(lock[id], a) = balance[a].locked + Amount(v, a)
  BY <1>6, <1>9
<1>11. /\ MoneyType /\ MoneyInv /\ id \in Ids
       /\ lock' = [lock EXCEPT ![id] = v] /\ forgotten' = forgotten
       /\ lock[id] # None => lock[id].acct = a
  OBVIOUS
<1>12. v \in LockRec \cup {None}
  BY <1>2
<1> HIDE DEF a, m, v, b
<1> QED BY ONLY <1>1, <1>2, <1>3, <1>6, <1>7, <1>8, <1>10, <1>11, <1>12, MoneyStep

-----------------------------------------------------------------------------
(* What a step makes of one order leaves the others alone.                 *)

Working(o, cs, ms) ==
  IF o = None THEN cs = {} /\ ms = {}
  ELSE \/ /\ ms = {}
          /\ \E c \in cs : cs = {c} /\ c.leaves = o.qty - o.cum /\ c.price = o.price
       \/ /\ cs = {}
          /\ \E x \in ms : /\ ms = {x} /\ x.qty = o.qty - o.cum
                           /\ x.price \in {o.price, None}

LEMMA WorkingNow ==
  OneCopyWorking <=>
    \A id \in Ids : Working(stored[id], CopiesOf(id), MatchesOf(id))
BY DEF OneCopyWorking, Working

LEMMA WorkingNext ==
  OneCopyWorking' <=>
    \A id \in Ids : Working(stored'[id], CopiesOf(id)', MatchesOf(id)')
BY DEF OneCopyWorking, Working

LEMMA WorkStep ==
  ASSUME OneCopyWorking, NEW id \in Ids,
         \A j \in Ids \ {id} : stored'[j] = stored[j],
         \A c : c.id # id => (c \in engine' <=> c \in engine),
         \A x : x.id # id => (x \in matches' <=> x \in matches),
         Working(stored'[id], CopiesOf(id)', MatchesOf(id)')
  PROVE  OneCopyWorking'
<1>1. ASSUME NEW j \in Ids \ {id}
      PROVE  CopiesOf(j)' = CopiesOf(j) /\ MatchesOf(j)' = MatchesOf(j)
  BY DEF CopiesOf, MatchesOf
<1>2. ASSUME NEW j \in Ids \ {id}
      PROVE  Working(stored'[j], CopiesOf(j)', MatchesOf(j)')
  <2>1. Working(stored[j], CopiesOf(j), MatchesOf(j))
    BY WorkingNow
  <2> QED BY <1>1, <2>1
<1> QED BY <1>2, WorkingNext

LockFits(l, o, r) ==
  /\ l # None => /\ o # None /\ o.price # None /\ Required(r) > 0
                 /\ l.acct = r.acct /\ l.amount = Cost(o.price, o.qty)
  /\ o # None /\ Required(r) > 0 => l # None

LEMMA LockFitsNow ==
  LockInv <=> \A id \in Ids : LockFits(lock[id], stored[id], sent[id])
BY DEF LockInv, LockFits

LEMMA LockFitsNext ==
  LockInv' <=> \A id \in Ids : LockFits(lock'[id], stored'[id], sent'[id])
BY DEF LockInv, LockFits, Required, Cost

LEMMA LockStep ==
  ASSUME LockInv, NEW id \in Ids,
         \A j \in Ids \ {id} : /\ stored'[j] = stored[j] /\ lock'[j] = lock[j]
                               /\ sent'[j] = sent[j],
         LockFits(lock'[id], stored'[id], sent'[id])
  PROVE  LockInv'
<1>1. ASSUME NEW j \in Ids \ {id} PROVE LockFits(lock'[j], stored'[j], sent'[j])
  <2>1. LockFits(lock[j], stored[j], sent[j])
    BY LockFitsNow
  <2> QED BY <2>1
<1> QED BY <1>1, LockFitsNext

LEMMA CostType ==
  ASSUME NEW p \in Nat \cup {None}, NEW q \in Nat
  PROVE  /\ Cost(p, q) \in Nat
         /\ Cost(p, q) > 0 => p # None
<1>1. CASE p = None
  BY <1>1 DEF Cost
<1>2. CASE p # None
  <2>1. p \in Nat /\ Cost(p, q) = p * q
    BY <1>2 DEF Cost
  <2>2. \A m, n \in Nat : m * n \in Nat
    OBVIOUS
  <2> QED BY <1>2, <2>1, <2>2
<1> QED BY <1>1, <1>2

LEMMA RequiredType ==
  ASSUME NEW r \in Request
  PROVE  /\ Required(r) \in Nat
         /\ Required(r) > 0 => /\ r.side = "Buy" /\ r.acct \in Accounts
                               /\ r.price # None
                               /\ Required(r) = Cost(r.price, r.qty)
<1>1. r.price \in Nat \cup {None} /\ r.qty \in Nat
      /\ r.acct \in Accounts \cup {None}
  BY DEF Request, Positive
<1>2. Cost(r.price, r.qty) \in Nat /\ (Cost(r.price, r.qty) > 0 => r.price # None)
  BY <1>1, CostType
<1> QED BY <1>1, <1>2 DEF Required

LEMMA NoneApart ==
  /\ None \notin Request /\ None \notin Stored /\ None \notin Nat
  /\ None \notin Accounts
BY ExchangeAssumption DEF Stored

\* What is known of a command and its order.
LEMMA CommandFacts ==
  ASSUME IInv, NEW c \in inflight
  PROVE  /\ c \in Command /\ c.id \in Ids /\ sent[c.id] \in Request
         /\ sent[c.id] # None
         /\ stored[c.id] \in Stored \cup {None}
         /\ lock[c.id] \in LockRec \cup {None}
         /\ history[c.id] \in Seq(Events)
         /\ MoneyType /\ MoneyInv
<1>1. c \in Command /\ c.id \in Ids
  BY DEF IInv, TypeOK, Command
<1>2. sent[c.id] # None /\ sent[c.id] \in Requests \cup {None}
  BY <1>1 DEF IInv, SentInv, TypeOK
<1>3. sent[c.id] \in Request
  BY <1>2, ExchangeAssumption
<1> QED BY <1>1, <1>2, <1>3, TypeMoney DEF IInv, TypeOK, LockRec

\* A submission on its way: its order is not in the books.
LEMMA PendingNotStored ==
  ASSUME IInv, NEW c \in inflight, c.kind = "submit"
  PROVE  stored[c.id] = None /\ ~In(history[c.id], Terminal \cup {"Accepted"})
<1>1. \A i \in DOMAIN history[c.id] : history[c.id][i] = "ModifyRejected"
  BY DEF IInv, PendingInv
<1>2. ~In(history[c.id], {"Accepted"}) /\ ~In(history[c.id], Terminal \cup {"Accepted"})
  BY <1>1 DEF In, Terminal
<1>3. Told(history[c.id], stored[c.id] # None)
  BY CommandFacts, OneStoryTold DEF IInv
<1> QED BY <1>2, <1>3 DEF Told

\* The first three parts of the invariant that a command leaves as they are.
LEMMA TakeStep ==
  ASSUME IInv, NEW c \in inflight, NEW kind \in Kinds, Take(c, kind),
         \A j \in Ids \ {c.id} : stored'[j] = stored[j] /\ history'[j] = history[j],
         \/ kind = "submit"
         \/ stored[c.id] # None
         \/ history'[c.id] = history[c.id]
         \/ Report(c.id, "ModifyRejected")
  PROVE  SentInv' /\ PendingInv' /\ (phase' # "data" => matches' = {})
<1>1. /\ inflight' = inflight \ {c} /\ c.kind = kind
      /\ UNCHANGED <<sent, matches, phase>> /\ phase = "commands"
  BY DEF Take
<1>2. c.id \in Ids /\ sent[c.id] # None /\ history[c.id] \in Seq(Events)
  BY CommandFacts
<1>3. SentInv'
  BY <1>1, <1>2 DEF IInv, SentInv
<1>4. ASSUME NEW d \in inflight', d.kind = "submit"
      PROVE  \A i \in DOMAIN history'[d.id] : history'[d.id][i] = "ModifyRejected"
  <2>1. d \in inflight /\ d # c /\ d.id \in Ids
    BY <1>1, <1>4, CommandFacts
  <2>2. \A i \in DOMAIN history[d.id] : history[d.id][i] = "ModifyRejected"
    BY <1>4, <2>1 DEF IInv, PendingInv
  <2>3. CASE d.id # c.id
    BY <2>1, <2>2, <2>3
  <2>4. CASE d.id = c.id
    <3>1. kind # "submit"
      BY <1>1, <1>4, <2>1, <2>4 DEF IInv, PendingInv
    <3>2. stored[c.id] = None
      BY <1>4, <2>1, <2>4, PendingNotStored
    <3>3. CASE history'[c.id] = history[c.id]
      BY <2>2, <2>4, <3>3
    <3>4. CASE Report(c.id, "ModifyRejected")
      <4>1. history'[c.id] = Append(history[c.id], "ModifyRejected")
        BY <1>2, <3>4 DEF Report, IInv, TypeOK
      <4>2. "ModifyRejected" \in Events
        BY DEF Events
      <4>3. /\ DOMAIN history'[c.id] = 1 .. Len(history[c.id]) + 1
            /\ DOMAIN history[c.id] = 1 .. Len(history[c.id])
            /\ Len(history[c.id]) \in Nat
            /\ \A i \in DOMAIN history[c.id] : history'[c.id][i] = history[c.id][i]
            /\ history'[c.id][Len(history[c.id]) + 1] = "ModifyRejected"
        BY <1>2, <4>1, <4>2, Appended
      <4> QED BY <2>2, <2>4, <4>3
    <3> QED BY <3>1, <3>2, <3>3, <3>4
  <2> QED BY <2>3, <2>4
<1>5. \A d, e \in inflight' : d.kind = "submit" /\ e.kind = "submit" /\ e.id = d.id => e = d
  BY <1>1 DEF IInv, PendingInv
<1> QED BY <1>1, <1>3, <1>4, <1>5 DEF PendingInv, IInv, WorkInv

\* A step that works on the order id alone: o is what is stored of it then,
\* and event e is reported.
LEMMA OrderStep ==
  ASSUME IInv, NEW id \in Ids, NEW o \in Stored \cup {None}, NEW e \in Events,
         UNCHANGED <<now, count, sent, phase, market>>,
         forgotten' = forgotten,
         inflight' \subseteq inflight, matches' \subseteq matches,
         \A x : x.id # id => (x \in matches' <=> x \in matches),
         phase # "data" => matches' = {},
         stored' = [stored EXCEPT ![id] = o],
         o # None => o.cum = 0 /\ o.qty > 0,
         engine' \subseteq [id : Ids, type : OrderTypes,
                            price : Nat \cup {None}, leaves : Nat],
         \A c : c.id # id => (c \in engine' <=> c \in engine),
         Working(o, CopiesOf(id)', MatchesOf(id)'),
         \A j \in Ids \ {id} : lock'[j] = lock[j],
         LockFits(lock'[id], o, sent[id]),
         MoneyType', MoneyInv', SentInv', PendingInv',
         Report(id, e), In(history[id], Terminal) => e = "ModifyRejected",
         e = "Accepted" =>
           \A i \in DOMAIN history[id] : history[id][i] = "ModifyRejected",
         o # None <=> /\ In(history[id], {"Accepted"}) \/ e = "Accepted"
                      /\ ~In(history[id], Terminal) /\ e \notin Terminal
  PROVE  IInv'
<1>1. TypeOK /\ stored \in [Ids -> Stored \cup {None}]
  BY DEF IInv, TypeOK
<1>2. /\ stored' \in [Ids -> Stored \cup {None}] /\ stored'[id] = o
      /\ \A j \in Ids \ {id} : stored'[j] = stored[j]
  BY <1>1
<1>3. OneStory' /\ history' \in [Ids -> Seq(Events)]
  BY <1>1, <1>2, StoryStep DEF IInv
<1>4. OneCopyWorking'
  BY <1>2, WorkStep DEF IInv, WorkInv
<1>5. WorkInv'
  BY <1>2, <1>4 DEF IInv, WorkInv
<1>6. LockInv'
  BY <1>2, LockStep DEF IInv
<1>7. TypeOK'
  <2>1. /\ lock' \in [Ids -> [acct : Accounts, amount : Nat] \cup {None}]
        /\ balance' \in [Accounts -> [total : Nat, free : Nat, locked : Nat]]
        /\ spent' \in [Accounts -> Nat]
    BY DEF MoneyType, LockRec, Balance
  <2> QED BY <1>1, <1>2, <1>3, <2>1 DEF TypeOK, market
<1> QED BY <1>3, <1>5, <1>6, <1>7 DEF IInv

\* A command that ends with its order stored as o, or gone, and one copy.
LEMMA CommandStep ==
  ASSUME IInv, NEW c \in inflight, NEW kind \in Kinds, Take(c, kind),
         NEW o \in Stored \cup {None}, NEW e \in Events, NEW t \in OrderTypes,
         o # None => o.cum = 0 /\ o.qty > 0,
         kind = "submit" \/ stored[c.id] # None,
         stored' = [stored EXCEPT ![c.id] = o],
         engine' = WithoutCopy(c.id) \cup
                     (IF o = None THEN {} ELSE {Copy(c.id, t, o.price, o.qty)}),
         \A j \in Ids \ {c.id} : lock'[j] = lock[j],
         LockFits(lock'[c.id], o, sent[c.id]), MoneyType', MoneyInv',
         Report(c.id, e), In(history[c.id], Terminal) => e = "ModifyRejected",
         e = "Accepted" =>
           \A i \in DOMAIN history[c.id] : history[c.id][i] = "ModifyRejected",
         o # None <=> /\ In(history[c.id], {"Accepted"}) \/ e = "Accepted"
                      /\ ~In(history[c.id], Terminal) /\ e \notin Terminal
  PROVE  IInv'
<1> DEFINE id == c.id
           New == IF o = None THEN {} ELSE {Copy(id, t, o.price, o.qty)}
<1>1. id \in Ids /\ IInv
  BY CommandFacts
<1>2. /\ UNCHANGED <<now, count, sent, phase, market>> /\ forgotten' = forgotten
      /\ inflight' \subseteq inflight /\ phase = "commands" /\ matches' = matches
  BY DEF Take
<1>3. matches = {} /\ matches' = {}
  BY <1>2 DEF IInv, WorkInv
<1>4. \A j \in Ids \ {id} : stored'[j] = stored[j] /\ history'[j] = history[j]
  BY DEF Report, IInv, TypeOK
<1>5. SentInv' /\ PendingInv'
  BY <1>4, TakeStep
<1>6. New \subseteq [id : Ids, type : OrderTypes,
                     price : Nat \cup {None}, leaves : Nat]
  <2>1. CASE o = None
    BY <2>1
  <2>2. CASE o # None
    <3>1. o.price \in Nat \cup {None} /\ o.qty \in Nat
      BY <2>2 DEF Stored
    <3> QED BY <1>1, <2>2, <3>1 DEF Copy
  <2> QED BY <2>1, <2>2
<1>7. engine' \subseteq [id : Ids, type : OrderTypes,
                         price : Nat \cup {None}, leaves : Nat]
  BY <1>6 DEF WithoutCopy, IInv, TypeOK
<1>8. \A d \in New : d.id = id
  BY DEF Copy
<1>9. \A d : d.id # id => (d \in engine' <=> d \in engine)
  BY <1>8 DEF WithoutCopy
<1>10. CopiesOf(id)' = New /\ MatchesOf(id)' = {}
  BY <1>3, <1>8 DEF CopiesOf, MatchesOf, WithoutCopy
<1>11. Working(o, New, {})
  <2>1. CASE o = None
    BY <2>1 DEF Working
  <2>2. CASE o # None
    <3>1. o.qty \in Nat /\ o.cum = 0
      BY <2>2 DEF Stored
    <3>2. New = {Copy(id, t, o.price, o.qty)}
      BY <2>2
    <3>3. o.qty - o.cum = o.qty
      BY <3>1
    <3> QED BY <2>2, <3>2, <3>3 DEF Working, Copy
  <2> QED BY <2>1, <2>2
<1>12. /\ \A x : x.id # id => (x \in matches' <=> x \in matches)
       /\ matches' \subseteq matches /\ (phase # "data" => matches' = {})
  BY <1>3
<1> HIDE DEF New
<1>13. Working(o, CopiesOf(id)', MatchesOf(id)')
  BY <1>10, <1>11
<1> QED BY <1>1, <1>2, <1>5, <1>7, <1>9, <1>12, <1>13, OrderStep

\* A stored order was accepted and has not ended; one that is gone has no copy.
LEMMA StoredFacts ==
  ASSUME IInv, NEW id \in Ids
  PROVE  /\ stored[id] # None => /\ stored[id] \in Stored
                                 /\ In(history[id], {"Accepted"})
                                 /\ ~In(history[id], Terminal)
                                 /\ stored[id].cum = 0 /\ stored[id].qty > 0
         /\ stored[id] = None => /\ lock[id] = None
                                 /\ CopiesOf(id) = {} /\ MatchesOf(id) = {}
         /\ LockFits(lock[id], stored[id], sent[id])
<1>1. stored[id] # None => stored[id] \in Stored
  BY DEF IInv, TypeOK
<1>2. Told(history[id], stored[id] # None)
  BY OneStoryTold DEF IInv
<1>3. Working(stored[id], CopiesOf(id), MatchesOf(id))
  BY WorkingNow DEF IInv, WorkInv
<1>4. LockFits(lock[id], stored[id], sent[id])
  BY LockFitsNow DEF IInv
<1>5. stored[id] # None => stored[id].cum = 0 /\ stored[id].qty > 0
  BY DEF IInv, WorkInv
<1> QED BY <1>1, <1>2, <1>3, <1>4, <1>5 DEF Told, Working, LockFits

\* A command that only gives its order another event.
LEMMA ReportStep ==
  ASSUME IInv, NEW c \in inflight, NEW kind \in Kinds, Take(c, kind),
         UNCHANGED <<stored, engine, lock, balance>>,
         NEW e \in Events, Report(c.id, e),
         \/ kind = "submit" /\ e \in Terminal
         \/ kind # "submit" /\ e = "ModifyRejected"
  PROVE  IInv'
<1> DEFINE id == c.id
<1>1. id \in Ids /\ lock[id] \in LockRec \cup {None} /\ MoneyType /\ MoneyInv
  BY CommandFacts
<1>2. /\ UNCHANGED <<now, count, sent, phase, market, matches, spent>>
      /\ forgotten' = forgotten /\ inflight' \subseteq inflight
      /\ phase = "commands" /\ c.kind = kind
  BY DEF Take
<1>3. matches = {} /\ matches' = {}
  BY <1>2 DEF IInv, WorkInv
<1>4. \A j \in Ids \ {id} : stored'[j] = stored[j] /\ history'[j] = history[j]
  BY DEF Report, IInv, TypeOK
<1>5. SentInv' /\ PendingInv'
  BY <1>4, TakeStep
<1>6. MoneyType' /\ MoneyInv'
  BY <1>1, <1>2, MoneyStays
<1>7. /\ stored[id] \in Stored \cup {None} /\ stored' = [stored EXCEPT ![id] = stored[id]]
  BY <1>1 DEF IInv, TypeOK
<1>8. stored[id] # None => stored[id].cum = 0 /\ stored[id].qty > 0
  BY <1>1, StoredFacts
<1>9. /\ Working(stored[id], CopiesOf(id), MatchesOf(id))
      /\ LockFits(lock'[id], stored[id], sent[id])
      /\ engine' \subseteq [id : Ids, type : OrderTypes,
                            price : Nat \cup {None}, leaves : Nat]
  BY <1>1, WorkingNow, LockFitsNow DEF IInv, WorkInv, TypeOK
<1>10. Working(stored[id], CopiesOf(id)', MatchesOf(id)')
  BY <1>2, <1>9 DEF CopiesOf, MatchesOf
<1>11. Told(history[id], stored[id] # None)
  BY <1>1, OneStoryTold DEF IInv
<1>12. /\ In(history[id], Terminal) => e = "ModifyRejected"
       /\ e # "Accepted"
       /\ stored[id] # None <=> /\ In(history[id], {"Accepted"}) \/ e = "Accepted"
                                /\ ~In(history[id], Terminal) /\ e \notin Terminal
  <2>1. CASE kind = "submit" /\ e \in Terminal
    <3>1. stored[id] = None /\ ~In(history[id], Terminal \cup {"Accepted"})
      BY <1>2, <2>1, PendingNotStored
    <3>2. ~In(history[id], Terminal) /\ e # "Accepted"
      BY <2>1, <3>1 DEF In, Terminal
    <3> QED BY <2>1, <3>1, <3>2
  <2>2. CASE kind # "submit" /\ e = "ModifyRejected"
    BY <1>11, <2>2 DEF Told, Terminal
  <2> QED BY <2>1, <2>2
<1>13. /\ \A x : x.id # id => (x \in matches' <=> x \in matches)
       /\ \A d : d.id # id => (d \in engine' <=> d \in engine)
       /\ matches' \subseteq matches /\ (phase # "data" => matches' = {})
       /\ \A j \in Ids \ {id} : lock'[j] = lock[j]
  BY <1>3
<1> QED BY <1>1, <1>2, <1>5, <1>6, <1>7, <1>8, <1>9, <1>10, <1>12, <1>13, OrderStep

LEMMA RejectStep ==
  ASSUME IInv, NEW c \in inflight, RejectSubmit(c) \/ RejectModify(c)
  PROVE  IInv'
<1>1. CASE RejectSubmit(c)
  BY <1>1, ReportStep DEF RejectSubmit, Kinds, Events, Terminal
<1>2. CASE RejectModify(c)
  BY <1>2, ReportStep DEF RejectModify, Kinds, Events
<1> QED BY <1>1, <1>2

LEMMA CancelWorkingStep ==
  ASSUME IInv, NEW c \in inflight, CancelWorking(c)
  PROVE  IInv'
<1>1. /\ Take(c, "cancel") /\ stored[c.id] # None
      /\ engine' = WithoutCopy(c.id) /\ Report(c.id, "Canceled")
      /\ stored' = [stored EXCEPT ![c.id] = None]
      /\ lock' = [lock EXCEPT ![c.id] = None]
      /\ balance' = Settle(c.id, Unlocked)
  BY DEF CancelWorking
<1>2. /\ c.id \in Ids /\ lock \in [Ids -> LockRec \cup {None}]
      /\ MoneyType /\ MoneyInv
  BY CommandFacts DEF MoneyType
<1>3. UNCHANGED <<spent, forgotten>>
  BY <1>1 DEF Take
<1>4. MoneyType' /\ MoneyInv'
  BY <1>1, <1>2, <1>3, MoneyReleased
<1>5. /\ \A j \in Ids \ {c.id} : lock'[j] = lock[j]
      /\ LockFits(lock'[c.id], None, sent[c.id])
  BY <1>1, <1>2 DEF LockFits
<1>6. ~In(history[c.id], Terminal) /\ In(history[c.id], {"Accepted"})
  BY <1>1, <1>2, StoredFacts
<1>7. /\ "cancel" \in Kinds /\ "Market" \in OrderTypes /\ "Canceled" \in Events
      /\ "Canceled" \in Terminal
  BY DEF Kinds, OrderTypes, Events, Terminal
<1>8. engine' = WithoutCopy(c.id) \cup
        (IF None = None THEN {} ELSE {Copy(c.id, "Market", None.price, None.qty)})
  BY <1>1
<1> QED BY <1>1, <1>4, <1>5, <1>6, <1>7, <1>8, CommandStep

LEMMA CancelUnknownStep ==
  ASSUME IInv, NEW c \in inflight, CancelUnknown(c)
  PROVE  IInv'
<1>1. /\ Take(c, "cancel") /\ UNCHANGED <<stored, engine, lock, history, balance>>
      /\ UNCHANGED <<now, count, sent, matches, phase, market, spent, forgotten>>
      /\ inflight' \subseteq inflight
  BY DEF CancelUnknown, Take
<1>2. SentInv' /\ PendingInv' /\ (phase' # "data" => matches' = {})
  BY <1>1, TakeStep DEF Kinds
<1>3. MoneyType /\ MoneyInv
  BY TypeMoney DEF IInv
<1>4. MoneyInv'
  BY <1>1, <1>3, MoneyStays
<1>5. TypeOK'
  BY <1>1 DEF IInv, TypeOK, market
<1>6. OneStory' /\ LockInv' /\ OneCopyWorking'
  BY <1>1 DEF IInv, OneStory, Has, LockInv, Required, WorkInv, OneCopyWorking,
              CopiesOf, MatchesOf
<1>7. WorkInv'
  BY <1>1, <1>2, <1>6 DEF WorkInv, IInv
<1> QED BY <1>2, <1>4, <1>5, <1>6, <1>7 DEF IInv

LEMMA AcceptSubmitStep ==
  ASSUME IInv, NEW c \in inflight, AcceptSubmit(c)
  PROVE  IInv'
<1> DEFINE id == c.id
           r == sent[id]
           amount == Required(r)
           o == [price |-> r.price, qty |-> r.qty, cum |-> 0]
<1>1. /\ Take(c, "submit") /\ ~Refused(r)
      /\ stored' = [stored EXCEPT ![id] = o]
      /\ Report(id, "Accepted")
      /\ engine' = engine \cup {Copy(id, r.type, r.price, r.qty)}
  BY DEF AcceptSubmit
<1>2. /\ id \in Ids /\ r \in Request /\ MoneyType /\ MoneyInv /\ c.kind = "submit"
      /\ lock \in [Ids -> LockRec \cup {None}]
  BY <1>1, CommandFacts DEF MoneyType, Take
<1>3. stored[id] = None /\ ~In(history[id], Terminal \cup {"Accepted"})
  BY <1>2, PendingNotStored
<1>4. lock[id] = None /\ CopiesOf(id) = {}
  BY <1>2, <1>3, StoredFacts
<1>5. /\ r.price \in Nat \cup {None} /\ r.qty \in Nat /\ r.qty > 0
      /\ r.type \in OrderTypes
  BY <1>2 DEF Request, Positive
<1>6. o \in Stored /\ o # None /\ o.cum = 0 /\ o.qty > 0
  BY <1>5, NoneApart DEF Stored
<1>7. engine' = WithoutCopy(id) \cup {Copy(id, r.type, o.price, o.qty)}
  BY <1>1, <1>4 DEF WithoutCopy, CopiesOf
<1>8. UNCHANGED <<spent, forgotten>>
  BY <1>1 DEF Take
<1>9. /\ amount \in Nat
      /\ amount > 0 => /\ r.acct \in Accounts /\ r.price # None
                       /\ amount = Cost(r.price, r.qty)
  BY <1>2, RequiredType
<1>10. /\ MoneyType' /\ MoneyInv' /\ \A j \in Ids \ {id} : lock'[j] = lock[j]
       /\ LockFits(lock'[id], o, r)
  <2>1. CASE amount > 0
    <3>1. /\ balance' = [balance EXCEPT ![r.acct] = Locked(@, amount)]
          /\ lock' = [lock EXCEPT ![id] = [acct |-> r.acct, amount |-> amount]]
      BY <2>1 DEF AcceptSubmit
    <3>2. r.acct # None
      BY <1>9, <2>1, NoneApart
    <3>3. amount <= balance[r.acct].free
      BY <1>1, <3>2 DEF Refused, CanLock
    <3> HIDE DEF amount, o
    <3>4. MoneyType' /\ MoneyInv'
      BY <1>2, <1>4, <1>8, <1>9, <2>1, <3>1, <3>3, MoneyTaken
    <3>5. lock'[id] = [acct |-> r.acct, amount |-> amount]
      BY <1>2, <3>1
    <3>6. [acct |-> r.acct, amount |-> amount] # None
      BY <1>9, <2>1, LockIsNotNone DEF LockRec
    <3>7. o.price = r.price /\ o.qty = r.qty
      BY DEF o
    <3>8. LockFits(lock'[id], o, r)
      BY <1>6, <1>9, <2>1, <3>5, <3>6, <3>7 DEF LockFits, amount
    <3> QED BY <1>2, <3>1, <3>4, <3>8
  <2>2. CASE ~(amount > 0)
    <3>1. UNCHANGED <<balance, lock>>
      BY <2>2 DEF AcceptSubmit
    <3>2. MoneyType' /\ MoneyInv'
      BY <1>2, <1>8, <3>1, MoneyStays
    <3> QED BY <1>4, <2>2, <3>1, <3>2 DEF LockFits
  <2> QED BY <2>1, <2>2
<1>11. /\ ~In(history[id], Terminal)
       /\ \A i \in DOMAIN history[id] : history[id][i] = "ModifyRejected"
  BY <1>2, <1>3 DEF In, IInv, PendingInv
<1>12. /\ "submit" \in Kinds /\ "Accepted" \in Events /\ "Accepted" \notin Terminal
  BY DEF Kinds, Events, Terminal
<1>13. o \in Stored \cup {None}
  BY <1>6
<1>14. engine' = WithoutCopy(id) \cup
         (IF o = None THEN {} ELSE {Copy(id, r.type, o.price, o.qty)})
  BY <1>6, <1>7
<1> HIDE DEF o, amount
<1> QED BY <1>1, <1>5, <1>6, <1>10, <1>11, <1>12, <1>13, <1>14, CommandStep

LEMMA AcceptModifyStep ==
  ASSUME IInv, NEW c \in inflight, AcceptModify(c)
  PROVE  IInv'
<1> DEFINE id == c.id
           r == sent[id]
           o == Modified(c)
           n == NewAmount(c)
<1>1. /\ Take(c, "modify") /\ GoodChange(c)
      /\ stored' = [stored EXCEPT ![id] = o]
      /\ engine' = WithoutCopy(id) \cup {Copy(id, r.type, o.price, o.qty - o.cum)}
      /\ Report(id, "Updated")
  BY DEF AcceptModify
<1>2. /\ id \in Ids /\ r \in Request /\ MoneyType /\ MoneyInv
      /\ c \in Command /\ stored[id] # None
      /\ lock \in [Ids -> LockRec \cup {None}]
  BY <1>1, CommandFacts DEF MoneyType, GoodChange
<1>3. /\ stored[id] \in Stored /\ stored[id].cum = 0 /\ stored[id].qty > 0
      /\ In(history[id], {"Accepted"}) /\ ~In(history[id], Terminal)
      /\ LockFits(lock[id], stored[id], r)
  BY <1>2, StoredFacts
<1> DEFINE p == Or(c.price, stored[id].price)
           q == Or(c.qty, stored[id].qty)
<1>4. /\ p \in Nat \cup {None} /\ q \in Nat /\ q > 0
      /\ stored[id].price # None => p # None
  <2>1. /\ c.price \in Nat \cup {None} /\ c.qty \in Nat \cup {None}
        /\ c.qty # None => c.qty # 0
    BY <1>1, <1>2 DEF Command, GoodChange
  <2>2. stored[id].price \in Nat \cup {None} /\ stored[id].qty \in Nat
    BY <1>3 DEF Stored
  <2> QED BY <1>3, <2>1, <2>2 DEF Or
<1>5. o = [stored[id] EXCEPT !.price = p, !.qty = q]
  BY DEF Modified
<1> HIDE DEF o, p, q
<1>6. o \in Stored /\ o # None /\ o.cum = 0 /\ o.price = p /\ o.qty = q
  BY <1>3, <1>4, <1>5, NoneApart DEF Stored
<1>7. n = Cost(p, q) /\ n \in Nat
  BY <1>4, <1>6, CostType DEF NewAmount, o
<1>8. r.type \in OrderTypes /\ o.qty - o.cum = o.qty
  BY <1>2, <1>4, <1>6 DEF Request
<1>9. engine' = WithoutCopy(id) \cup
        (IF o = None THEN {} ELSE {Copy(id, r.type, o.price, o.qty)})
  BY <1>1, <1>6, <1>8
<1>10. UNCHANGED <<spent, forgotten>>
  BY <1>1 DEF Take
<1>11. /\ MoneyType' /\ MoneyInv' /\ \A j \in Ids \ {id} : lock'[j] = lock[j]
       /\ LockFits(lock'[id], o, r)
  <2>1. CASE lock[id] # None
    <3>1. /\ balance' = [balance EXCEPT ![lock[id].acct] =
                           Relocked(@, lock[id].amount, n)]
          /\ lock' = [lock EXCEPT ![id].amount = n]
      BY <2>1 DEF AcceptModify
    <3>2. lock[id] \in LockRec
      BY <1>2, <2>1
    <3>3. n > lock[id].amount => n - lock[id].amount <= balance[lock[id].acct].free
      BY <1>1, <2>1 DEF GoodChange, CanLock
    <3>4. lock'[id] = [lock[id] EXCEPT !.amount = n]
      BY <1>2, <3>1
    <3>5. /\ lock'[id].acct = lock[id].acct /\ lock'[id].amount = n
          /\ lock'[id] # None
      BY <1>7, <3>2, <3>4, LockIsNotNone DEF LockRec
    <3> HIDE DEF n
    <3>6. MoneyType' /\ MoneyInv'
      BY <1>2, <1>7, <1>10, <2>1, <3>1, <3>3, MoneyMoved
    <3>7. LockFits(lock'[id], o, r)
      BY <1>3, <1>4, <1>6, <1>7, <2>1, <3>5 DEF LockFits
    <3> QED BY <1>2, <3>1, <3>6, <3>7
  <2>2. CASE lock[id] = None
    <3>1. UNCHANGED <<balance, lock>>
      BY <2>2 DEF AcceptModify
    <3>2. MoneyType' /\ MoneyInv'
      BY <1>2, <1>10, <3>1, MoneyStays
    <3>3. LockFits(lock'[id], o, r)
      BY <1>2, <1>3, <2>2, <3>1 DEF LockFits
    <3> QED BY <3>1, <3>2, <3>3
  <2> QED BY <2>1, <2>2
<1>12. /\ "modify" \in Kinds /\ "Updated" \in Events /\ "Updated" \notin Terminal
       /\ "Updated" # "Accepted"
  BY DEF Kinds, Events, Terminal
<1>13. o \in Stored \cup {None} /\ o.qty > 0
  BY <1>4, <1>6
<1> QED BY <1>1, <1>2, <1>3, <1>6, <1>8, <1>9, <1>11, <1>12, <1>13, CommandStep

\* No command is taken, and the order that a new event is about is stored.
LEMMA StoredStep ==
  ASSUME IInv, NEW id \in Ids, stored[id] # None,
         UNCHANGED <<inflight, sent>>, stored' = [stored EXCEPT ![id] = None],
         NEW e \in Events, Report(id, e)
  PROVE  SentInv' /\ PendingInv'
<1>1. \A j \in Ids \ {id} : stored'[j] = stored[j] /\ history'[j] = history[j]
  BY DEF Report, IInv, TypeOK
<1>2. sent[id] # None
  BY DEF IInv, SentInv
<1>3. \A d \in inflight : d.id \in Ids
  BY DEF IInv, TypeOK, Command
<1>4. \A d \in inflight : d.kind = "submit" => d.id # id
  BY PendingNotStored
<1> QED BY <1>1, <1>2, <1>3, <1>4 DEF IInv, SentInv, PendingInv

\* A stored order goes with event e, and its funds are released or charged.
LEMMA GoneStep ==
  ASSUME IInv, NEW id \in Ids, stored[id] # None, phase = "data",
         UNCHANGED <<now, count, inflight, sent, phase, market>>,
         forgotten' = forgotten, matches' \subseteq matches,
         \A x : x.id # id => (x \in matches' <=> x \in matches),
         engine' \subseteq engine,
         \A c : c.id # id => (c \in engine' <=> c \in engine),
         CopiesOf(id)' = {}, MatchesOf(id)' = {},
         stored' = [stored EXCEPT ![id] = None],
         lock' = [lock EXCEPT ![id] = None], MoneyType', MoneyInv',
         NEW e \in {"Filled", "Expired"}, Report(id, e)
  PROVE  IInv'
<1>1. /\ In(history[id], {"Accepted"}) /\ ~In(history[id], Terminal)
  BY StoredFacts
<1>2. e \in Events /\ e \in Terminal /\ e # "Accepted"
  BY DEF Events, Terminal
<1>3. SentInv' /\ PendingInv'
  BY <1>2, StoredStep
<1>4. /\ \A j \in Ids \ {id} : lock'[j] = lock[j]
      /\ LockFits(lock'[id], None, sent[id])
  BY DEF LockFits, IInv, TypeOK
<1>5. engine' \subseteq [id : Ids, type : OrderTypes,
                         price : Nat \cup {None}, leaves : Nat]
  BY DEF IInv, TypeOK
<1>6. Working(None, CopiesOf(id)', MatchesOf(id)')
  BY DEF Working
<1>7. inflight' \subseteq inflight /\ None \in Stored \cup {None}
  OBVIOUS
<1> QED BY <1>1, <1>2, <1>3, <1>4, <1>5, <1>6, <1>7, OrderStep

LEMMA ExpireStep ==
  ASSUME IInv, NEW id \in Ids, ExpireOrder(id)
  PROVE  IInv'
<1>1. /\ phase = "data" /\ matches = {} /\ stored[id] # None
      /\ engine' = WithoutCopy(id)
      /\ stored' = [stored EXCEPT ![id] = None]
      /\ lock' = [lock EXCEPT ![id] = None]
      /\ balance' = Settle(id, Unlocked) /\ Report(id, "Expired")
      /\ UNCHANGED <<now, inflight, count, sent, matches, phase, market, spent,
                     forgotten>>
  BY DEF ExpireOrder, Expired
<1>2. MoneyType' /\ MoneyInv'
  BY <1>1, TypeMoney, MoneyReleased DEF IInv
<1>3. CopiesOf(id)' = {} /\ MatchesOf(id)' = {}
  BY <1>1 DEF CopiesOf, MatchesOf, WithoutCopy
<1>4. /\ engine' \subseteq engine
      /\ \A c : c.id # id => (c \in engine' <=> c \in engine)
  BY <1>1 DEF WithoutCopy
<1> QED BY <1>1, <1>2, <1>3, <1>4, GoneStep

LEMMA ProcessMatchStep ==
  ASSUME IInv, NEW x \in matches, ProcessMatch(x)
  PROVE  IInv'
<1> DEFINE id == x.id
           o == stored[id]
           r == sent[id]
<1>1. id \in Ids /\ x \in MatchesOf(id)
  BY DEF IInv, TypeOK, MatchesOf
<1>2. Working(o, CopiesOf(id), MatchesOf(id))
  BY <1>1, WorkingNow DEF IInv, WorkInv
<1>3. /\ o # None /\ CopiesOf(id) = {} /\ MatchesOf(id) = {x}
      /\ x.qty = o.qty - o.cum /\ x.price \in {o.price, None}
  BY <1>1, <1>2 DEF Working
<1>4. /\ o \in Stored /\ o.cum = 0 /\ o.qty \in Nat /\ LockFits(lock[id], o, r)
  BY <1>1, <1>3, StoredFacts DEF Stored
<1>5. x.qty = o.qty /\ o.cum + x.qty >= o.qty
  BY <1>3, <1>4
<1>6. /\ phase = "data" /\ matches' = matches \ {x} /\ Report(id, "Filled")
      /\ stored' = [stored EXCEPT ![id] = None]
      /\ lock' = [lock EXCEPT ![id] = None] /\ balance' = Settle(id, Charged)
      /\ IF Required(r) > 0
         THEN spent' = [spent EXCEPT ![r.acct] =
                          @ + Cost(Or(x.price, o.price), x.qty)]
         ELSE UNCHANGED spent
      /\ UNCHANGED <<now, inflight, count, sent, engine, phase, market, forgotten>>
  BY <1>3, <1>5 DEF ProcessMatch
<1>7. MoneyType' /\ MoneyInv'
  <2>1. MoneyType /\ MoneyInv
    BY TypeMoney DEF IInv
  <2>2. CASE lock[id] # None
    <3>1. /\ Required(r) > 0 /\ lock[id].acct = r.acct
          /\ lock[id].amount = Cost(o.price, o.qty)
      BY <1>4, <2>2 DEF LockFits
    <3>2. Or(x.price, o.price) = o.price
      BY <1>3 DEF Or
    <3>3. spent' = [spent EXCEPT ![lock[id].acct] = @ + lock[id].amount]
      BY <1>5, <1>6, <3>1, <3>2
    <3> QED BY <1>1, <1>6, <2>1, <2>2, <3>3, MoneyCharged
  <2>3. CASE lock[id] = None
    <3>1. ~(Required(r) > 0)
      BY <1>3, <1>4, <2>3 DEF LockFits
    <3>2. lock' = lock
      BY <1>1, <1>6, <2>1, <2>3 DEF MoneyType
    <3>3. UNCHANGED <<lock, balance, spent, forgotten>>
      BY <1>6, <2>3, <3>1, <3>2 DEF Settle
    <3> QED BY <2>1, <3>3, MoneyStays
  <2> QED BY <2>2, <2>3
<1>8. CopiesOf(id)' = {} /\ MatchesOf(id)' = {}
  BY <1>3, <1>6 DEF CopiesOf, MatchesOf
<1>9. /\ \A y : y.id # id => (y \in matches' <=> y \in matches)
      /\ matches' \subseteq matches /\ engine' \subseteq engine
      /\ \A c : c.id # id => (c \in engine' <=> c \in engine)
  BY <1>6
<1>10. "Filled" \in {"Filled", "Expired"}
  OBVIOUS
<1> HIDE DEF id, o, r
<1> QED BY <1>1, <1>3, <1>6, <1>7, <1>8, <1>9, <1>10, GoneStep DEF o

-----------------------------------------------------------------------------
(* Market data.                                                            *)

EngineCopy == [id : Ids, type : OrderTypes, price : Nat \cup {None},
               leaves : Nat]

LEMMA TriggeredCopy ==
  ASSUME NEW c \in EngineCopy
  PROVE  /\ Triggered(c) \in EngineCopy /\ Triggered(c).id = c.id
         /\ Triggered(c).price = c.price /\ Triggered(c).leaves = c.leaves
<1> DEFINE t == CASE c.type = "Stop" -> "Market"
                  [] c.type = "StopLimit" -> "Limit"
                  [] OTHER -> c.type
<1>1. c.type \in OrderTypes
  BY DEF EngineCopy
<1>2. t \in OrderTypes
  BY <1>1 DEF OrderTypes
<1>3. Triggered(c) = [c EXCEPT !.type = t]
  BY DEF Triggered
<1> HIDE DEF t
<1> QED BY <1>2, <1>3 DEF EngineCopy

LEMMA DataStep ==
  ASSUME IInv, NEW inst, NEW m, MarketData(inst, m),
         lastBid' \in [Instruments -> Prices \cup {None}],
         lastAsk' \in [Instruments -> Prices \cup {None}]
  PROVE  IInv'
<1> DEFINE Wake(c) == IF sent[c.id].inst = inst /\ Reached(c, m)
                      THEN Triggered(c) ELSE c
           Done(c) == sent[c.id].inst = inst /\ Fills(c, m)
           awake == AfterTriggers(inst, m)
           done == {c \in awake : Done(c)}
<1>1. /\ phase = "open" /\ phase' = "data"
      /\ engine' = awake \ done /\ matches' = {Match(c) : c \in done}
      /\ UNCHANGED <<now, inflight, count, sent, stored, lock, history, balance,
                     spent, forgotten>>
  BY DEF MarketData, Open
<1>2. engine \subseteq EngineCopy /\ matches = {}
  BY <1>1 DEF IInv, TypeOK, WorkInv, EngineCopy
<1>3. awake = {Wake(c) : c \in engine}
  BY DEF AfterTriggers
<1>4. \A c \in EngineCopy : /\ Wake(c) \in EngineCopy /\ Wake(c).id = c.id
                            /\ Wake(c).price = c.price
                            /\ Wake(c).leaves = c.leaves
  BY TriggeredCopy
<1>5. \A c : /\ Match(c).id = c.id /\ Match(c).qty = c.leaves
             /\ Match(c).price \in {c.price, None}
  BY DEF Match
<1>6. \A c \in EngineCopy :
        Match(c) \in [id : Ids, qty : Nat, price : Nat \cup {None}]
  BY DEF Match, EngineCopy
<1> HIDE DEF Wake, Done, awake
<1>7. awake \subseteq EngineCopy
  BY <1>2, <1>3, <1>4
<1>8. /\ engine' \subseteq EngineCopy
      /\ matches' \subseteq [id : Ids, qty : Nat, price : Nat \cup {None}]
  BY <1>1, <1>6, <1>7
<1>9. ASSUME NEW id \in Ids
      PROVE  Working(stored'[id], CopiesOf(id)', MatchesOf(id)')
  <2>1. Working(stored[id], CopiesOf(id), {})
    BY <1>2, WorkingNow DEF IInv, WorkInv, MatchesOf
  <2>2. \A d \in awake : d.id = id => \E c \in CopiesOf(id) : d = Wake(c)
    BY <1>2, <1>3, <1>4 DEF CopiesOf
  <2>3. CASE stored[id] = None
    <3>1. \A d \in awake : d.id # id
      BY <2>1, <2>2, <2>3 DEF Working
    <3>2. CopiesOf(id)' = {} /\ MatchesOf(id)' = {}
      BY <1>1, <1>5, <3>1 DEF CopiesOf, MatchesOf
    <3> QED BY <1>1, <2>3, <3>2 DEF Working
  <2>4. CASE stored[id] # None
    <3>1. PICK c \in CopiesOf(id) :
            /\ CopiesOf(id) = {c} /\ c.price = stored[id].price
            /\ c.leaves = stored[id].qty - stored[id].cum
      BY <2>1, <2>4 DEF Working
    <3>2. c \in engine /\ c \in EngineCopy /\ c.id = id
      BY <1>2, <3>1 DEF CopiesOf
    <3> DEFINE w == Wake(c)
    <3>3. /\ w \in awake /\ w.id = id /\ w.price = stored[id].price
          /\ w.leaves = stored[id].qty - stored[id].cum
          /\ \A d \in awake : d.id = id => d = w
      BY <1>3, <1>4, <2>2, <3>1, <3>2
    <3> HIDE DEF w
    <3>4. CASE Done(w)
      <4>1. CopiesOf(id)' = {}
        BY <1>1, <3>3, <3>4 DEF CopiesOf
      <4>2. MatchesOf(id)' = {Match(w)}
        <5>1. Match(w) \in MatchesOf(id)'
          BY <1>1, <1>5, <3>3, <3>4 DEF MatchesOf
        <5>2. ASSUME NEW y \in MatchesOf(id)' PROVE y = Match(w)
          BY <1>1, <1>5, <3>3 DEF MatchesOf
        <5> QED BY <5>1, <5>2
      <4> QED BY <1>1, <1>5, <2>4, <3>3, <4>1, <4>2 DEF Working
    <3>5. CASE ~Done(w)
      <4>1. CopiesOf(id)' = {w}
        BY <1>1, <3>3, <3>5 DEF CopiesOf
      <4>2. MatchesOf(id)' = {}
        BY <1>1, <1>5, <3>3, <3>5 DEF MatchesOf
      <4> QED BY <1>1, <2>4, <3>3, <4>1, <4>2 DEF Working
    <3> QED BY <3>4, <3>5
  <2> QED BY <2>3, <2>4
<1>10. WorkInv'
  BY <1>1, <1>9, WorkingNext DEF IInv, WorkInv
<1>11. TypeOK'
  BY <1>1, <1>8 DEF IInv, TypeOK, EngineCopy
<1>12. MoneyInv'
  BY <1>1, TypeMoney, MoneyStays DEF IInv
<1>13. SentInv' /\ PendingInv' /\ LockInv' /\ OneStory'
  BY <1>1 DEF IInv, SentInv, PendingInv, LockInv, Required, OneStory, Has
<1> QED BY <1>10, <1>11, <1>12, <1>13 DEF IInv

-----------------------------------------------------------------------------
(* The caller, the calls' beginnings and ends, and reset.                  *)

\* What a command sent leaves as it is.
LEMMA PushFacts ==
  ASSUME IInv, NEW kind \in Kinds, NEW id \in Ids, NEW ch \in Change,
         NEW latency \in Nat, Push(kind, id, ch, latency)
  PROVE  /\ UNCHANGED <<now, stored, engine, lock, history, matches, phase,
                        lastBid, lastAsk, balance, spent, forgotten>>
         /\ count' \in Nat /\ inflight' \subseteq Command
         /\ \E c \in Command : /\ inflight' = inflight \cup {c}
                               /\ c.kind = kind /\ c.id = id
         /\ MoneyInv' /\ WorkInv' /\ OneStory'
<1> DEFINE c == [kind |-> kind, id |-> id, price |-> ch.price, qty |-> ch.qty,
                 at |-> now + latency, seq |-> count]
<1>1. /\ inflight' = inflight \cup {c} /\ count' = count + 1
      /\ UNCHANGED <<now, stored, engine, lock, history, matches, phase,
                     lastBid, lastAsk, balance, spent, forgotten>>
  BY DEF Push, market
<1>2. c \in Command
  BY DEF Command, Change, IInv, TypeOK
<1>3. MoneyInv'
  BY <1>1, TypeMoney, MoneyStays DEF IInv
<1>4. WorkInv' /\ OneStory'
  BY <1>1 DEF IInv, WorkInv, OneCopyWorking, CopiesOf, MatchesOf, OneStory, Has
<1>5. count' \in Nat /\ inflight' \subseteq Command
  BY <1>1, <1>2 DEF IInv, TypeOK
<1>6. c.kind = kind /\ c.id = id
  OBVIOUS
<1> HIDE DEF c
<1> QED BY <1>1, <1>2, <1>3, <1>4, <1>5, <1>6

LEMMA SubmitStep ==
  ASSUME IInv, NEW id \in Ids, SubmitOrder(id)
  PROVE  IInv'
<1>1. PICK r \in Requests, latency \in InsertLatencies :
        /\ sent[id] = None /\ sent' = [sent EXCEPT ![id] = r]
        /\ Push("submit", id, NoChange, latency)
  BY DEF SubmitOrder
<1>2. latency \in Nat /\ "submit" \in Kinds /\ NoChange \in Change
  BY ExchangeAssumption DEF Kinds, NoChange, Change
<1>3. /\ UNCHANGED <<now, stored, engine, lock, history, matches, phase,
                     lastBid, lastAsk, balance, spent, forgotten>>
      /\ count' \in Nat /\ inflight' \subseteq Command
      /\ MoneyInv' /\ WorkInv' /\ OneStory'
  BY <1>1, <1>2, PushFacts
<1>4. PICK c \in Command : inflight' = inflight \cup {c} /\ c.kind = "submit" /\ c.id = id
  BY <1>1, <1>2, PushFacts
<1>5. /\ sent' \in [Ids -> Requests \cup {None}] /\ sent'[id] = r /\ r # None
      /\ \A j \in Ids \ {id} : sent'[j] = sent[j]
  BY <1>1, ExchangeAssumption, NoneApart DEF IInv, TypeOK
<1>6. stored[id] = None /\ history[id] = <<>> /\ lock[id] = None
  BY <1>1, StoredFacts DEF IInv, SentInv
<1>7. \A d \in inflight : d.id \in Ids /\ d.id # id
  BY <1>1 DEF IInv, SentInv, TypeOK, Command
<1>8. SentInv' /\ PendingInv'
  <2>1. SentInv'
    BY <1>3, <1>4, <1>5, <1>7 DEF IInv, SentInv
  <2>2. PendingInv'
    <3>1. history' = history /\ history[id] = <<>> /\ DOMAIN <<>> = {}
      BY <1>3, <1>6
    <3>2. PendingInv
      BY DEF IInv
    <3> QED BY <1>4, <1>7, <3>1, <3>2 DEF PendingInv
  <2> QED BY <2>1, <2>2
<1>9. LockInv'
  <2>1. LockFits(lock'[id], stored'[id], sent'[id])
    BY <1>3, <1>6 DEF LockFits
  <2> QED BY <1>3, <1>5, <2>1, LockStep DEF IInv
<1>10. TypeOK'
  BY <1>3, <1>5 DEF IInv, TypeOK
<1> QED BY <1>3, <1>8, <1>9, <1>10 DEF IInv

LEMMA ChangeStep ==
  ASSUME IInv, NEW id \in Ids, CancelOrder(id) \/ ModifyOrder(id)
  PROVE  IInv'
<1>1. PICK kind \in Kinds, ch \in Change, latency \in Nat :
        Push(kind, id, ch, latency) /\ kind # "submit"
  <2>1. CASE CancelOrder(id)
    <3>1. NoChange \in Change /\ "cancel" \in Kinds /\ DeleteLatencies \subseteq Nat
      BY ExchangeAssumption DEF Kinds, NoChange, Change
    <3> QED BY <2>1, <3>1 DEF CancelOrder
  <2>2. CASE ModifyOrder(id)
    <3>1. Changes \subseteq Change /\ "modify" \in Kinds /\ UpdateLatencies \subseteq Nat
      BY ExchangeAssumption DEF Kinds
    <3> QED BY <2>2, <3>1 DEF ModifyOrder
  <2> QED BY <2>1, <2>2
<1>2. sent[id] # None /\ sent' = sent
  BY DEF CancelOrder, ModifyOrder
<1>3. /\ UNCHANGED <<now, stored, engine, lock, history, matches, phase,
                     lastBid, lastAsk, balance, spent, forgotten>>
      /\ count' \in Nat /\ inflight' \subseteq Command
      /\ MoneyInv' /\ WorkInv' /\ OneStory'
  BY <1>1, PushFacts
<1>4. PICK c \in Command : inflight' = inflight \cup {c} /\ c.kind # "submit" /\ c.id = id
  BY <1>1, PushFacts
<1>5. SentInv' /\ PendingInv' /\ LockInv'
  BY <1>2, <1>3, <1>4 DEF IInv, SentInv, PendingInv, LockInv, Required
<1>6. TypeOK'
  BY <1>2, <1>3 DEF IInv, TypeOK
<1> QED BY <1>3, <1>5, <1>6 DEF IInv

\* Steps that touch the clock or the phase only.
LEMMA FrameStep ==
  ASSUME IInv, AdvanceTime \/ StartCommands \/ EndCommands \/ EndData
  PROVE  IInv'
<1>1. /\ UNCHANGED <<inflight, count, sent, stored, engine, lock, history,
                     matches, lastBid, lastAsk, balance, spent, forgotten>>
      /\ now' \in Nat /\ phase' \in {"open", "commands", "data"}
      /\ phase' # "data" => matches = {}
  BY DEF AdvanceTime, StartCommands, EndCommands, EndData, Open, orders, market,
         IInv, TypeOK, WorkInv
<1>2. MoneyInv'
  BY <1>1, TypeMoney, MoneyStays DEF IInv
<1>3. TypeOK'
  BY <1>1 DEF IInv, TypeOK
<1>4. SentInv' /\ PendingInv' /\ LockInv' /\ OneStory'
  BY <1>1 DEF IInv, SentInv, PendingInv, LockInv, Required, OneStory, Has
<1>5. WorkInv'
  BY <1>1 DEF IInv, WorkInv, OneCopyWorking, CopiesOf, MatchesOf
<1> QED BY <1>2, <1>3, <1>4, <1>5 DEF IInv

\* An empty book, as Init and reset make it.
EmptyBook ==
  /\ inflight = {} /\ engine = {} /\ matches = {}
  /\ sent = [id \in Ids |-> None] /\ stored = [id \in Ids |-> None]
  /\ lock = [id \in Ids |-> None] /\ history = [id \in Ids |-> <<>>]

\* All that is locked was locked when the orders were forgotten.
OnlyForgotten == \A a \in Accounts : balance[a].locked = forgotten[a]

LEMMA EmptyBookInv ==
  ASSUME EmptyBook, TypeOK, BalancesConsistent, OnlyForgotten
  PROVE  IInv
<1>1. \A a \in Accounts : LockedUnits(lock, a) = {}
  BY DEF EmptyBook, LockedUnits, Units
<1>2. IsFiniteSet({}) /\ Cardinality({}) = 0
  BY FS_EmptySet
<1>3. \A a \in Accounts : forgotten[a] \in Nat
  BY DEF TypeOK
<1>4. MoneyInv
  <2>1. ASSUME NEW a \in Accounts
        PROVE  /\ IsFiniteSet(LockedUnits(lock, a))
               /\ balance[a].locked = forgotten[a] + Cardinality(LockedUnits(lock, a))
    <3>1. IsFiniteSet(LockedUnits(lock, a)) /\ Cardinality(LockedUnits(lock, a)) = 0
      BY <1>1, <1>2
    <3> QED BY <1>3, <3>1 DEF OnlyForgotten
  <2> QED BY <2>1 DEF MoneyInv
<1>5. SentInv /\ PendingInv /\ LockInv
  BY DEF EmptyBook, SentInv, PendingInv, LockInv
<1>6. WorkInv
  BY DEF EmptyBook, WorkInv, OneCopyWorking, CopiesOf, MatchesOf
<1>7. OneStory
  <2>1. \A id \in Ids : history[id] = <<>> /\ stored[id] = None
    BY DEF EmptyBook
  <2>2. DOMAIN <<>> = {}
    OBVIOUS
  <2> QED BY <2>1, <2>2 DEF OneStory, Has
<1> QED BY <1>4, <1>5, <1>6, <1>7 DEF IInv

LEMMA ResetStep ==
  ASSUME IInv, Reset
  PROVE  IInv'
<1>1. matches = {}
  BY DEF Reset, Open, IInv, WorkInv
<1>2. EmptyBook' /\ OnlyForgotten'
  BY <1>1 DEF Reset, EmptyBook, OnlyForgotten
<1>3. BalancesConsistent'
  BY DEF Reset, IInv, MoneyInv, BalancesConsistent
<1>4. TypeOK'
  <2>1. <<>> \in Seq(Events)
    OBVIOUS
  <2> QED BY <2>1, <1>1 DEF Reset, IInv, TypeOK
<1>5. EmptyBook' /\ TypeOK' /\ BalancesConsistent' /\ OnlyForgotten' => IInv'
  BY EmptyBookInv, PTL
<1> QED BY <1>2, <1>3, <1>4, <1>5

LEMMA InitInv == Init => IInv
<1> SUFFICES ASSUME Init PROVE IInv
  OBVIOUS
<1>1. EmptyBook
  BY DEF Init, EmptyBook
<1>2. \A a \in Accounts : Deposit[a] \in Nat
  BY ExchangeAssumption
<1>3. BalancesConsistent /\ OnlyForgotten
  BY <1>2 DEF Init, BalancesConsistent, OnlyForgotten
<1>4. TypeOK
  <2>1. <<>> \in Seq(Events)
    OBVIOUS
  <2> QED BY <1>2, <2>1 DEF Init, TypeOK
<1> QED BY <1>1, <1>3, <1>4, EmptyBookInv

LEMMA NextInv == IInv /\ [Next]_vars => IInv'
<1> SUFFICES ASSUME IInv, [Next]_vars PROVE IInv'
  OBVIOUS
<1>1. CASE Next
  <2>1. ASSUME NEW id \in Ids, Caller(id) \/ ExpireOrder(id) PROVE IInv'
    BY <2>1, SubmitStep, ChangeStep, ExpireStep DEF Caller
  <2>2. ASSUME NEW c \in inflight, ProcessCommand(c) PROVE IInv'
    BY <2>2, RejectStep, AcceptSubmitStep, CancelWorkingStep, CancelUnknownStep,
       AcceptModifyStep DEF ProcessCommand
  <2>3. ASSUME NEW inst \in Instruments, Data(inst) PROVE IInv'
    <3>1. TypeOK
      BY DEF IInv
    <3>2. CASE ProcessBar(inst)
      BY <3>1, <3>2, DataStep DEF ProcessBar, market, TypeOK
    <3>3. CASE ProcessTradeTick(inst)
      BY <3>1, <3>3, DataStep DEF ProcessTradeTick, market, TypeOK
    <3>4. CASE ProcessQuoteTick(inst)
      <4>1. PICK bid \in Prices, ask \in Prices :
              /\ lastBid' = [lastBid EXCEPT ![inst] = bid]
              /\ lastAsk' = [lastAsk EXCEPT ![inst] = ask]
              /\ MarketData(inst, [bid |-> bid, ask |-> ask, last |-> None,
                                   high |-> None, low |-> None,
                                   point2 |-> bid + ask])
        BY <3>4 DEF ProcessQuoteTick
      <4>2. /\ lastBid' \in [Instruments -> Prices \cup {None}]
            /\ lastAsk' \in [Instruments -> Prices \cup {None}]
        BY <3>1, <4>1 DEF TypeOK
      <4> QED BY <4>1, <4>2, DataStep
    <3> QED BY <2>3, <3>2, <3>3, <3>4 DEF Data
  <2> QED BY <1>1, <2>1, <2>2, <2>3, FrameStep, ResetStep, ProcessMatchStep DEF Next
<1>2. CASE UNCHANGED vars
  <2>1. UNCHANGED <<now, inflight, count, sent, stored, engine, lock, history,
                    matches, phase, lastBid, lastAsk, balance, spent, forgotten>>
    BY <1>2 DEF vars, orders, market
  <2>2. MoneyInv'
    BY <2>1, TypeMoney, MoneyStays DEF IInv
  <2>3. TypeOK' /\ SentInv' /\ PendingInv' /\ LockInv' /\ OneStory'
    BY <2>1 DEF IInv, TypeOK, SentInv, PendingInv, LockInv, Required, OneStory, Has
  <2>4. WorkInv'
    BY <2>1 DEF IInv, WorkInv, OneCopyWorking, CopiesOf, MatchesOf
  <2> QED BY <2>2, <2>3, <2>4 DEF IInv
<1> QED BY <1>1, <1>2

LEMMA AlwaysIInv == Spec => []IInv
BY InitInv, NextInv, PTL DEF Spec

\* Every variable keeps its type: whatever is submitted, modified, canceled,
\* filled and expired in whatever order, no total, free or locked amount of
\* an account (AccountBalance) is ever negative.
THEOREM ExchangeTypeCorrect == Spec => []TypeOK
<1>1. IInv => TypeOK
  BY DEF IInv
<1> QED BY <1>1, AlwaysIInv, PTL

\* process_submit, process_cancel, process_modify, process_matches and
\* check_expired_orders neither make nor lose money: free and locked funds add
\* up, and the total went down by what the filled orders cost.
THEOREM MoneyConserved == Spec => []BalancesConsistent
<1>1. IInv => BalancesConsistent
  BY DEF IInv, MoneyInv
<1> QED BY <1>1, AlwaysIInv, PTL

\* The locked funds of an account are the sum of what is locked for its orders,
\* all of which are stored, and of what was locked when reset forgot the orders
\* before: no other path through the exchange leaves funds locked for an order
\* that is gone, and no order of a later run uses up or frees the funds a reset
\* left behind.
THEOREM LocksAlwaysMatch == Spec => []LocksMatchOrders
<1>1. IInv => LocksMatchOrders
  BY DEF IInv, MoneyInv, LockInv, LocksMatchOrders
<1> QED BY <1>1, AlwaysIInv, PTL

\* The orders the exchange stores and the copies its matching engines work on
\* stay in step: one copy each, with the price and remaining quantity of the
\* stored order, and none of an order that is gone.
THEOREM OneCopyAlways == Spec => []OneCopyWorking
<1>1. IInv => OneCopyWorking
  BY DEF IInv, WorkInv
<1> QED BY <1>1, AlwaysIInv, PTL

\* The events reported of an order tell one story: it is answered once, ends
\* at most once, and is not filled after its cancel or expiry.
THEOREM OneStoryAlways == Spec => []OneStory
<1>1. IInv => OneStory
  BY DEF IInv
<1> QED BY <1>1, AlwaysIInv, PTL

-----------------------------------------------------------------------------
(* The life of an order: every step of the exchange is a step of OrderLife *)
(* or none.                                                                *)

LEMMA StageNow ==
  ASSUME NEW id \in Ids
  PROVE  /\ Stage[id] = IF sent[id] = None THEN "new"
                        ELSE IF stored[id] # None THEN "working"
                        ELSE IF InFlight(id) THEN "sent" ELSE "over"
         /\ TermsNow[id] = CASE Stage[id] = "working" -> Asked(stored[id])
                             [] Stage[id] = "sent" -> Asked(sent[id])
                             [] OTHER -> None
BY DEF Stage, TermsNow

LEMMA StageNext ==
  ASSUME NEW id \in Ids
  PROVE  /\ Stage'[id] = IF sent'[id] = None THEN "new"
                         ELSE IF stored'[id] # None THEN "working"
                         ELSE IF InFlight(id)' THEN "sent" ELSE "over"
         /\ TermsNow'[id] = CASE Stage'[id] = "working" -> Asked(stored'[id])
                              [] Stage'[id] = "sent" -> Asked(sent'[id])
                              [] OTHER -> None
BY DEF Stage, TermsNow, Asked

\* A step of the order id alone.
LEMMA OneMoves ==
  ASSUME NEW id \in Ids,
         \A i \in Ids \ {id} : /\ sent'[i] = sent[i] /\ stored'[i] = stored[i]
                               /\ InFlight(i)' <=> InFlight(i)
  PROVE  /\ Stage' = [Stage EXCEPT ![id] = Stage'[id]]
         /\ TermsNow' = [TermsNow EXCEPT ![id] = TermsNow'[id]]
<1>1. \A i \in Ids \ {id} : Stage'[i] = Stage[i]
  BY StageNow, StageNext
<1>2. \A i \in Ids \ {id} : TermsNow'[i] = TermsNow[i]
  BY <1>1, StageNow, StageNext
<1>3. /\ Stage = [i \in Ids |-> Stage[i]] /\ Stage' = [i \in Ids |-> Stage'[i]]
      /\ TermsNow = [i \in Ids |-> TermsNow[i]]
      /\ TermsNow' = [i \in Ids |-> TermsNow'[i]]
  BY DEF Stage, TermsNow
<1> QED BY <1>1, <1>2, <1>3

LEMMA NoneMoves ==
  ASSUME UNCHANGED <<sent, stored, history>>,
         \A i \in Ids : InFlight(i)' <=> InFlight(i)
  PROVE  UNCHANGED Life!vars
<1>1. \A i \in Ids : Stage'[i] = Stage[i] BY StageNow, StageNext
<1>2. \A i \in Ids : TermsNow'[i] = TermsNow[i]
  BY <1>1, StageNow, StageNext
<1>3. /\ Stage = [i \in Ids |-> Stage[i]] /\ Stage' = [i \in Ids |-> Stage'[i]]
      /\ TermsNow = [i \in Ids |-> TermsNow[i]]
      /\ TermsNow' = [i \in Ids |-> TermsNow'[i]]
  BY DEF Stage, TermsNow
<1> QED BY <1>1, <1>2, <1>3 DEF Life!vars

LEMMA AskedTerms ==
  ASSUME NEW o, o \in Request \/ o \in Stored
  PROVE  Asked(o) \in [price : Nat \cup {None}, qty : Nat]
BY DEF Asked, Request, Stored, Positive

LEMMA LifeInit == Init => Life!Fresh
<1> SUFFICES ASSUME Init PROVE Life!Fresh
  OBVIOUS
<1>1. Stage = [id \in Ids |-> "new"]
  BY DEF Init, Stage
<1>2. TermsNow = [id \in Ids |-> None]
  BY <1>1 DEF TermsNow
<1> QED BY <1>1, <1>2 DEF Init, Life!Fresh

LEMMA LifeReset ==
  ASSUME Reset
  PROVE  Life!Forget
<1>1. Stage' = [id \in Ids |-> "new"]
  BY DEF Reset, Stage
<1>2. TermsNow' = [id \in Ids |-> None]
  BY <1>1 DEF TermsNow
<1> QED BY <1>1, <1>2 DEF Reset, Life!Forget, Life!Fresh

LEMMA LifeSubmit ==
  ASSUME IInv, NEW id \in Ids, SubmitOrder(id)
  PROVE  Life!Submit(id)
<1>1. PICK r \in Requests, latency \in InsertLatencies :
        /\ sent[id] = None /\ sent' = [sent EXCEPT ![id] = r]
        /\ Push("submit", id, NoChange, latency)
  BY DEF SubmitOrder
<1>2. latency \in Nat /\ "submit" \in Kinds /\ NoChange \in Change
  BY ExchangeAssumption DEF Kinds, NoChange, Change
<1>3. PICK c \in Command : inflight' = inflight \cup {c} /\ c.kind = "submit" /\ c.id = id
  BY <1>1, <1>2, PushFacts
<1>4. stored' = stored /\ history' = history
  BY <1>1, <1>2, PushFacts
<1>5. /\ sent'[id] = r /\ r \in Request /\ r # None
      /\ \A i \in Ids \ {id} : sent'[i] = sent[i]
  BY <1>1, ExchangeAssumption, NoneApart DEF IInv, TypeOK
<1>6. /\ \A i \in Ids \ {id} : InFlight(i)' <=> InFlight(i)
      /\ InFlight(id)'
  BY <1>3 DEF InFlight
<1>7. stored[id] = None BY <1>1 DEF IInv, SentInv
<1>8. Stage[id] = "new" /\ Stage'[id] = "sent" /\ TermsNow'[id] = Asked(r)
  BY <1>1, <1>4, <1>5, <1>6, <1>7, StageNow, StageNext
<1>9. /\ Stage' = [Stage EXCEPT ![id] = Stage'[id]]
      /\ TermsNow' = [TermsNow EXCEPT ![id] = TermsNow'[id]]
  BY <1>4, <1>5, <1>6, OneMoves
<1>10. TermsNow'[id] \in [price : Nat \cup {None}, qty : Nat]
  BY <1>5, <1>8, AskedTerms
<1> QED BY <1>4, <1>8, <1>9, <1>10 DEF Life!Submit, Life!Move, Life!Agree

LEMMA LifePush ==
  ASSUME IInv, NEW id \in Ids, CancelOrder(id) \/ ModifyOrder(id)
  PROVE  UNCHANGED Life!vars
<1>1. PICK kind \in Kinds, ch \in Change, latency \in Nat :
        Push(kind, id, ch, latency) /\ kind # "submit"
  BY ExchangeAssumption DEF CancelOrder, ModifyOrder, Kinds, NoChange, Change
<1>2. UNCHANGED <<sent, stored, history>>
  BY <1>1, PushFacts DEF CancelOrder, ModifyOrder
<1>3. PICK c \in Command : inflight' = inflight \cup {c} /\ c.kind = kind
  BY <1>1, PushFacts
<1>4. \A i \in Ids : InFlight(i)' <=> InFlight(i)
  BY <1>1, <1>3 DEF InFlight
<1> QED BY <1>2, <1>4, NoneMoves

\* A stored order ends.
LEMMA LifeEnds ==
  ASSUME IInv, NEW id \in Ids, stored[id] # None, sent' = sent,
         stored' = [stored EXCEPT ![id] = None],
         NEW e \in {"Filled", "Canceled", "Expired"}, Report(id, e),
         \A i \in Ids : InFlight(i)' <=> InFlight(i)
  PROVE  Life!End(id, e)
<1>1. sent[id] # None BY DEF IInv, SentInv
<1>2. ~InFlight(id)
  BY PendingNotStored DEF InFlight
<1>3. stored'[id] = None /\ \A i \in Ids \ {id} : stored'[i] = stored[i]
  BY DEF IInv, TypeOK
<1>4. Stage[id] = "working" /\ Stage'[id] = "over" /\ TermsNow'[id] = None
  BY <1>1, <1>2, <1>3, StageNow, StageNext
<1>5. /\ Stage' = [Stage EXCEPT ![id] = Stage'[id]]
      /\ TermsNow' = [TermsNow EXCEPT ![id] = TermsNow'[id]]
  BY <1>3, OneMoves
<1> QED BY <1>4, <1>5 DEF Life!End, Life!Tell, Life!Move, Life!Drop, Report

LEMMA LifeCommand ==
  ASSUME IInv, IInv', NEW c \in inflight, ProcessCommand(c)
  PROVE  [Life!Next]_(Life!vars)
<1> DEFINE id == c.id
<1>1. /\ id \in Ids /\ sent[id] # None /\ sent[id] \in Request
      /\ stored \in [Ids -> Stored \cup {None}]
      /\ stored' \in [Ids -> Stored \cup {None}]
  BY CommandFacts DEF IInv, TypeOK
<1>2. sent' = sent /\ inflight' = inflight \ {c}
  BY DEF ProcessCommand, RejectSubmit, AcceptSubmit, CancelWorking,
         CancelUnknown, RejectModify, AcceptModify, Take
<1>3. \A i \in Ids \ {id} : InFlight(i)' <=> InFlight(i)
  BY <1>2 DEF InFlight
<1>4. c.kind # "submit" => (InFlight(id)' <=> InFlight(id))
  BY <1>2 DEF InFlight
<1>5. c.kind = "submit" => InFlight(id) /\ ~InFlight(id)' /\ stored[id] = None
  <2>1. c.kind = "submit" => \A d \in inflight :
          d.kind = "submit" /\ d.id = id => d = c
    BY DEF IInv, PendingInv
  <2> QED BY <1>2, <2>1, PendingNotStored DEF InFlight
<1> HIDE DEF id
<1>6. CASE RejectSubmit(c)
  <2>1. c.kind = "submit" /\ stored' = stored /\ Report(id, "Rejected")
    BY <1>6 DEF RejectSubmit, Take, id
  <2>2. Stage[id] = "sent" /\ Stage'[id] = "over" /\ TermsNow'[id] = None
    BY <1>1, <1>2, <1>5, <2>1, StageNow, StageNext
  <2>3. /\ Stage' = [Stage EXCEPT ![id] = Stage'[id]]
        /\ TermsNow' = [TermsNow EXCEPT ![id] = TermsNow'[id]]
    BY <1>1, <1>2, <1>3, <2>1, OneMoves
  <2>4. Life!Reject(id)
    BY <2>1, <2>2, <2>3 DEF Life!Reject, Life!Tell, Life!Move, Life!Drop, Report
  <2> QED BY <1>1, <2>4 DEF Life!Next
<1>7. CASE AcceptSubmit(c)
  <2>1. /\ c.kind = "submit" /\ Report(id, "Accepted")
        /\ stored' = [stored EXCEPT ![id] = [price |-> sent[id].price,
                                             qty |-> sent[id].qty, cum |-> 0]]
    BY <1>7 DEF AcceptSubmit, Take, id
  <2>2. stored'[id] = [price |-> sent[id].price, qty |-> sent[id].qty, cum |-> 0]
        /\ \A i \in Ids \ {id} : stored'[i] = stored[i]
    BY <1>1, <2>1
  <2>3. stored'[id] # None
    <3>1. [price |-> sent[id].price, qty |-> sent[id].qty, cum |-> 0] \in Stored
      BY <1>1 DEF Stored, Request, Positive
    <3> QED BY <2>2, <3>1, NoneApart
  <2>4. Stage[id] = "sent" /\ Stage'[id] = "working"
    BY <1>1, <1>2, <1>5, <2>1, <2>3, StageNow, StageNext
  <2>5. TermsNow[id] = Asked(sent[id]) /\ TermsNow'[id] = Asked(stored'[id])
    BY <1>1, <2>4, StageNow, StageNext
  <2>6. TermsNow'[id] = TermsNow[id]
    BY <2>2, <2>5 DEF Asked
  <2>7. /\ Stage' = [Stage EXCEPT ![id] = Stage'[id]]
        /\ TermsNow' = [TermsNow EXCEPT ![id] = TermsNow'[id]]
    BY <1>1, <1>2, <1>3, <2>2, OneMoves
  <2>8. TermsNow' = TermsNow
    <3>1. TermsNow = [i \in Ids |-> TermsNow[i]] BY DEF TermsNow
    <3> QED BY <2>6, <2>7, <3>1
  <2>9. Life!Accept(id)
    BY <2>1, <2>4, <2>7, <2>8 DEF Life!Accept, Life!Tell, Life!Move, Report
  <2> QED BY <1>1, <2>9 DEF Life!Next
<1>8. CASE CancelWorking(c)
  <2>1. /\ c.kind = "cancel" /\ stored[id] # None /\ Report(id, "Canceled")
        /\ stored' = [stored EXCEPT ![id] = None]
    BY <1>8 DEF CancelWorking, Take, id
  <2>2. Life!End(id, "Canceled")
    BY <1>1, <1>2, <1>3, <1>4, <2>1, LifeEnds
  <2> QED BY <1>1, <2>2 DEF Life!Next
<1>9. CASE CancelUnknown(c)
  <2>1. c.kind = "cancel" /\ stored' = stored /\ history' = history
    BY <1>9 DEF CancelUnknown, Take
  <2> QED BY <1>2, <1>3, <1>4, <2>1, NoneMoves
<1>10. CASE RejectModify(c)
  <2>1. c.kind = "modify" /\ stored' = stored /\ Report(id, "ModifyRejected")
    BY <1>10 DEF RejectModify, Take, id
  <2>2. Stage[id] # "new" /\ Stage'[id] = Stage[id] /\ TermsNow'[id] = TermsNow[id]
    BY <1>1, <1>2, <1>4, <2>1, StageNow, StageNext
  <2>3. /\ Stage' = [Stage EXCEPT ![id] = Stage'[id]]
        /\ TermsNow' = [TermsNow EXCEPT ![id] = TermsNow'[id]]
    BY <1>1, <1>2, <1>3, <2>1, OneMoves
  <2>4. Stage' = Stage /\ TermsNow' = TermsNow
    <3>1. /\ Stage = [i \in Ids |-> Stage[i]]
          /\ TermsNow = [i \in Ids |-> TermsNow[i]]
      BY DEF Stage, TermsNow
    <3> QED BY <2>2, <2>3, <3>1
  <2>5. Life!RefuseAmend(id)
    BY <2>1, <2>2, <2>4 DEF Life!RefuseAmend, Life!Tell, Report
  <2> QED BY <1>1, <2>5 DEF Life!Next
<1>11. CASE AcceptModify(c)
  <2>1. /\ c.kind = "modify" /\ stored[id] # None /\ Report(id, "Updated")
        /\ stored' = [stored EXCEPT ![id] = Modified(c)]
    BY <1>11 DEF AcceptModify, GoodChange, Take, id
  <2>2. /\ stored'[id] = Modified(c)
        /\ \A i \in Ids \ {id} : stored'[i] = stored[i]
    BY <1>1, <2>1
  <2>3. stored'[id] # None /\ stored'[id] \in Stored
    <3>1. stored[id] \in Stored BY <1>1, <2>1
    <3>2. DOMAIN Modified(c) = DOMAIN stored[id] BY DEF Modified, id
    <3>3. Modified(c) # None
      <4>1. c.price \in Nat \cup {None} /\ c.qty \in Nat \cup {None}
        BY CommandFacts DEF Command
      <4>2. Modified(c) \in Stored
        BY <3>1, <4>1 DEF Modified, Stored, Or, id
      <4> QED BY <4>2, NoneApart
    <3> QED BY <1>1, <2>2, <3>3
  <2>4. /\ Stage[id] = "working" /\ Stage'[id] = "working"
        /\ TermsNow'[id] = Asked(stored'[id])
    BY <1>1, <1>2, <2>1, <2>3, StageNow, StageNext
  <2>5. /\ Stage' = [Stage EXCEPT ![id] = Stage'[id]]
        /\ TermsNow' = [TermsNow EXCEPT ![id] = TermsNow'[id]]
    BY <1>1, <1>2, <1>3, <2>2, OneMoves
  <2>6. Stage' = Stage
    <3>1. Stage = [i \in Ids |-> Stage[i]] BY DEF Stage
    <3> QED BY <2>4, <2>5, <3>1
  <2>7. TermsNow'[id] \in [price : Nat \cup {None}, qty : Nat]
    BY <2>3, <2>4, AskedTerms
  <2>8. Life!Amend(id)
    BY <2>1, <2>4, <2>5, <2>6, <2>7 DEF Life!Amend, Life!Tell, Life!Agree, Report
  <2> QED BY <1>1, <2>8 DEF Life!Next
<1> QED BY <1>6, <1>7, <1>8, <1>9, <1>10, <1>11 DEF ProcessCommand

LEMMA LifeMatch ==
  ASSUME IInv, NEW x \in matches, ProcessMatch(x)
  PROVE  x.id \in Ids /\ Life!End(x.id, "Filled")
<1>1. x.id \in Ids /\ x.qty \in Nat /\ stored \in [Ids -> Stored \cup {None}]
  BY DEF IInv, TypeOK
<1>2. stored[x.id] # None
  BY <1>1, StoredFacts DEF MatchesOf
<1>3. stored[x.id].cum + x.qty >= stored[x.id].qty
  <2>1. x.qty = stored[x.id].qty - stored[x.id].cum
    BY <1>1, <1>2 DEF IInv, WorkInv, OneCopyWorking, MatchesOf
  <2>2. stored[x.id].qty \in Nat /\ stored[x.id].cum \in Nat
    BY <1>1, <1>2 DEF Stored
  <2> QED BY <1>1, <2>1, <2>2
<1>4. Report(x.id, "Filled") /\ sent' = sent /\ inflight' = inflight
      /\ stored' = [stored EXCEPT ![x.id] = None]
  BY <1>2, <1>3 DEF ProcessMatch
<1>5. \A i \in Ids : InFlight(i)' <=> InFlight(i) BY <1>4 DEF InFlight
<1> QED BY <1>1, <1>2, <1>4, <1>5, LifeEnds

LEMMA LifeNext ==
  ASSUME IInv, IInv', [Next]_vars
  PROVE  [Life!Next]_(Life!vars)
<1>1. ASSUME NEW id \in Ids, Caller(id)
      PROVE  [Life!Next]_(Life!vars)
  BY <1>1, LifeSubmit, LifePush DEF Caller, Life!Next
<1>2. ASSUME NEW id \in Ids, ExpireOrder(id)
      PROVE  [Life!Next]_(Life!vars)
  <2>1. /\ stored[id] # None /\ sent' = sent /\ Report(id, "Expired")
        /\ inflight' = inflight /\ stored' = [stored EXCEPT ![id] = None]
    BY <1>2 DEF ExpireOrder, Expired
  <2>2. \A i \in Ids : InFlight(i)' <=> InFlight(i) BY <2>1 DEF InFlight
  <2>3. Life!End(id, "Expired") BY <2>1, <2>2, LifeEnds
  <2> QED BY <2>3 DEF Life!Next
<1>3. ASSUME NEW c \in inflight, ProcessCommand(c)
      PROVE  [Life!Next]_(Life!vars)
  BY <1>3, LifeCommand
<1>4. ASSUME NEW x \in matches, ProcessMatch(x)
      PROVE  [Life!Next]_(Life!vars)
  BY <1>4, LifeMatch DEF Life!Next
<1>5. CASE Reset
  BY <1>5, LifeReset DEF Life!Next
<1>6. ASSUME UNCHANGED <<sent, stored, history, inflight>>
      PROVE  [Life!Next]_(Life!vars)
  <2>1. \A i \in Ids : InFlight(i)' <=> InFlight(i) BY <1>6 DEF InFlight
  <2> QED BY <1>6, <2>1, NoneMoves
<1>7. CASE AdvanceTime \/ StartCommands \/ EndCommands \/ EndData
  BY <1>6, <1>7 DEF AdvanceTime, StartCommands, EndCommands, EndData, orders
<1>8. ASSUME NEW inst \in Instruments, Data(inst)
      PROVE  [Life!Next]_(Life!vars)
  BY <1>6, <1>8 DEF Data, ProcessBar, ProcessTradeTick, ProcessQuoteTick, MarketData
<1>9. CASE UNCHANGED vars
  BY <1>6, <1>9 DEF vars, orders
<1> QED BY <1>1, <1>2, <1>3, <1>4, <1>5, <1>7, <1>8, <1>9 DEF Next

\* The exchange implements OrderLife: whatever the latencies, the order in
\* which commands, market data and resets come, and however often process_modify
\* exchanges the engine's copy, an order is accepted as it was submitted, works
\* at terms that change only together with an Updated event, and ends once.
THEOREM OrderLifeKept == Spec => KeepsOrderLife
<1>1. IInv /\ IInv' /\ [Next]_vars => [Life!Next]_(Life!vars)
  BY LifeNext
<1> QED BY <1>1, LifeInit, AlwaysIInv, PTL DEF Spec, KeepsOrderLife, Life!Spec

=============================================================================
