-------------------------- MODULE RingBufferProofs --------------------------
(***************************************************************************)
(* Proofs about RingBuffer, for every capacity, number of words, number of *)
(* ticks and number of restarts.                                           *)
(***************************************************************************)
EXTENDS RingBuffer, TLAPS

(***************************************************************************)
(* The inductive invariant.  Positions: what each process has loaded lies  *)
(* between what was returned and what read_pos says now, and read_pos is   *)
(* at most one ahead, only while a push is under way.                      *)
(***************************************************************************)
PositionInv ==
    /\ taken <= readPos
    /\ readPos <= writePos + (IF push.pc \in {"mark", "copy"} THEN 1 ELSE 0)
    /\ pop.pc # "idle" => taken <= pop.at /\ pop.at <= readPos
    /\ push.pc # "idle" => writePos < MaxTicks

\* A push that found the buffer full moves read_pos on by one, and an entry
\* returned by one: what the two have moved it is all the way it went.  (The
\* consumer's store can undo what the producer added, never add to it.)
LossInv ==
    /\ readPos + (IF push.pc = "advance" THEN 1 ELSE 0) <= got + full
    /\ full <= writePos + (IF push.pc = "idle" THEN 0 ELSE 1)
    /\ push.pc \in {"advance", "mark"} => full > 0
    /\ overflow => full > 0
    /\ full > 0 => overflow \/ push.pc \in {"advance", "mark"}

\* The buffer was found full by a push, now or before.
Lossy == full > 0

\* Every entry ever written is still there or was replaced by a later one of
\* the same slot; the consumer's copy is made of such entries.
FreshInv ==
    /\ \A n \in 0 .. MaxTicks, w \in Words : n < writePos => n <= slots[Slot(n)][w]
    /\ \A i \in Indexes, w \in Words :
         /\ slots[i][w] <= writePos
         /\ slots[i][w] # -1 => Slot(slots[i][w]) = i
    /\ pop.pc = "copy" =>
         \A w \in Words \ pop.todo : /\ pop.at <= pop.entry[w]
                                     /\ pop.entry[w] <= writePos
                                     /\ Slot(pop.entry[w]) = Slot(pop.at)

\* The part of the new entry that is copied.
CopyInv ==
    /\ push.pc \in {"advance", "mark"} => push.todo = Words
    /\ push.pc = "copy" => \A w \in Words \ push.todo : slots[Slot(writePos)][w] = writePos

\* As long as the buffer was never full, the producer has stayed away from
\* read_pos and from every entry the consumer can read.
ExactInv ==
    ~Lossy =>
      /\ readPos = taken
      /\ readPos <= writePos
      /\ writePos - readPos <= Capacity
      /\ push.pc = "copy" => writePos - readPos < Capacity
      /\ pop.pc # "idle" => pop.at = readPos
      /\ \A n \in 0 .. MaxTicks, w \in Words :
           readPos <= n /\ n < writePos => slots[Slot(n)][w] = n
      /\ pop.pc = "copy" => \A w \in Words \ pop.todo : pop.entry[w] = pop.at

IInv == TypeOK /\ PositionInv /\ LossInv /\ FreshInv /\ CopyInv /\ ExactInv
-----------------------------------------------------------------------------
(* Remainders.                                                             *)

LEMMA DivMod ==
    \A c \in Nat \ {0}, n \in Nat :
      n % c \in 0 .. c - 1 /\ n \div c \in Int /\ n = c * (n \div c) + (n % c)
OBVIOUS

LEMMA SlotInRange == \A n \in Nat : Slot(n) \in Indexes
BY CapacityAssumption, DivMod DEF Slot, Indexes

\* Different multiples are at least one apart.
LEMMA MultiplesApart ==
    ASSUME NEW c \in Nat \ {0}, NEW a \in Int, NEW b \in Int, c * a < c * b
    PROVE  c * a + c <= c * b
<1>1. a < b
  <2>1. SUFFICES ASSUME b <= a PROVE FALSE
    OBVIOUS
  <2>2. PICK d \in Nat : a = b + d
    <3>1. a - b \in Nat
      BY <2>1
    <3>. QED BY <3>1
  <2>3. c * a = c * b + c * d
    BY <2>2
  <2>4. c * d >= 0
    OBVIOUS
  <2>. QED BY <2>3, <2>4
<1>2. PICK d \in Nat : b = a + 1 + d
  <2>1. b - a - 1 \in Nat
    BY <1>1
  <2>. QED BY <2>1
<1>3. c * b = c * a + c + c * d
  BY <1>2
<1>4. c * d >= 0
  OBVIOUS
<1>. QED BY <1>3, <1>4

\* Two ticks that share a slot are at least a whole buffer apart.
LEMMA SlotsApart ==
    ASSUME NEW n \in Nat, NEW t \in Nat, Slot(n) = Slot(t), n < t
    PROVE  n + Capacity <= t
<1> DEFINE a == n \div Capacity
<1> DEFINE b == t \div Capacity
<1>1. /\ n = Capacity * a + Slot(n)
      /\ t = Capacity * b + Slot(t)
      /\ a \in Int /\ b \in Int /\ Slot(n) \in Int
  BY CapacityAssumption, DivMod DEF Slot
<1> HIDE DEF a, b
<1>2. Capacity * a \in Int /\ Capacity * b \in Int
  BY <1>1, CapacityAssumption
<1>3. Capacity * a < Capacity * b
  BY <1>1, <1>2
<1>4. Capacity * a + Capacity <= Capacity * b
  BY <1>1, <1>3, MultiplesApart, CapacityAssumption
<1>. QED BY <1>1, <1>2, <1>4, CapacityAssumption
-----------------------------------------------------------------------------
(* The initial state, and one lemma for each action.                       *)

LEMMA ZeroedType == Zeroed \in [Words -> -1 .. MaxTicks]
<1>1. -1 \in -1 .. MaxTicks
  BY BoundsAssumption
<1>. QED BY <1>1 DEF Zeroed

LEMMA PopIdleType ==
    /\ PopIdle.pc = "idle"
    /\ PopIdle \in [pc : {"idle", "loaded", "copy"}, at : 0 .. MaxTicks + 1,
                    todo : SUBSET Words, entry : [Words -> -1 .. MaxTicks]]
BY ZeroedType, BoundsAssumption DEF PopIdle

LEMMA InitType == ASSUME Init PROVE TypeOK
<1>. USE BoundsAssumption DEF Init
<1>1. slots \in [Indexes -> [Words -> -1 .. MaxTicks]] /\ item \in [Words -> -1 .. MaxTicks]
  BY ZeroedType
<1>2. push \in [pc : {"idle", "advance", "mark", "copy"}, todo : SUBSET Words]
  BY DEF PushIdle
<1>3. pop.pc # "copy" /\ pop \in [pc : {"idle", "loaded", "copy"}, at : 0 .. MaxTicks + 1,
                                  todo : SUBSET Words, entry : [Words -> -1 .. MaxTicks]]
  BY PopIdleType
<1>4. writePos \in 0 .. MaxTicks /\ readPos \in 0 .. MaxTicks + 1
  OBVIOUS
<1>5. overflow \in BOOLEAN
  OBVIOUS
<1>6. restarts \in 0 .. MaxRestarts /\ taken \in 0 .. writePos
  OBVIOUS
<1>7. full \in 0 .. MaxTicks /\ got \in 0 .. taken
  OBVIOUS
<1> HIDE DEF Init
<1>. QED BY <1>1, <1>2, <1>3, <1>4, <1>5, <1>6, <1>7 DEF TypeOK

LEMMA InitInv == Init => IInv
<1>. SUFFICES ASSUME Init PROVE IInv
  OBVIOUS
<1>. USE CapacityAssumption, BoundsAssumption DEF Init, PushIdle, PopIdle, Zeroed
<1>1. TypeOK
  BY InitType
<1>2. PositionInv
  BY DEF PositionInv
<1>3. FreshInv
  BY DEF FreshInv, Indexes
<1>4. CopyInv
  BY DEF CopyInv
<1>5. ExactInv
  BY DEF ExactInv
<1>6. LossInv
  BY DEF TypeOK, PositionInv, LossInv, IsFull
<1>. QED BY <1>1, <1>2, <1>3, <1>4, <1>5, <1>6 DEF IInv

LEMMA PushLoadInv == ASSUME IInv, PushLoad PROVE IInv'
<1>. USE CapacityAssumption, BoundsAssumption DEF IInv, PushLoad, producer, consumer
<1>1. TypeOK'
  BY DEF TypeOK, LossInv
<1>2. PositionInv'
  BY DEF TypeOK, PositionInv
<1>3. FreshInv'
  BY DEF TypeOK, FreshInv
<1>4. CopyInv'
  BY DEF TypeOK, CopyInv
<1>5. ExactInv'
  BY DEF TypeOK, ExactInv, Lossy, IsFull
<1>6. LossInv'
  BY DEF TypeOK, PositionInv, LossInv, IsFull
<1>. QED BY <1>1, <1>2, <1>3, <1>4, <1>5, <1>6 DEF IInv

LEMMA PushAdvanceInv == ASSUME IInv, PushAdvance PROVE IInv'
<1>. USE CapacityAssumption, BoundsAssumption DEF IInv, PushAdvance, producer, consumer
<1>1. TypeOK'
  BY DEF TypeOK, PositionInv
<1>2. PositionInv'
  BY DEF TypeOK, PositionInv
<1>3. FreshInv'
  BY DEF TypeOK, FreshInv
<1>4. CopyInv'
  BY DEF TypeOK, CopyInv
<1>5. ExactInv'
  BY DEF TypeOK, ExactInv, LossInv, Lossy
<1>6. LossInv'
  BY DEF TypeOK, PositionInv, LossInv, IsFull
<1>. QED BY <1>1, <1>2, <1>3, <1>4, <1>5, <1>6 DEF IInv

LEMMA PushMarkInv == ASSUME IInv, PushMark PROVE IInv'
<1>. USE CapacityAssumption, BoundsAssumption DEF IInv, PushMark, producer, consumer
<1>1. TypeOK'
  BY DEF TypeOK
<1>2. PositionInv'
  BY DEF TypeOK, PositionInv
<1>3. FreshInv'
  BY DEF TypeOK, FreshInv
<1>4. CopyInv'
  BY DEF TypeOK, CopyInv
<1>5. ExactInv'
  BY DEF TypeOK, ExactInv, LossInv, Lossy
<1>6. LossInv'
  BY DEF TypeOK, PositionInv, LossInv, IsFull
<1>. QED BY <1>1, <1>2, <1>3, <1>4, <1>5, <1>6 DEF IInv

LEMMA PushWordInv == ASSUME IInv, NEW x \in Words, PushWord(x) PROVE IInv'
<1>. USE CapacityAssumption, BoundsAssumption DEF IInv, PushWord, producer, consumer
<1>1. writePos \in Nat /\ writePos \in 0 .. MaxTicks /\ Slot(writePos) \in Indexes
  BY SlotInRange DEF TypeOK
<1>2. TypeOK'
  BY <1>1 DEF TypeOK
<1>3. PositionInv'
  BY DEF TypeOK, PositionInv
<1>4. \A i \in Indexes, w \in Words :
        slots'[i][w] = IF i = Slot(writePos) /\ w = x THEN writePos ELSE slots[i][w]
  BY <1>1 DEF TypeOK
<1>5. FreshInv'
  <2>1. \A n \in 0 .. MaxTicks, w \in Words : n < writePos => n <= slots'[Slot(n)][w]
    BY <1>1, <1>4, SlotInRange DEF TypeOK, FreshInv
  <2>2. \A i \in Indexes, w \in Words :
          slots'[i][w] <= writePos /\ (slots'[i][w] # -1 => Slot(slots'[i][w]) = i)
    BY <1>1, <1>4 DEF FreshInv, TypeOK
  <2>. QED BY <2>1, <2>2 DEF FreshInv
<1>6. CopyInv'
  BY <1>1, <1>4 DEF TypeOK, CopyInv
<1>7. ExactInv'
  <2>. SUFFICES ASSUME ~Lossy' PROVE ExactInv'
    BY DEF ExactInv
  <2>1. ~Lossy
    BY DEF Lossy, TypeOK
  <2>2. \A n \in 0 .. MaxTicks : readPos <= n /\ n < writePos => Slot(n) # Slot(writePos)
    BY <1>1, <2>1, SlotsApart DEF ExactInv, TypeOK
  <2>3. \A n \in 0 .. MaxTicks, w \in Words :
          readPos <= n /\ n < writePos => slots'[Slot(n)][w] = n
    BY <1>4, <2>1, <2>2, SlotInRange DEF ExactInv, TypeOK
  <2>. QED BY <2>1, <2>3 DEF ExactInv, TypeOK
<1>8. LossInv'
  BY DEF TypeOK, LossInv
<1>. QED BY <1>2, <1>3, <1>5, <1>6, <1>7, <1>8 DEF IInv

LEMMA PushStoreInv == ASSUME IInv, PushStore PROVE IInv'
<1>. USE CapacityAssumption, BoundsAssumption DEF IInv, PushStore, producer, consumer, PushIdle
<1>1. TypeOK'
  BY DEF TypeOK, PositionInv
<1>2. PositionInv'
  BY DEF TypeOK, PositionInv
<1>3. \A w \in Words : slots[Slot(writePos)][w] = writePos
  BY DEF CopyInv, TypeOK
<1>4. FreshInv'
  <2>1. ASSUME NEW n \in 0 .. MaxTicks, NEW w \in Words, n < writePos'
        PROVE  n <= slots'[Slot(n)][w]
    <3>1. CASE n = writePos
      BY <1>3, <3>1
    <3>2. CASE n < writePos
      BY <3>2 DEF FreshInv
    <3>. QED BY <2>1, <3>1, <3>2 DEF TypeOK
  <2>2. \A i \in Indexes, w \in Words :
          slots'[i][w] <= writePos' /\ (slots'[i][w] # -1 => Slot(slots'[i][w]) = i)
    BY DEF FreshInv, TypeOK
  <2>3. pop.pc = "copy" =>
         \A w \in Words \ pop.todo : /\ pop.at <= pop.entry[w]
                                     /\ pop.entry[w] <= writePos'
                                     /\ Slot(pop.entry[w]) = Slot(pop.at)
    BY DEF FreshInv, TypeOK
  <2>. QED BY <2>1, <2>2, <2>3 DEF FreshInv
<1>5. CopyInv'
  BY DEF TypeOK, CopyInv
<1>6. ExactInv'
  <2>. SUFFICES ASSUME ~Lossy' PROVE ExactInv'
    BY DEF ExactInv
  <2>1. ~Lossy
    BY DEF Lossy, TypeOK
  <2>2. ASSUME NEW n \in 0 .. MaxTicks, NEW w \in Words, readPos <= n, n < writePos'
        PROVE  slots'[Slot(n)][w] = n
    <3>1. CASE n = writePos
      BY <1>3, <3>1
    <3>2. CASE n < writePos
      BY <2>1, <2>2, <3>2 DEF ExactInv
    <3>. QED BY <2>2, <3>1, <3>2 DEF TypeOK
  <2>. QED BY <2>1, <2>2 DEF ExactInv, TypeOK
<1>7. LossInv'
  BY DEF TypeOK, LossInv
<1>. QED BY <1>1, <1>2, <1>4, <1>5, <1>6, <1>7 DEF IInv

LEMMA PopLoadReadInv == ASSUME IInv, PopLoadRead PROVE IInv'
<1>. USE CapacityAssumption, BoundsAssumption DEF IInv, PopLoadRead, producer, consumer
<1>1. TypeOK'
  BY DEF TypeOK
<1>2. PositionInv'
  BY DEF TypeOK, PositionInv
<1>3. FreshInv'
  BY DEF TypeOK, FreshInv
<1>4. CopyInv'
  BY DEF TypeOK, CopyInv
<1>5. ExactInv'
  BY DEF TypeOK, ExactInv, Lossy
<1>6. LossInv'
  BY DEF TypeOK, PositionInv, LossInv, IsFull
<1>. QED BY <1>1, <1>2, <1>3, <1>4, <1>5, <1>6 DEF IInv

LEMMA PopLoadWriteInv == ASSUME IInv, PopLoadWrite PROVE IInv'
<1>. USE CapacityAssumption, BoundsAssumption DEF IInv, PopLoadWrite, producer, consumer
<1>1. CASE IsEmpty(pop.at)
  <2>1. pop' = PopIdle
    BY <1>1
  <2>2. TypeOK'
    BY <2>1, PopIdleType DEF TypeOK
  <2>3. PositionInv'
    BY <2>1 DEF TypeOK, PositionInv, PopIdle
  <2>4. FreshInv'
    BY <2>1 DEF TypeOK, FreshInv, PopIdle
  <2>5. CopyInv'
    BY DEF TypeOK, CopyInv
  <2>6. ExactInv'
    BY <2>1 DEF TypeOK, ExactInv, Lossy, PopIdle
  <2>7. LossInv'
    BY DEF TypeOK, LossInv
  <2>. QED BY <2>2, <2>3, <2>4, <2>5, <2>6, <2>7 DEF IInv
<1>2. CASE ~IsEmpty(pop.at)
  <2>1. pop' = [pop EXCEPT !.pc = "copy", !.todo = Words] /\ pop.at < writePos
    BY <1>2 DEF IsEmpty, TypeOK
  <2>2. TypeOK'
    BY <2>1 DEF TypeOK
  <2>3. PositionInv'
    BY <2>1 DEF TypeOK, PositionInv
  <2>4. FreshInv'
    BY <2>1 DEF TypeOK, FreshInv
  <2>5. CopyInv'
    BY DEF TypeOK, CopyInv
  <2>6. ExactInv'
    BY <2>1 DEF TypeOK, ExactInv, Lossy
  <2>7. LossInv'
    BY DEF TypeOK, LossInv
  <2>. QED BY <2>2, <2>3, <2>4, <2>5, <2>6, <2>7 DEF IInv
<1>. QED BY <1>1, <1>2

LEMMA PopWordInv == ASSUME IInv, NEW x \in Words, PopWord(x) PROVE IInv'
<1>. USE CapacityAssumption, BoundsAssumption DEF IInv, PopWord, producer, consumer
<1>1. /\ pop.at \in Nat /\ pop.at \in 0 .. MaxTicks /\ pop.at < writePos
      /\ Slot(pop.at) \in Indexes
  BY SlotInRange DEF TypeOK
<1> DEFINE word == slots[Slot(pop.at)][x]
<1>2. /\ word \in -1 .. MaxTicks
      /\ pop.at <= word /\ word <= writePos /\ Slot(word) = Slot(pop.at)
  BY <1>1 DEF TypeOK, FreshInv
<1>3. /\ pop'.pc = "copy" /\ pop'.at = pop.at /\ pop'.todo = pop.todo \ {x}
      /\ pop'.entry = [pop.entry EXCEPT ![x] = word]
      /\ pop' \in [pc : {"idle", "loaded", "copy"}, at : 0 .. MaxTicks + 1,
                   todo : SUBSET Words, entry : [Words -> -1 .. MaxTicks]]
  BY <1>2 DEF TypeOK
<1>4. \A w \in Words : pop'.entry[w] = IF w = x THEN word ELSE pop.entry[w]
  BY <1>3 DEF TypeOK
<1>5. ~Lossy => word = pop.at
  BY <1>1 DEF ExactInv, TypeOK
<1> HIDE DEF word
<1>6. TypeOK'
  BY <1>1, <1>3 DEF TypeOK
<1>7. PositionInv'
  BY <1>3 DEF TypeOK, PositionInv
<1>8. FreshInv'
  BY <1>2, <1>3, <1>4 DEF TypeOK, FreshInv
<1>9. CopyInv'
  BY DEF TypeOK, CopyInv
<1>10. ExactInv'
  BY <1>3, <1>4, <1>5 DEF TypeOK, ExactInv, Lossy
<1>11. LossInv'
  BY DEF TypeOK, LossInv
<1>. QED BY <1>6, <1>7, <1>8, <1>9, <1>10, <1>11 DEF IInv

LEMMA PopStoreInv == ASSUME IInv, PopStore PROVE IInv'
<1>. USE CapacityAssumption, BoundsAssumption DEF IInv, PopStore, producer, consumer, PopIdle
<1>1. TypeOK'
  BY ZeroedType DEF TypeOK, PositionInv
<1>2. PositionInv'
  BY DEF TypeOK, PositionInv
<1>3. FreshInv'
  BY DEF TypeOK, FreshInv
<1>4. CopyInv'
  BY DEF TypeOK, CopyInv
<1>5. ExactInv'
  BY DEF TypeOK, ExactInv, Lossy
<1>6. LossInv'
  BY DEF TypeOK, PositionInv, LossInv, IsFull
<1>. QED BY <1>1, <1>2, <1>3, <1>4, <1>5, <1>6 DEF IInv

LEMMA RestartInv == ASSUME IInv, Restart PROVE IInv'
<1>. USE CapacityAssumption, BoundsAssumption DEF IInv, Restart, producer, consumer, PopIdle
<1>1. TypeOK'
  BY ZeroedType DEF TypeOK
<1>2. PositionInv'
  BY DEF TypeOK, PositionInv
<1>3. FreshInv'
  BY DEF TypeOK, FreshInv
<1>4. CopyInv'
  BY DEF TypeOK, CopyInv
<1>5. ExactInv'
  BY DEF TypeOK, ExactInv, Lossy
<1>6. LossInv'
  BY DEF TypeOK, PositionInv, LossInv, IsFull
<1>. QED BY <1>1, <1>2, <1>3, <1>4, <1>5, <1>6 DEF IInv

LEMMA StutterInv == ASSUME IInv, UNCHANGED vars PROVE IInv'
BY DEF IInv, TypeOK, PositionInv, LossInv, FreshInv, CopyInv, ExactInv, Lossy, vars

LEMMA NextInv == ASSUME IInv, [Next]_vars PROVE IInv'
<1>1. CASE PushLoad
  BY <1>1, PushLoadInv
<1>2. CASE PushAdvance
  BY <1>2, PushAdvanceInv
<1>3. CASE PushMark
  BY <1>3, PushMarkInv
<1>4. CASE \E w \in Words : PushWord(w)
  BY <1>4, PushWordInv
<1>5. CASE PushStore
  BY <1>5, PushStoreInv
<1>6. CASE PopLoadRead
  BY <1>6, PopLoadReadInv
<1>7. CASE PopLoadWrite
  BY <1>7, PopLoadWriteInv
<1>8. CASE \E w \in Words : PopWord(w)
  BY <1>8, PopWordInv
<1>9. CASE PopStore
  BY <1>9, PopStoreInv
<1>10. CASE Restart
  BY <1>10, RestartInv
<1>11. CASE UNCHANGED vars
  BY <1>11, StutterInv
<1>. QED
  BY <1>1, <1>2, <1>3, <1>4, <1>5, <1>6, <1>7, <1>8, <1>9, <1>10, <1>11 DEF Next, Push, TryPop
-----------------------------------------------------------------------------
(* The theorems.                                                           *)

\* Both processes keep to the types and to the positions inside the buffer,
\* with any capacity, number of words and number of ticks: push and try_pop.
THEOREM TypeCorrect == Spec => []TypeOK
<1>1. IInv => TypeOK
  BY DEF IInv
<1>. QED BY <1>1, InitInv, NextInv, PTL DEF Spec

\* Between two pushes fill_level does not wrap below zero.
THEOREM BetweenPushesAlways == Spec => []BetweenPushes
<1>1. IInv => BetweenPushes
  BY DEF IInv, PositionInv, LossInv, TypeOK, BetweenPushes
<1>. QED BY <1>1, InitInv, NextInv, PTL DEF Spec

LEMMA InitPromise == Init => Feed!Init
BY DEF Init, Feed!Init, Lossy, PushIdle, Zeroed

LEMMA StepPromise == ASSUME IInv, [Next]_vars PROVE [Feed!Next]_(Feed!vars)
<1>. USE CapacityAssumption, BoundsAssumption DEF IInv, producer, consumer, Feed!vars
<1>1. CASE PushLoad
  <2>1. CASE IsFull
    BY <1>1, <2>1 DEF PushLoad, IsFull, Lossy, Feed!Next, Feed!Lose, TypeOK, PositionInv
  <2>2. CASE ~IsFull
    BY <1>1, <2>2 DEF PushLoad, Lossy, TypeOK
  <2>. QED BY <2>1, <2>2
<1>2. CASE PushAdvance
  BY <1>2 DEF PushAdvance, Lossy, TypeOK
<1>3. CASE PushMark
  BY <1>3 DEF PushMark, Lossy, TypeOK
<1>4. CASE \E w \in Words : PushWord(w)
  BY <1>4 DEF PushWord, Lossy, TypeOK
<1>5. CASE PushStore
  <2>1. Feed!Send
    BY <1>5 DEF PushStore, PushIdle, Lossy, TypeOK, Feed!Send
  <2>. QED BY <2>1 DEF Feed!Next
<1>6. CASE PopLoadRead
  BY <1>6 DEF PopLoadRead, Lossy
<1>7. CASE PopLoadWrite
  BY <1>7 DEF PopLoadWrite, Lossy
<1>8. CASE \E w \in Words : PopWord(w)
  BY <1>8 DEF PopWord, Lossy
<1>9. CASE PopStore
  <2>1. pop.at \in taken .. writePos /\ pop.at < writePos /\ (~Lossy => pop.at = taken)
    BY <1>9 DEF PopStore, TypeOK, PositionInv, ExactInv
  <2>2. item' \in [Words -> IF Lossy THEN Feed!SameSlot(pop.at) ELSE {pop.at}]
    <3>1. item' = pop.entry /\ pop.entry \in [Words -> -1 .. MaxTicks] /\ pop.todo = {}
      BY <1>9 DEF PopStore, TypeOK
    <3>2. CASE Lossy
      BY <1>9, <3>1, <3>2 DEF PopStore, FreshInv, TypeOK, Feed!SameSlot, Slot
    <3>3. CASE ~Lossy
      BY <1>9, <3>1, <3>3 DEF PopStore, ExactInv, TypeOK
    <3>. QED BY <3>2, <3>3
  <2>3. taken' - got' = (taken - got) + (pop.at - taken)
    BY <1>9 DEF PopStore, TypeOK
  <2>4. taken' - got' <= full
    BY <1>9 DEF PopStore, TypeOK, PositionInv, LossInv
  <2>5. Feed!Receive(pop.at)
    BY <1>9, <2>1, <2>2, <2>3, <2>4 DEF PopStore, Feed!Receive, Lossy, TypeOK
  <2>. QED BY <2>1, <2>5 DEF Feed!Next
<1>10. CASE Restart
  BY <1>10 DEF Restart, Lossy
<1>11. CASE UNCHANGED vars
  BY <1>11 DEF vars, Lossy
<1>. QED
  BY <1>1, <1>2, <1>3, <1>4, <1>5, <1>6, <1>7, <1>8, <1>9, <1>10, <1>11 DEF Next, Push, TryPop

\* The ring buffer implements TickFeed: until it is full for the first time
\* every tick is returned by try_pop once, whole and in order; afterwards
\* positions only grow and nothing is older than its position.
THEOREM KeepsPromiseAlways == Spec => KeepsPromise
<1>1. IInv /\ [Next]_vars => [Feed!Next]_(Feed!vars)
  BY StepPromise
<1>. QED BY <1>1, InitInv, NextInv, InitPromise, PTL DEF Spec, KeepsPromise, Feed!Spec
=============================================================================
