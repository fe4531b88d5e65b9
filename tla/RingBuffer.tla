----------------------------- MODULE RingBuffer -----------------------------
(***************************************************************************)
(* The single-producer single-consumer ring buffer that data-manager (the  *)
(* producer process) and trading-core (the consumer process) share for one *)
(* symbol: data-manager/src/transport/ipc/ring_buffer.rs.                  *)
(*                                                                         *)
(* An action is one access to shared memory: a load or a store of a        *)
(* position, the read-modify-write of an overflow, or one machine word of  *)
(* an entry, since entries are copied without any atomicity and the words  *)
(* in no particular order.  Atomic accesses are sequentially consistent    *)
(* here: every position is written by Release and read by Acquire, and the *)
(* entry is fenced on both sides.  Tick n is the n-th tick pushed, and a   *)
(* word is represented by the number of the tick it belongs to.            *)
(***************************************************************************)
EXTENDS Integers

CONSTANTS
    Capacity,       \* entries in the buffer
    Words,          \* the machine words of an entry (48 bytes in the code)
    MaxTicks,       \* bound: ticks the producer pushes
    MaxRestarts     \* bound: restarts of the consumer process

ASSUME CapacityAssumption == Capacity \in Nat \ {0}
ASSUME BoundsAssumption == MaxTicks \in Nat /\ MaxRestarts \in Nat

VARIABLES
    writePos,       \* header.write_pos
    readPos,        \* header.read_pos
    overflow,       \* header.flags & FLAG_OVERFLOW
    slots,          \* the data area: slots[index][word], -1 when never written
    push,           \* where the producer is in push, and the words left to copy
    pop,            \* where the consumer is in try_pop, its read_pos, and the
                    \* words it has copied
    restarts,       \* restarts of the consumer so far
    taken,          \* one more than the last position the consumer returned
    item,           \* the last entry try_pop returned
    full,           \* history: pushes that found the buffer full
    got             \* history: entries try_pop returned

producer == <<writePos, overflow, slots, push, full>>
consumer == <<pop, restarts, taken, item, got>>
vars == <<writePos, readPos, overflow, slots, push, pop, restarts, taken, item,
          full, got>>

Indexes == 0 .. Capacity - 1
Slot(n) == n % Capacity
Zeroed == [w \in Words |-> -1]

PushIdle == [pc |-> "idle", todo |-> {}]
PopIdle == [pc |-> "idle", at |-> 0, todo |-> {}, entry |-> Zeroed]

Init ==
    /\ writePos = 0
    /\ readPos = 0
    /\ overflow = FALSE
    /\ slots = [i \in Indexes |-> Zeroed]
    /\ push = PushIdle
    /\ pop = PopIdle
    /\ restarts = 0
    /\ taken = 0
    /\ item = Zeroed
    /\ full = 0
    /\ got = 0
-----------------------------------------------------------------------------
(* The producer.                                                           *)

\* Mutant of IsFull: one entry more than there are slots.
FullTooLate == writePos - readPos > Capacity

IsFull == writePos - readPos >= Capacity

\* push loads both positions and decides whether the buffer is full.  Only the
\* producer changes write_pos, so its copy of it needs no variable.
PushLoad ==
    /\ push.pc = "idle"
    /\ writePos < MaxTicks
    /\ push' = [pc |-> IF IsFull THEN "advance" ELSE "copy", todo |-> Words]
    /\ full' = IF IsFull THEN full + 1 ELSE full
    /\ UNCHANGED <<writePos, readPos, overflow, slots, consumer>>

\* header.read_pos.fetch_add(1): wherever read_pos is by now.
PushAdvance ==
    /\ push.pc = "advance"
    /\ readPos' = readPos + 1
    /\ push' = [push EXCEPT !.pc = "mark"]
    /\ UNCHANGED <<writePos, overflow, slots, full, consumer>>

PushMark ==
    /\ push.pc = "mark"
    /\ overflow' = TRUE
    /\ push' = [push EXCEPT !.pc = "copy"]
    /\ UNCHANGED <<writePos, readPos, slots, full, consumer>>

PushWord(w) ==
    /\ push.pc = "copy"
    /\ w \in push.todo
    /\ slots' = [slots EXCEPT ![Slot(writePos)][w] = writePos]
    /\ push' = [push EXCEPT !.todo = @ \ {w}]
    /\ UNCHANGED <<writePos, readPos, overflow, full, consumer>>

PushStore ==
    /\ push.pc = "copy"
    /\ push.todo = {}
    /\ writePos' = writePos + 1
    /\ push' = PushIdle
    /\ UNCHANGED <<readPos, overflow, slots, full, consumer>>

\* One call of RingBufferProducer::push.
Push == PushLoad \/ PushAdvance \/ PushMark \/ (\E w \in Words : PushWord(w)) \/ PushStore
-----------------------------------------------------------------------------
(* The consumer.                                                           *)

PopLoadRead ==
    /\ pop.pc = "idle"
    /\ pop' = [pop EXCEPT !.pc = "loaded", !.at = readPos]
    /\ UNCHANGED <<readPos, producer, restarts, taken, item, got>>

\* Mutants of IsEmpty: off by one, either way.
EmptyTooLate(at) == at > writePos
EmptyTooSoon(at) == at + 1 >= writePos

IsEmpty(at) == at >= writePos

\* try_pop loads write_pos and returns None when the buffer is empty.
PopLoadWrite ==
    /\ pop.pc = "loaded"
    /\ pop' = IF IsEmpty(pop.at) THEN PopIdle ELSE [pop EXCEPT !.pc = "copy", !.todo = Words]
    /\ UNCHANGED <<readPos, producer, restarts, taken, item, got>>

PopWord(w) ==
    /\ pop.pc = "copy"
    /\ w \in pop.todo
    /\ pop' = [pop EXCEPT !.todo = @ \ {w}, !.entry[w] = slots[Slot(pop.at)][w]]
    /\ UNCHANGED <<readPos, producer, restarts, taken, item, got>>

\* A plain store, which forgets what the producer added since PopLoadRead.
PopStore ==
    /\ pop.pc = "copy"
    /\ pop.todo = {}
    /\ readPos' = pop.at + 1
    /\ taken' = pop.at + 1
    /\ item' = pop.entry
    /\ got' = got + 1
    /\ pop' = PopIdle
    /\ UNCHANGED <<producer, restarts>>

\* One call of RingBufferConsumer::try_pop.
TryPop == PopLoadRead \/ PopLoadWrite \/ (\E w \in Words : PopWord(w)) \/ PopStore

\* The consumer process dies inside try_pop, and a new one attaches to the
\* segment: it goes on from the read_pos it finds there.
Restart ==
    /\ pop.pc # "idle"
    /\ restarts < MaxRestarts
    /\ restarts' = restarts + 1
    /\ pop' = PopIdle
    /\ UNCHANGED <<readPos, producer, taken, item, got>>
-----------------------------------------------------------------------------
Next == Push \/ TryPop \/ Restart

Spec == Init /\ [][Next]_vars

\* A push that has begun goes on, and the consumer polls for ever; nothing
\* obliges the producer to push, or the consumer to restart.
FairSpec == Spec /\ WF_vars(push.pc # "idle" /\ Push) /\ WF_vars(TryPop)
-----------------------------------------------------------------------------
(* Properties.                                                             *)

Whole(n) == [w \in Words |-> n]

\* Types.  The consumer never copies, and so never returns, an entry from
\* beyond the last one the producer made visible (try_pop's check).
TypeOK ==
    /\ writePos \in 0 .. MaxTicks
    /\ readPos \in 0 .. MaxTicks + 1
    /\ overflow \in BOOLEAN
    /\ slots \in [Indexes -> [Words -> -1 .. MaxTicks]]
    /\ push \in [pc : {"idle", "advance", "mark", "copy"}, todo : SUBSET Words]
    /\ pop \in [pc : {"idle", "loaded", "copy"}, at : 0 .. MaxTicks + 1,
                todo : SUBSET Words, entry : [Words -> -1 .. MaxTicks]]
    /\ pop.pc = "copy" => pop.at < writePos
    /\ restarts \in 0 .. MaxRestarts
    /\ taken \in 0 .. writePos
    /\ item \in [Words -> -1 .. MaxTicks]
    /\ full \in 0 .. MaxTicks
    /\ got \in 0 .. taken

\* Between two pushes read_pos is never beyond write_pos, although the producer
\* adds to a read_pos that the consumer may have moved since it was loaded:
\* fill_level, a wrapping subtraction, then never reports an empty buffer as
\* one of 2^64 - 1 entries.  The overflow flag tells whether ticks may be lost.
BetweenPushes ==
    push.pc = "idle" => /\ readPos <= writePos
                        /\ overflow <=> full > 0

Feed == INSTANCE TickFeed WITH sent <- writePos, next <- taken, losses <- full,
                               skipped <- taken - got

\* The channel keeps its promise, at every interleaving of the two processes
\* and across restarts of the consumer: whole ticks, in order, exactly once
\* until the buffer is full; after that the position only grows, nothing is
\* older than its position or was never sent, and no more ticks are skipped
\* than pushes found the buffer full, although such a push adds to a read_pos
\* that may by then be at a tick nobody had to give up.
KeepsPromise == Feed!Spec

\* Every tick pushed is received or skipped in the end: no tick is stuck in the
\* buffer behind a position that does not move.
Drained == \A n \in 0 .. MaxTicks - 1 : writePos > n ~> readPos > n

\* The data is copied without atomicity because "SPSC" is taken to guarantee
\* that the producer never writes the entry the consumer reads: what try_pop
\* returns would then be one tick.
WholeTicks == item = Zeroed \/ \E n \in 0 .. MaxTicks : item = Whole(n)
=============================================================================
