---------------------------- MODULE ServiceRegistry ----------------------------
(***************************************************************************)
(* The service registry of data-manager (transport/ipc/registry.rs) as the *)
(* processes of data-manager use it (cli/serve.rs): a shared memory        *)
(* segment with a spin lock, a counter and a slot per instance, which the  *)
(* clients read without the lock to learn whose channel has a symbol.      *)
(*                                                                         *)
(* A process starts, creates the channels of its symbols, opens or creates *)
(* the registry, registers, heartbeats, and deregisters when it is shut    *)
(* down; it may die at any moment.  Two processes may have the same        *)
(* instance id (--instance-id): a restarted one and its predecessor.  A    *)
(* process creates the registry, and a channel, at most once, so a segment *)
(* is known by its creator; a name refers to one of them.                  *)
(***************************************************************************)
EXTENDS Naturals, FiniteSets

CONSTANTS
  Procs, Instances, Symbols,
  MaxSlots,       \* MAX_REGISTRY_ENTRIES
  CountSize,      \* active_count is kept modulo this (AtomicU32)
  InstanceIds,    \* process -> the instance ids it may be started with
  Subscribed,     \* process -> the symbols its provider delivers
  Static,         \* process -> those it publishes from the start
  Overlap,        \* bound: process -> those that may be running as it starts
  None

Slots == 1 .. MaxSlots
Entry == [inst : Instances \cup {None}, status : {"Inactive", "Active"},
          symbols : SUBSET Symbols, healthy : BOOLEAN]
EmptyEntry == [inst |-> None, status |-> "Inactive", symbols |-> {},
               healthy |-> FALSE]

ASSUME RegistryAssumption ==
  /\ MaxSlots \in Nat /\ Overlap \in [Procs -> SUBSET Procs]
  /\ IsFiniteSet(Procs) /\ CountSize \in Nat /\ Cardinality(Procs) < CountSize
  /\ InstanceIds \in [Procs -> SUBSET Instances]
  /\ Subscribed \in [Procs -> SUBSET Symbols]
  /\ Static \in [Procs -> SUBSET Symbols]
  /\ None \notin Procs \cup Instances

VARIABLES
  pc,        \* where each process is
  id,        \* process -> the instance id it was started with, or None
  name,      \* the segment the registry's name refers to, or None
  valid,     \* the segments whose header has the magic number
  lock,      \* segment -> write_lock: the process that holds it, or None
  count,     \* segment -> active_count
  entries,   \* segment -> its slots (healthy: heartbeat not too old)
  reg,       \* process -> the segment it has opened, or None
  found,     \* process -> the slot it is about to write
  slot,      \* process -> its slot while it is registered, or 0
  chan,      \* instance -> symbol -> the channel its name refers to, or None
  ipc,       \* process -> ipc_symbols, the symbols it publishes
  listed,    \* process -> the symbols of the entry it registers
  raced,     \* history: segments unlinked by another creation or an exit
  hasty,     \* history: segments opened before their creation was complete
  twins      \* history: two processes of one instance ran at the same time

memory == <<name, valid, lock, count, entries>>
channels == <<chan, ipc>>
own == <<id, listed>>
history == <<raced, hasty, twins>>
rvars == <<pc, memory, reg, found, slot, channels, own, history>>

Alive(p) == pc[p] \notin {"off", "gone", "dead"}
Goto(p, to) == pc' = [pc EXCEPT ![p] = to]

-----------------------------------------------------------------------------
(* Channels.  A new channel takes the name from an old one, whose readers  *)
(* and writer keep it.                                                     *)

\* Mutant of Publish: an existing channel is kept.
PublishIfNone(p, i, S) ==
  chan' = [chan EXCEPT ![i] =
             [x \in Symbols |-> IF x \in S /\ @[x] = None THEN p ELSE @[x]]]

\* ensure_channel for the symbols S of instance i.
Publish(p, i, S) ==
  chan' = [chan EXCEPT ![i] = [x \in Symbols |-> IF x \in S THEN p ELSE @[x]]]

Start(p) ==
  /\ pc[p] = "off" /\ Goto(p, "open")
  /\ \A q \in Procs : Alive(q) => q \in Overlap[p]
  /\ \E i \in InstanceIds[p] :
       /\ id' = [id EXCEPT ![p] = i]
       /\ Publish(p, i, Static[p])
       /\ twins' = (twins \/ \E q \in Procs : Alive(q) /\ id[q] = i)
  /\ ipc' = [ipc EXCEPT ![p] = Static[p]]
  /\ UNCHANGED <<memory, reg, found, slot, listed, raced, hasty>>

\* handle_subscribe: a client asks for a symbol without a channel, and creating
\* one succeeds. Clients ask for the exchange of the instance, so that the symbol
\* alone names its channel.
Subscribe(p, x) ==
  /\ Alive(p) /\ x \in Subscribed[p] \ ipc[p]
  /\ Publish(p, id[p], {x})
  /\ ipc' = [ipc EXCEPT ![p] = @ \cup {x}]
  /\ UNCHANGED <<pc, memory, reg, found, slot, own, history>>

-----------------------------------------------------------------------------
(* Opening (Registry::open_or_create).  The entry is made up once the      *)
(* registry is open.                                                       *)

HasRegistry(p) ==
  /\ Goto(p, "lock")
  /\ listed' = [listed EXCEPT ![p] = ipc[p]]

UseNamed(p) ==
  /\ name # None /\ name \in valid
  /\ reg' = [reg EXCEPT ![p] = name]
  /\ hasty' = IF pc[name] \in {"reset", "empty"} THEN hasty \cup {name}
              ELSE hasty
  /\ HasRegistry(p)

NoneToUse == ~(name # None /\ name \in valid)

Open(p) ==
  /\ pc[p] = "open"
  /\ \/ UseNamed(p)
     \/ NoneToUse /\ Goto(p, "unlink") /\ UNCHANGED <<reg, listed, hasty>>
  /\ UNCHANGED <<memory, found, slot, channels, id, raced, twins>>

\* create, which begins by removing whatever has the name.
Unlink(p) ==
  /\ pc[p] = "unlink" /\ Goto(p, "create")
  /\ name' = None
  /\ raced' = IF name = None THEN raced ELSE raced \cup {name}
  /\ UNCHANGED <<valid, lock, count, entries, reg, found, slot, channels, own,
                 hasty, twins>>

\* Mutant of Create: it does not fail when the name is taken.
CreateAnyway(p) ==
  /\ pc[p] = "create" /\ name' = p /\ Goto(p, "magic")
  /\ reg' = [reg EXCEPT ![p] = p]
  /\ UNCHANGED <<valid, lock, count, entries, found, slot, channels, own,
                 history>>

Create(p) ==
  /\ pc[p] = "create"
  /\ \/ name = None /\ name' = p /\ Goto(p, "magic")
        /\ reg' = [reg EXCEPT ![p] = p]
     \/ name # None /\ Goto(p, "reopen") /\ UNCHANGED <<name, reg>>
  /\ UNCHANGED <<valid, lock, count, entries, found, slot, channels, own,
                 history>>

\* The header's magic number and version, written one after the other, make the
\* segment valid; the counter and the lock are reset, and the entries emptied,
\* after that.
InitMagic(p) ==
  /\ pc[p] = "magic" /\ Goto(p, "reset")
  /\ valid' = valid \cup {p}
  /\ UNCHANGED <<name, lock, count, entries, reg, found, slot, channels, own,
                 history>>

InitLock(p) ==
  /\ pc[p] = "reset" /\ Goto(p, "empty")
  /\ lock' = [lock EXCEPT ![p] = None] /\ count' = [count EXCEPT ![p] = 0]
  /\ UNCHANGED <<name, valid, entries, reg, found, slot, channels, own,
                 history>>

InitEntries(p) ==
  /\ pc[p] = "empty" /\ HasRegistry(p)
  /\ entries' = [entries EXCEPT ![p] = [s \in Slots |-> EmptyEntry]]
  /\ UNCHANGED <<name, valid, lock, count, reg, found, slot, channels, id,
                 history>>

\* The creation has failed: another process was faster. Without a registry
\* the process goes on unregistered.
Reopen(p) ==
  /\ pc[p] = "reopen"
  /\ \/ UseNamed(p)
     \/ NoneToUse /\ Goto(p, "alone") /\ UNCHANGED <<reg, listed, hasty>>
  /\ UNCHANGED <<memory, found, slot, channels, id, raced, twins>>

-----------------------------------------------------------------------------
(* Registering, heartbeats, deregistering.  scan, store and clear are the  *)
(* sections under the lock.                                                *)

\* Mutant of Free: the lock is not waited for.
FreeOrNot(r) == r \in Procs

Free(r) == lock[r] = None

Lock(p) ==
  /\ \/ pc[p] = "lock" /\ Goto(p, "scan")
     \/ pc[p] = "relock" /\ Goto(p, "clear")
  /\ Free(reg[p]) /\ lock' = [lock EXCEPT ![reg[p]] = p]
  /\ UNCHANGED <<name, valid, count, entries, reg, found, slot, channels, own,
                 history>>

Unlock(p) == lock' = [lock EXCEPT ![reg[p]] = None]

Book(p) == entries[reg[p]]
OwnSlots(p) == {s \in Slots : Book(p)[s].inst = id[p]}
FreeSlots(p) == {s \in Slots : Book(p)[s].status # "Active"}
First(S, s) == s \in S /\ \A t \in S : s <= t

\* Mutant of SlotFor: the first free slot, whatever instance has it.
FirstFree(p, s) == First(FreeSlots(p), s)

\* The slot that has the instance already, or else the first one not active.
\* (An entry keeps 31 bytes of an instance's id: Instances differ in these.)
SlotFor(p, s) ==
  \/ First(OwnSlots(p), s)
  \/ OwnSlots(p) = {} /\ First(FreeSlots(p), s)

FindSlot(p) ==
  /\ pc[p] = "scan" /\ Goto(p, "store")
  /\ \E s \in Slots : SlotFor(p, s) /\ found' = [found EXCEPT ![p] = s]
  /\ UNCHANGED <<memory, reg, slot, channels, own, history>>

\* Mutant of RegistryFull: the error path keeps the lock.
FullKeepsLock(p) ==
  /\ pc[p] = "scan" /\ Goto(p, "alone")
  /\ OwnSlots(p) = {} /\ FreeSlots(p) = {}
  /\ UNCHANGED <<memory, reg, found, slot, channels, own, history>>

\* BufferFull: the process goes on unregistered.
RegistryFull(p) ==
  /\ pc[p] = "scan" /\ Goto(p, "alone")
  /\ OwnSlots(p) = {} /\ FreeSlots(p) = {}
  /\ Unlock(p)
  /\ UNCHANGED <<name, valid, count, entries, reg, found, slot, channels, own,
                 history>>

NewEntry(p) == [inst |-> id[p], status |-> "Active", symbols |-> listed[p],
                healthy |-> TRUE]

\* Mutant of Increment: the counter is not touched.
NoCount(r) == r \in Procs /\ UNCHANGED count

Increment(r) ==
  count' = [count EXCEPT ![r] = IF @ = CountSize - 1 THEN 0 ELSE @ + 1]

\* Mutant of Decrement: below zero.
DecrementFurther(r) == count' = [count EXCEPT ![r] = @ - 1]

Decrement(r) ==
  count' = [count EXCEPT ![r] = IF @ = 0 THEN CountSize - 1 ELSE @ - 1]

WriteEntry(p) ==
  /\ pc[p] = "store" /\ Goto(p, "live")
  /\ entries' = [entries EXCEPT ![reg[p]][found[p]] = NewEntry(p)]
  /\ slot' = [slot EXCEPT ![p] = found[p]]
  /\ Increment(reg[p]) /\ Unlock(p)
  /\ UNCHANGED <<name, valid, reg, found, channels, own, history>>

Heartbeat(p) ==
  /\ pc[p] = "live"
  /\ entries' = [entries EXCEPT ![reg[p]][slot[p]].healthy = TRUE]
  /\ UNCHANGED <<pc, name, valid, lock, count, reg, found, slot, channels, own,
                 history>>

\* STALE_THRESHOLD passes, six heartbeats: a process that lives sends one.
Stale(r, s) ==
  /\ r \in valid /\ entries[r][s].healthy
  /\ \A p \in Procs : pc[p] = "live" => ~(reg[p] = r /\ slot[p] = s)
  /\ entries' = [entries EXCEPT ![r][s].healthy = FALSE]
  /\ UNCHANGED <<pc, name, valid, lock, count, reg, found, slot, channels, own,
                 history>>

Shutdown(p) ==
  /\ \/ pc[p] = "live" /\ Goto(p, "relock")
     \/ pc[p] = "alone" /\ Goto(p, "leave")
  /\ UNCHANGED <<memory, reg, found, slot, channels, own, history>>

\* Whose entry is in the slot is not looked at.
Deregister(p) ==
  /\ pc[p] = "clear" /\ Goto(p, "leave")
  /\ entries' = [entries EXCEPT ![reg[p]][slot[p]].status = "Inactive"]
  /\ Decrement(reg[p]) /\ Unlock(p)
  /\ slot' = [slot EXCEPT ![p] = 0]
  /\ UNCHANGED <<name, valid, reg, found, channels, own, history>>

\* A process gives up the segments it created. Those persist, say the drops of
\* Registry and SharedMemoryChannel; whether the shared memory library removes
\* their names is left open.
Leave(p) ==
  /\ pc[p] = "leave" /\ Goto(p, "gone")
  /\ \/ UNCHANGED <<name, raced, chan>>
     \/ /\ IF reg[p] = p /\ name # None
           THEN name' = None /\ raced' = raced \cup {name}
           ELSE UNCHANGED <<name, raced>>
        /\ chan' = [chan EXCEPT ![id[p]] =
                      [x \in Symbols |-> IF x \in ipc[p] THEN None ELSE @[x]]]
  /\ UNCHANGED <<valid, lock, count, entries, reg, found, slot, ipc, own,
                 hasty, twins>>

\* What the process kept in its own memory is gone.
Crash(p) ==
  /\ Alive(p) /\ Goto(p, "dead")
  /\ found' = [found EXCEPT ![p] = 0]
  /\ ipc' = [ipc EXCEPT ![p] = {}] /\ listed' = [listed EXCEPT ![p] = {}]
  /\ UNCHANGED <<memory, reg, slot, chan, id, history>>

-----------------------------------------------------------------------------
Init ==
  /\ pc = [p \in Procs |-> "off"] /\ id = [p \in Procs |-> None]
  /\ name = None /\ valid = {}
  /\ lock = [p \in Procs |-> None] /\ count = [p \in Procs |-> 0]
  /\ entries = [p \in Procs |-> [s \in Slots |-> EmptyEntry]]
  /\ reg = [p \in Procs |-> None]
  /\ found = [p \in Procs |-> 0] /\ slot = [p \in Procs |-> 0]
  /\ chan = [i \in Instances |-> [x \in Symbols |-> None]]
  /\ ipc = [p \in Procs |-> {}] /\ listed = [p \in Procs |-> {}]
  /\ raced = {} /\ hasty = {} /\ twins = FALSE

Step(p) ==
  \/ Open(p) \/ Unlink(p) \/ Create(p) \/ Reopen(p)
  \/ InitMagic(p) \/ InitLock(p) \/ InitEntries(p)
  \/ Lock(p) \/ FindSlot(p) \/ RegistryFull(p) \/ WriteEntry(p)
  \/ Deregister(p) \/ Leave(p)

Next ==
  \/ \E p \in Procs : \/ Start(p) \/ Step(p) \/ Heartbeat(p) \/ Shutdown(p)
                      \/ Crash(p) \/ \E x \in Symbols : Subscribe(p, x)
  \/ \E r \in Procs, s \in Slots : Stale(r, s)

Spec == Init /\ [][Next]_rvars
FairSpec == Spec /\ \A p \in Procs : WF_rvars(Step(p))

-----------------------------------------------------------------------------
(* Properties.                                                             *)

Labels == {"off", "open", "unlink", "create", "magic", "reset", "empty",
           "reopen", "lock", "scan", "store", "live", "alone", "relock",
           "clear", "leave", "gone", "dead"}

\* Every variable has its type.
RegistryTypeOK ==
  /\ pc \in [Procs -> Labels] /\ id \in [Procs -> Instances \cup {None}]
  /\ name \in Procs \cup {None}
  /\ valid \subseteq Procs /\ lock \in [Procs -> Procs \cup {None}]
  /\ count \in [Procs -> 0 .. CountSize - 1]
  /\ entries \in [Procs -> [Slots -> Entry]]
  /\ reg \in [Procs -> Procs \cup {None}]
  /\ found \in [Procs -> Slots \cup {0}] /\ slot \in [Procs -> Slots \cup {0}]
  /\ chan \in [Instances -> [Symbols -> Procs \cup {None}]]
  /\ ipc \in [Procs -> SUBSET Symbols] /\ listed \in [Procs -> SUBSET Symbols]
  /\ raced \subseteq Procs /\ hasty \subseteq Procs /\ twins \in BOOLEAN

\* The registry that was complete before anyone opened it keeps the following
\* two promises. (create makes the segment valid before it has reset the lock
\* and the entries: an opener in between may lose its lock and its entry.)

\* An instance never has two slots, whichever processes of it came, went or
\* died before.
OneSlotPerInstance ==
  \A r \in Procs \ hasty : \A s, t \in Slots :
    /\ entries[r][s].inst = entries[r][t].inst
    /\ entries[r][s].inst # None
    => s = t

\* Every active entry is counted in active_count, and no process of those that
\* have opened the registry more than once, whichever slots were taken over,
\* overwritten or deregistered twice: the counter never wraps below zero. (It may
\* be more than the "Number of active entries" it is documented to be: an entry
\* that another process of its instance has overwritten counts twice.)
Openers(r) == {p \in Procs : reg[p] = r}
ActiveEntries(r) == {s \in Slots : entries[r][s].status = "Active"}

ActiveEntriesCounted ==
  \A r \in Procs \ hasty :
    /\ Cardinality(ActiveEntries(r)) <= count[r]
    /\ count[r] <= Cardinality(Openers(r))

\* As long as no two processes of one instance ran at the same time, the entry
\* of a live process stays its own, and is healthy: nobody overwrites its slot,
\* marks it inactive or lets it go stale. (When they do, the first of them to
\* leave deregisters the other, a third instance may take the slot, and the
\* second deregisters that one.)
SlotStaysOwn ==
  ~twins =>
    \A p \in Procs :
      pc[p] = "live" /\ reg[p] \notin hasty => Book(p)[slot[p]] = NewEntry(p)

\* And what a client finds there is served: the name it makes of a live
\* process's entry and one of its symbols refers to the channel on which that
\* process publishes the symbol, not to one that an earlier process of the
\* instance left, nor to none.
FoundIsServed ==
  ~twins =>
    \A p \in Procs : \A x \in Symbols :
      pc[p] = "live" /\ reg[p] \notin hasty /\ x \in Book(p)[slot[p]].symbols
      => x \in ipc[p] /\ chan[Book(p)[slot[p]].inst][x] = p

\* A registered process is found under the registry's name, unless another
\* process that found no registry either has replaced the segment, or its
\* creator has left.
FoundByName ==
  \A p \in Procs : pc[p] = "live" => reg[p] = name \/ reg[p] \in raced

\* A process that dies inside a section under the lock blocks the segment for
\* ever; nothing else does: every process that wants the lock of a segment
\* gets on, or dies, or one has died with that lock.
LockIsReleased ==
  \A p \in Procs :
    pc[p] \in {"lock", "relock"} ~>
      \/ pc[p] \notin {"lock", "relock"}
      \/ lock[reg[p]] # None /\ pc[lock[reg[p]]] = "dead"

=============================================================================
