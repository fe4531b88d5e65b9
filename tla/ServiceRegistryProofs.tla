------------------------ MODULE ServiceRegistryProofs ------------------------
(***************************************************************************)
(* Proofs about ServiceRegistry, for any number of processes, instances,   *)
(* symbols and slots, and without the bound Overlap standing in the way:   *)
(* it may allow any processes to run at the same time.                     *)
(***************************************************************************)
EXTENDS ServiceRegistry, FiniteSetTheorems, TLAPS

Before == {"off", "open", "unlink", "create", "reopen"}
Making == {"magic", "reset", "empty"}
Holding == {"scan", "store", "clear"}
Enrolled == {"live", "relock", "clear"}

(***************************************************************************)
(* The inductive invariant.  Where a process is says what it has opened,   *)
(* found and registered; names and segments fit together.                  *)
(***************************************************************************)
PlacesOK ==
  \A p \in Procs :
    /\ pc[p] \in Before => reg[p] = None
    /\ pc[p] \in Making => reg[p] = p
    /\ pc[p] \in {"lock", "live", "relock"} \cup Holding => reg[p] \in Procs
    /\ pc[p] = "store" => found[p] \in Slots
    /\ pc[p] \in Enrolled => slot[p] \in Slots
    /\ slot[p] # 0 => reg[p] \in Procs /\ pc[p] \in Enrolled \cup {"dead"}
    /\ pc[p] # "off" => id[p] \in Instances

NamesOK ==
  /\ name # None => reg[name] = name /\ pc[name] \notin Before
  /\ \A r \in valid : reg[r] = r /\ pc[r] \notin Before \cup {"magic"}
  /\ \A p \in Procs :
       reg[p] # None =>
         /\ reg[p] = p \/ reg[p] \in valid
         /\ reg[p] = name \/ reg[p] \in raced

\* A segment under construction that nobody has opened is as it was made.
QuietOK ==
  \A r \in Procs \ hasty :
    pc[r] \in Before \cup Making =>
      /\ lock[r] = None /\ count[r] = 0
      /\ entries[r] = [s \in Slots |-> EmptyEntry]
      /\ \A p \in Procs : reg[p] = r => p = r

\* The lock excludes.
LockOK ==
  \A p \in Procs :
    pc[p] \in Holding /\ reg[p] \notin hasty => lock[reg[p]] = p

\* The slot a process is about to write is the only one its instance has, and
\* it is the instance's or not active.
FoundOK ==
  \A p \in Procs :
    pc[p] = "store" /\ reg[p] \notin hasty =>
      /\ \A s \in Slots : entries[reg[p]][s].inst = id[p] => s = found[p]
      /\ \/ entries[reg[p]][found[p]].inst = id[p]
         \/ entries[reg[p]][found[p]].status # "Active"

\* Some registered process stands behind each active entry.
HolderOK ==
  \A r \in Procs \ hasty : \A s \in Slots :
    entries[r][s].status = "Active" =>
      \E p \in Procs : reg[p] = r /\ slot[p] = s

\* The processes that have registered in segment r and not deregistered.
Registered(r) == {p \in Procs : reg[p] = r /\ slot[p] # 0}

CountOK ==
  \A r \in Procs \ hasty : count[r] = Cardinality(Registered(r))

TwinsOK ==
  ~twins =>
    \A p, q \in Procs : Alive(p) /\ Alive(q) /\ id[p] = id[q] => p = q

OwnOK ==
  ~twins =>
    \A p \in Procs :
      pc[p] \in Enrolled /\ reg[p] \notin hasty =>
        /\ entries[reg[p]][slot[p]].inst = id[p]
        /\ entries[reg[p]][slot[p]].status = "Active"
        /\ entries[reg[p]][slot[p]].symbols = listed[p]
        /\ pc[p] = "live" => entries[reg[p]][slot[p]].healthy

ServedOK ==
  \A p \in Procs : Alive(p) =>
    /\ pc[p] \in {"lock", "live", "relock"} \cup Holding =>
         listed[p] \subseteq ipc[p]
    /\ ~twins => \A x \in ipc[p] : chan[id[p]][x] = p

IInv == /\ RegistryTypeOK /\ PlacesOK /\ NamesOK /\ QuietOK /\ LockOK
        /\ FoundOK /\ OneSlotPerInstance /\ HolderOK /\ CountOK /\ TwinsOK
        /\ OwnOK /\ ServedOK


-----------------------------------------------------------------------------
(* Types of the functions of functions.                                    *)

LEMMA PublishType ==
  ASSUME RegistryTypeOK, NEW p \in Procs, NEW i \in Instances, NEW S,
         Publish(p, i, S)
  PROVE  chan' \in [Instances -> [Symbols -> Procs \cup {None}]]
BY DEF RegistryTypeOK, Publish

LEMMA HealthType ==
  ASSUME RegistryTypeOK, NEW r \in Procs, NEW s \in Slots, NEW h \in BOOLEAN,
         entries' = [entries EXCEPT ![r][s].healthy = h]
  PROVE  entries' \in [Procs -> [Slots -> Entry]]
<1>1. entries[r] \in [Slots -> Entry] BY DEF RegistryTypeOK
<1>2. entries[r][s] \in Entry BY <1>1
<1>3. [entries[r][s] EXCEPT !.healthy = h] \in Entry BY <1>2 DEF Entry
<1>4. [entries[r] EXCEPT ![s] = [entries[r][s] EXCEPT !.healthy = h]]
        \in [Slots -> Entry]
  BY <1>1, <1>3
<1>5. entries' = [entries EXCEPT ![r] =
                    [entries[r] EXCEPT ![s] =
                       [entries[r][s] EXCEPT !.healthy = h]]]
  OBVIOUS
<1> QED BY <1>4, <1>5 DEF RegistryTypeOK

LEMMA SlotType ==
  ASSUME RegistryTypeOK, NEW r \in Procs, NEW s \in Slots, NEW e \in Entry,
         entries' = [entries EXCEPT ![r][s] = e]
  PROVE  entries' \in [Procs -> [Slots -> Entry]]
<1>1. entries[r] \in [Slots -> Entry] BY DEF RegistryTypeOK
<1>2. [entries[r] EXCEPT ![s] = e] \in [Slots -> Entry] BY <1>1
<1>3. entries' = [entries EXCEPT ![r] = [entries[r] EXCEPT ![s] = e]]
  OBVIOUS
<1> QED BY <1>2, <1>3 DEF RegistryTypeOK

(* A process is registered at most once, and there are fewer processes    *)
(* than the counter has values.                                            *)

LEMMA RegisteredFinite ==
  ASSUME NEW r
  PROVE  /\ IsFiniteSet(Registered(r))
         /\ Cardinality(Registered(r)) \in 0 .. CountSize - 1
<1>1. IsFiniteSet(Procs) /\ CountSize \in Nat /\ Cardinality(Procs) < CountSize
  BY RegistryAssumption
<1>2. Registered(r) \subseteq Procs BY DEF Registered
<1>3. IsFiniteSet(Registered(r)) /\ Cardinality(Registered(r)) <= Cardinality(Procs)
  BY <1>1, <1>2, FS_Subset
<1> QED BY <1>1, <1>3, FS_CardinalityType

-----------------------------------------------------------------------------
(* Every action preserves it, part by part.                                *)

LEMMA StartStep ==
  ASSUME IInv, NEW p \in Procs, Start(p)
  PROVE  IInv'
<1> USE RegistryAssumption
<1> PICK i \in InstanceIds[p] :
      /\ id' = [id EXCEPT ![p] = i] /\ Publish(p, i, Static[p])
      /\ twins' = (twins \/ \E q \in Procs : Alive(q) /\ id[q] = i)
  BY DEF Start
<1>i. i \in Instances OBVIOUS
<1>1. RegistryTypeOK'
  <2>1. chan' \in [Instances -> [Symbols -> Procs \cup {None}]]
    BY <1>i, PublishType DEF IInv
  <2>2. twins' \in BOOLEAN
    BY Zenon
  <2>3. id' \in [Procs -> Instances \cup {None}] /\ ipc' \in [Procs -> SUBSET Symbols]
    BY <1>i DEF IInv, RegistryTypeOK, Start
  <2>4. pc' \in [Procs -> Labels]
    BY DEF IInv, RegistryTypeOK, Start, Goto, Labels
  <2> QED BY <2>1, <2>2, <2>3, <2>4 DEF IInv, RegistryTypeOK, Start, memory
<1>2. PlacesOK'
  BY <1>i DEF IInv, RegistryTypeOK, PlacesOK, Start, Goto, memory, Before,
              Making, Holding, Enrolled
<1>3. NamesOK'
  BY DEF IInv, Start, NamesOK, Goto, Alive, Publish, memory, Before
<1>4. QuietOK'
  BY DEF IInv, Start, QuietOK, Goto, Alive, Publish, memory, Before, Making,
         EmptyEntry, RegistryTypeOK
<1>5. LockOK' BY DEF IInv, Start, LockOK, Goto, Alive, Publish, memory, Holding
<1>6. FoundOK' BY DEF IInv, Start, FoundOK, Goto, Alive, Publish, memory
<1>7. OneSlotPerInstance'
  BY DEF IInv, Start, OneSlotPerInstance, Goto, Alive, Publish, memory
<1>8. HolderOK' BY DEF IInv, Start, HolderOK, Goto, Alive, Publish, memory
<1>9. CountOK'
  BY DEF IInv, Start, CountOK, Goto, Alive, Publish, memory, Registered
<1>10. TwinsOK'
  <2> SUFFICES ASSUME ~twins', NEW a \in Procs, NEW b \in Procs,
                      Alive(a)', Alive(b)', id'[a] = id'[b], a # b
               PROVE  FALSE
    BY DEF TwinsOK
  <2>1. ~twins /\ \A q \in Procs : Alive(q) => id[q] # i OBVIOUS
  <2>2. \A q \in Procs \ {p} : (Alive(q)' => Alive(q)) /\ id'[q] = id[q]
    BY DEF IInv, RegistryTypeOK, Start, Goto, Alive
  <2>3. id'[p] = i BY DEF IInv, RegistryTypeOK
  <2>4. CASE a = p BY <2>1, <2>2, <2>3, <2>4
  <2>5. CASE b = p BY <2>1, <2>2, <2>3, <2>5
  <2>6. CASE a # p /\ b # p BY <2>1, <2>2, <2>6 DEF IInv, TwinsOK
  <2> QED BY <2>4, <2>5, <2>6
<1>11. OwnOK'
  BY DEF IInv, Start, OwnOK, Goto, Alive, Publish, memory, Enrolled,
         RegistryTypeOK
<1>12. ServedOK'
  <2>1. \A x \in Symbols : chan'[i][x] = IF x \in Static[p] THEN p ELSE chan[i][x]
    BY <1>i DEF IInv, RegistryTypeOK, Publish
  <2>2. \A j \in Instances \ {i} : chan'[j] = chan[j]
    BY DEF IInv, RegistryTypeOK, Publish
  <2>3. ipc' = [ipc EXCEPT ![p] = Static[p]] /\ pc' = [pc EXCEPT ![p] = "open"]
        /\ listed' = listed
    BY DEF Start, Goto
  <2>4. \A q \in Procs \ {p} : /\ Alive(q)' => Alive(q)
                              /\ id'[q] = id[q] /\ ipc'[q] = ipc[q]
                              /\ pc'[q] = pc[q] /\ listed'[q] = listed[q]
    BY <2>3 DEF IInv, RegistryTypeOK, Alive
  <2> SUFFICES ASSUME NEW q \in Procs, Alive(q)'
               PROVE  /\ pc'[q] \in {"lock", "live", "relock"} \cup Holding =>
                           listed'[q] \subseteq ipc'[q]
                      /\ ~twins' => \A x \in ipc'[q] : chan'[id'[q]][x] = q
    BY DEF ServedOK
  <2>5. CASE q = p
    <3>1. pc'[q] = "open" /\ ipc'[q] = Static[q] /\ id'[q] = i
      BY <2>3, <2>5 DEF IInv, RegistryTypeOK
    <3> QED BY <2>1, <2>5, <3>1 DEF Holding
  <2>6. CASE q # p
    <3>1. id[q] \in Instances /\ ipc[q] \subseteq Symbols
      BY <2>4, <2>6 DEF IInv, RegistryTypeOK, PlacesOK, Alive
    <3>2. ~twins' => ~twins /\ id[q] # i BY <2>4, <2>6
    <3> QED BY <2>2, <2>4, <2>6, <3>1, <3>2 DEF IInv, ServedOK
  <2> QED BY <2>5, <2>6
<1> QED
  BY <1>1, <1>2, <1>3, <1>4, <1>5, <1>6, <1>7, <1>8, <1>9, <1>10, <1>11, <1>12
  DEF IInv

LEMMA SubscribeStep ==
  ASSUME IInv, NEW p \in Procs, NEW x \in Symbols, Subscribe(p, x)
  PROVE  IInv'
<1> USE RegistryAssumption
<1>1. RegistryTypeOK'
  <2>1. id[p] \in Instances BY DEF IInv, PlacesOK, Subscribe, Alive
  <2>2. chan' \in [Instances -> [Symbols -> Procs \cup {None}]]
    BY <2>1, PublishType DEF IInv, Subscribe
  <2>3. ipc' \in [Procs -> SUBSET Symbols]
    BY DEF IInv, RegistryTypeOK, Subscribe
  <2> QED BY <2>2, <2>3 DEF IInv, RegistryTypeOK, Subscribe, memory, own, history
<1>2. PlacesOK'
  BY DEF IInv, Subscribe, PlacesOK, Alive, Publish, memory, own, history,
         Before, Making, Holding, Enrolled
<1>3. NamesOK'
  BY DEF IInv, Subscribe, NamesOK, Alive, Publish, memory, own, history,
         Before
<1>4. QuietOK'
  BY DEF IInv, Subscribe, QuietOK, Alive, Publish, memory, own, history,
         Before, Making, EmptyEntry
<1>5. LockOK'
  BY DEF IInv, Subscribe, LockOK, Alive, Publish, memory, own, history,
         Holding
<1>6. FoundOK'
  BY DEF IInv, Subscribe, FoundOK, Alive, Publish, memory, own, history
<1>7. OneSlotPerInstance'
  BY DEF IInv, Subscribe, OneSlotPerInstance, Alive, Publish, memory, own,
         history
<1>8. HolderOK'
  BY DEF IInv, Subscribe, HolderOK, Alive, Publish, memory, own, history
<1>9. CountOK'
  BY DEF IInv, Subscribe, CountOK, Alive, Publish, memory, own, history,
         Registered
<1>10. TwinsOK'
  BY DEF IInv, Subscribe, TwinsOK, Alive, Publish, memory, own, history
<1>11. OwnOK'
  BY DEF IInv, Subscribe, OwnOK, Alive, Publish, memory, own, history,
         Enrolled
<1>12. ServedOK'
  BY DEF IInv, Subscribe, ServedOK, PlacesOK, TwinsOK, Alive, Publish, memory,
         own, history, Holding, Before, Making, Enrolled, RegistryTypeOK
<1> QED
  BY <1>1, <1>2, <1>3, <1>4, <1>5, <1>6, <1>7, <1>8, <1>9, <1>10, <1>11, <1>12
  DEF IInv

LEMMA OpenStep ==
  ASSUME IInv, NEW p \in Procs, Open(p)
  PROVE  IInv'
<1> USE RegistryAssumption
<1>1. RegistryTypeOK'
  <2>1. CASE UseNamed(p)
    <3>1. name \in Procs BY <2>1 DEF IInv, RegistryTypeOK, UseNamed
    <3>2. hasty' \subseteq Procs BY <2>1, <3>1 DEF IInv, RegistryTypeOK, UseNamed
    <3>3. reg' \in [Procs -> Procs \cup {None}] /\ pc' \in [Procs -> Labels]
          /\ listed' \in [Procs -> SUBSET Symbols]
      BY <2>1, <3>1 DEF IInv, RegistryTypeOK, UseNamed, HasRegistry, Goto, Labels
    <3> QED BY <3>2, <3>3 DEF IInv, RegistryTypeOK, Open, memory, channels
  <2>2. CASE NoneToUse /\ Goto(p, "unlink") /\ UNCHANGED <<reg, listed, hasty>>
    <3>1. pc' \in [Procs -> Labels] BY <2>2 DEF IInv, RegistryTypeOK, Goto, Labels
    <3> QED BY <2>2, <3>1 DEF IInv, RegistryTypeOK, Open, memory, channels
  <2> QED BY <2>1, <2>2 DEF Open
<1>2. PlacesOK'
  BY DEF IInv, Open, PlacesOK, UseNamed, NoneToUse, Goto, memory, channels,
         Before, Making, Holding, Enrolled, HasRegistry, RegistryTypeOK
<1>3. NamesOK'
  BY DEF IInv, Open, NamesOK, PlacesOK, UseNamed, NoneToUse, Goto, memory,
         channels, Before, Making, Holding, Enrolled, HasRegistry,
         RegistryTypeOK
<1>4. QuietOK'
  BY DEF IInv, Open, QuietOK, PlacesOK, NamesOK, UseNamed, NoneToUse, Goto,
         memory, channels, Before, Making, EmptyEntry, Holding, Enrolled,
         HasRegistry, RegistryTypeOK
<1>5. LockOK'
  BY DEF IInv, Open, LockOK, UseNamed, NoneToUse, Goto, memory, channels,
         Holding, HasRegistry, RegistryTypeOK
<1>6. FoundOK'
  BY DEF IInv, Open, FoundOK, UseNamed, NoneToUse, Goto, memory, channels,
         HasRegistry, RegistryTypeOK
<1>7. OneSlotPerInstance'
  BY DEF IInv, Open, OneSlotPerInstance, UseNamed, NoneToUse, Goto, memory,
         channels, HasRegistry
<1>8. HolderOK'
  BY DEF IInv, Open, HolderOK, PlacesOK, NamesOK, QuietOK, FoundOK, LockOK,
         UseNamed, NoneToUse, Goto, memory, channels, Before, Making, Holding,
         Enrolled, HasRegistry, RegistryTypeOK
<1>9. CountOK'
  <2>1. slot[p] = 0 /\ slot' = slot /\ count' = count
    BY DEF IInv, PlacesOK, RegistryTypeOK, Open, memory, Before, Enrolled
  <2>2. hasty \subseteq hasty' /\ \A q \in Procs \ {p} : reg'[q] = reg[q]
    BY DEF IInv, RegistryTypeOK, Open, UseNamed
  <2>3. \A r : Registered(r)' = Registered(r)
    BY <2>1, <2>2 DEF Registered
  <2> QED BY <2>1, <2>2, <2>3 DEF IInv, CountOK
<1>10. TwinsOK'
  <2>1. \A q \in Procs : Alive(q)' => Alive(q)
    BY DEF IInv, RegistryTypeOK, Open, Goto, Alive, UseNamed, HasRegistry
  <2>2. id' = id /\ twins' = twins BY DEF Open, own, history
  <2> QED BY <2>1, <2>2 DEF IInv, TwinsOK
<1>11. OwnOK'
  BY DEF IInv, Open, OwnOK, UseNamed, NoneToUse, Goto, memory, channels,
         Enrolled, HasRegistry, RegistryTypeOK
<1>12. ServedOK'
  BY DEF IInv, Open, ServedOK, UseNamed, NoneToUse, Goto, memory, channels,
         Alive, Holding, HasRegistry, RegistryTypeOK
<1> QED
  BY <1>1, <1>2, <1>3, <1>4, <1>5, <1>6, <1>7, <1>8, <1>9, <1>10, <1>11, <1>12
  DEF IInv

LEMMA UnlinkStep ==
  ASSUME IInv, NEW p \in Procs, Unlink(p)
  PROVE  IInv'
<1> USE RegistryAssumption
<1>1. RegistryTypeOK'
  BY DEF IInv, Unlink, RegistryTypeOK, Goto, channels, own, Labels, Entry
<1>2. PlacesOK'
  BY DEF IInv, Unlink, PlacesOK, Goto, channels, own, Before, Making, Holding,
         Enrolled
<1>3. NamesOK' BY DEF IInv, Unlink, NamesOK, Goto, channels, own, Before
<1>4. QuietOK'
  BY DEF IInv, Unlink, QuietOK, Goto, channels, own, Before, Making,
         EmptyEntry, RegistryTypeOK
<1>5. LockOK' BY DEF IInv, Unlink, LockOK, Goto, channels, own, Holding
<1>6. FoundOK' BY DEF IInv, Unlink, FoundOK, Goto, channels, own
<1>7. OneSlotPerInstance'
  BY DEF IInv, Unlink, OneSlotPerInstance, Goto, channels, own
<1>8. HolderOK' BY DEF IInv, Unlink, HolderOK, Goto, channels, own
<1>9. CountOK' BY DEF IInv, Unlink, CountOK, Goto, channels, own, Registered
<1>10. TwinsOK' BY DEF IInv, Unlink, TwinsOK, Goto, channels, own, Alive
<1>11. OwnOK' BY DEF IInv, Unlink, OwnOK, Goto, channels, own, Enrolled
<1>12. ServedOK'
  BY DEF IInv, Unlink, ServedOK, Goto, channels, own, Alive, Holding
<1> QED
  BY <1>1, <1>2, <1>3, <1>4, <1>5, <1>6, <1>7, <1>8, <1>9, <1>10, <1>11, <1>12
  DEF IInv

LEMMA CreateStep ==
  ASSUME IInv, NEW p \in Procs, Create(p)
  PROVE  IInv'
<1> USE RegistryAssumption
<1>1. RegistryTypeOK'
  <2>1. CASE name' = p /\ Goto(p, "magic") /\ reg' = [reg EXCEPT ![p] = p]
    BY <2>1 DEF IInv, RegistryTypeOK, Create, Goto, Labels, channels, own, history
  <2>2. CASE Goto(p, "reopen") /\ UNCHANGED <<name, reg>>
    BY <2>2 DEF IInv, RegistryTypeOK, Create, Goto, Labels, channels, own, history
  <2> QED BY <2>1, <2>2 DEF Create
<1>2. PlacesOK'
  BY DEF IInv, Create, PlacesOK, Goto, channels, own, history, Before, Making,
         Holding, Enrolled, RegistryTypeOK
<1>3. NamesOK'
  BY DEF IInv, Create, NamesOK, PlacesOK, Goto, channels, own, history,
         Before, Making, Holding, Enrolled, RegistryTypeOK
<1>4. QuietOK'
  BY DEF IInv, Create, QuietOK, Goto, channels, own, history, Before, Making,
         EmptyEntry, RegistryTypeOK
<1>5. LockOK'
  <2>1. \A q \in Procs : pc'[q] \in Holding => pc[q] \in Holding /\ reg'[q] = reg[q]
    BY DEF IInv, RegistryTypeOK, Create, Goto, Holding
  <2>2. lock' = lock /\ hasty' = hasty BY DEF Create, history
  <2> QED BY <2>1, <2>2 DEF IInv, LockOK
<1>6. FoundOK'
  BY DEF IInv, Create, FoundOK, PlacesOK, NamesOK, QuietOK, LockOK, Goto,
         channels, own, history, Before, Making, Holding, Enrolled,
         RegistryTypeOK
<1>7. OneSlotPerInstance'
  BY DEF IInv, Create, OneSlotPerInstance, Goto, channels, own, history
<1>8. HolderOK'
  BY DEF IInv, Create, HolderOK, PlacesOK, NamesOK, QuietOK, FoundOK, LockOK,
         Goto, channels, own, history, Before, Making, Holding, Enrolled,
         RegistryTypeOK
<1>9. CountOK'
  <2>1. slot[p] = 0 /\ slot' = slot /\ count' = count
    BY DEF IInv, PlacesOK, RegistryTypeOK, Create, Before, Enrolled
  <2>2. hasty' = hasty /\ \A q \in Procs \ {p} : reg'[q] = reg[q]
    BY DEF IInv, RegistryTypeOK, Create, history
  <2>3. \A r : Registered(r)' = Registered(r)
    BY <2>1, <2>2 DEF Registered
  <2> QED BY <2>1, <2>2, <2>3 DEF IInv, CountOK
<1>10. TwinsOK'
  <2>1. \A q \in Procs : Alive(q)' => Alive(q)
    BY DEF IInv, RegistryTypeOK, Create, Goto, Alive
  <2>2. id' = id /\ twins' = twins BY DEF Create, own, history
  <2> QED BY <2>1, <2>2 DEF IInv, TwinsOK
<1>11. OwnOK'
  BY DEF IInv, Create, OwnOK, Goto, channels, own, history, Enrolled,
         RegistryTypeOK
<1>12. ServedOK'
  BY DEF IInv, Create, ServedOK, PlacesOK, TwinsOK, Goto, channels, own,
         history, Alive, Holding, Before, Making, Enrolled, RegistryTypeOK
<1> QED
  BY <1>1, <1>2, <1>3, <1>4, <1>5, <1>6, <1>7, <1>8, <1>9, <1>10, <1>11, <1>12
  DEF IInv

LEMMA InitMagicStep ==
  ASSUME IInv, NEW p \in Procs, InitMagic(p)
  PROVE  IInv'
<1> USE RegistryAssumption
<1>1. RegistryTypeOK'
  BY DEF IInv, InitMagic, RegistryTypeOK, Goto, channels, own, history,
         Labels, Entry
<1>2. PlacesOK'
  BY DEF IInv, InitMagic, PlacesOK, Goto, channels, own, history, Before,
         Making, Holding, Enrolled
<1>3. NamesOK'
  BY DEF IInv, InitMagic, NamesOK, PlacesOK, Goto, channels, own, history,
         Before, Making, Holding, Enrolled, RegistryTypeOK
<1>4. QuietOK'
  BY DEF IInv, InitMagic, QuietOK, Goto, channels, own, history, Before,
         Making, EmptyEntry, RegistryTypeOK
<1>5. LockOK'
  BY DEF IInv, InitMagic, LockOK, Goto, channels, own, history, Holding
<1>6. FoundOK' BY DEF IInv, InitMagic, FoundOK, Goto, channels, own, history
<1>7. OneSlotPerInstance'
  BY DEF IInv, InitMagic, OneSlotPerInstance, Goto, channels, own, history
<1>8. HolderOK' BY DEF IInv, InitMagic, HolderOK, Goto, channels, own, history
<1>9. CountOK'
  BY DEF IInv, InitMagic, CountOK, Goto, channels, own, history, Registered
<1>10. TwinsOK'
  BY DEF IInv, InitMagic, TwinsOK, Goto, channels, own, history, Alive
<1>11. OwnOK'
  BY DEF IInv, InitMagic, OwnOK, Goto, channels, own, history, Enrolled
<1>12. ServedOK'
  BY DEF IInv, InitMagic, ServedOK, Goto, channels, own, history, Alive,
         Holding
<1> QED
  BY <1>1, <1>2, <1>3, <1>4, <1>5, <1>6, <1>7, <1>8, <1>9, <1>10, <1>11, <1>12
  DEF IInv

LEMMA InitLockStep ==
  ASSUME IInv, NEW p \in Procs, InitLock(p)
  PROVE  IInv'
<1> USE RegistryAssumption
<1>1. RegistryTypeOK'
  BY DEF IInv, InitLock, RegistryTypeOK, Goto, channels, own, history, Labels,
         Entry
<1>2. PlacesOK'
  BY DEF IInv, InitLock, PlacesOK, Goto, channels, own, history, Before,
         Making, Holding, Enrolled
<1>3. NamesOK'
  BY DEF IInv, InitLock, NamesOK, Goto, channels, own, history, Before
<1>4. QuietOK'
  BY DEF IInv, InitLock, QuietOK, Goto, channels, own, history, Before,
         Making, EmptyEntry, RegistryTypeOK
<1>5. LockOK'
  BY DEF IInv, InitLock, LockOK, PlacesOK, NamesOK, QuietOK, Goto, channels,
         own, history, Holding, Before, Making, Enrolled, RegistryTypeOK
<1>6. FoundOK' BY DEF IInv, InitLock, FoundOK, Goto, channels, own, history
<1>7. OneSlotPerInstance'
  BY DEF IInv, InitLock, OneSlotPerInstance, Goto, channels, own, history
<1>8. HolderOK' BY DEF IInv, InitLock, HolderOK, Goto, channels, own, history
<1>9. CountOK'
  BY DEF IInv, InitLock, CountOK, PlacesOK, NamesOK, QuietOK, Goto, channels,
         own, history, Registered, Before, Making, Holding, Enrolled,
         RegistryTypeOK
<1>10. TwinsOK'
  BY DEF IInv, InitLock, TwinsOK, Goto, channels, own, history, Alive
<1>11. OwnOK'
  BY DEF IInv, InitLock, OwnOK, Goto, channels, own, history, Enrolled
<1>12. ServedOK'
  BY DEF IInv, InitLock, ServedOK, Goto, channels, own, history, Alive,
         Holding
<1> QED
  BY <1>1, <1>2, <1>3, <1>4, <1>5, <1>6, <1>7, <1>8, <1>9, <1>10, <1>11, <1>12
  DEF IInv

LEMMA InitEntriesStep ==
  ASSUME IInv, NEW p \in Procs, InitEntries(p)
  PROVE  IInv'
<1> USE RegistryAssumption
<1>1. RegistryTypeOK'
  BY DEF IInv, InitEntries, RegistryTypeOK, HasRegistry, EmptyEntry, channels,
         history, Labels, Entry, Goto
<1>2. PlacesOK'
  BY DEF IInv, InitEntries, PlacesOK, HasRegistry, channels, history, Before,
         Making, Holding, Enrolled, Goto
<1>3. NamesOK'
  BY DEF IInv, InitEntries, NamesOK, HasRegistry, channels, history, Before,
         Goto
<1>4. QuietOK'
  BY DEF IInv, InitEntries, QuietOK, HasRegistry, EmptyEntry, channels,
         history, Before, Making, Goto, RegistryTypeOK
<1>5. LockOK'
  BY DEF IInv, InitEntries, LockOK, HasRegistry, channels, history, Holding,
         Goto
<1>6. FoundOK'
  BY DEF IInv, InitEntries, FoundOK, PlacesOK, NamesOK, QuietOK, LockOK,
         HasRegistry, channels, history, Before, Making, Holding, Enrolled,
         Goto, RegistryTypeOK
<1>7. OneSlotPerInstance'
  BY DEF IInv, InitEntries, OneSlotPerInstance, PlacesOK, NamesOK, QuietOK,
         FoundOK, LockOK, HasRegistry, channels, history, Before, Making,
         Holding, Enrolled, Goto, RegistryTypeOK
<1>8. HolderOK'
  BY DEF IInv, InitEntries, HolderOK, PlacesOK, NamesOK, QuietOK, FoundOK,
         LockOK, HasRegistry, channels, history, Before, Making, Holding,
         Enrolled, Goto, RegistryTypeOK
<1>9. CountOK'
  BY DEF IInv, InitEntries, CountOK, HasRegistry, channels, history,
         Registered, Goto
<1>10. TwinsOK'
  BY DEF IInv, InitEntries, TwinsOK, HasRegistry, channels, history, Alive,
         Goto
<1>11. OwnOK'
  BY DEF IInv, InitEntries, OwnOK, PlacesOK, NamesOK, QuietOK, FoundOK,
         LockOK, TwinsOK, HasRegistry, channels, history, Enrolled, Before,
         Making, Holding, Alive, Goto, RegistryTypeOK
<1>12. ServedOK'
  BY DEF IInv, InitEntries, ServedOK, HasRegistry, channels, history, Alive,
         Holding, Goto, RegistryTypeOK
<1> QED
  BY <1>1, <1>2, <1>3, <1>4, <1>5, <1>6, <1>7, <1>8, <1>9, <1>10, <1>11, <1>12
  DEF IInv

LEMMA ReopenStep ==
  ASSUME IInv, NEW p \in Procs, Reopen(p)
  PROVE  IInv'
<1> USE RegistryAssumption
<1>1. RegistryTypeOK'
  <2>1. CASE UseNamed(p)
    <3>1. name \in Procs BY <2>1 DEF IInv, RegistryTypeOK, UseNamed
    <3>2. hasty' \subseteq Procs BY <2>1, <3>1 DEF IInv, RegistryTypeOK, UseNamed
    <3>3. reg' \in [Procs -> Procs \cup {None}] /\ pc' \in [Procs -> Labels]
          /\ listed' \in [Procs -> SUBSET Symbols]
      BY <2>1, <3>1 DEF IInv, RegistryTypeOK, UseNamed, HasRegistry, Goto, Labels
    <3> QED BY <3>2, <3>3 DEF IInv, RegistryTypeOK, Reopen, memory, channels
  <2>2. CASE NoneToUse /\ Goto(p, "alone") /\ UNCHANGED <<reg, listed, hasty>>
    <3>1. pc' \in [Procs -> Labels] BY <2>2 DEF IInv, RegistryTypeOK, Goto, Labels
    <3> QED BY <2>2, <3>1 DEF IInv, RegistryTypeOK, Reopen, memory, channels
  <2> QED BY <2>1, <2>2 DEF Reopen
<1>2. PlacesOK'
  BY DEF IInv, Reopen, PlacesOK, UseNamed, NoneToUse, Goto, memory, channels,
         Before, Making, Holding, Enrolled, HasRegistry, RegistryTypeOK
<1>3. NamesOK'
  <2>1. CASE UseNamed(p)
    <3>1. name \in Procs /\ reg[name] = name /\ pc[name] \notin Before
      BY <2>1 DEF IInv, RegistryTypeOK, NamesOK, UseNamed
    <3>2. name # p /\ reg[p] = None
      BY <3>1 DEF IInv, PlacesOK, Reopen, Before
    <3>3. name' = name /\ valid' = valid /\ raced' = raced BY DEF Reopen, memory
    <3>4. reg' = [reg EXCEPT ![p] = name] /\ pc' = [pc EXCEPT ![p] = "lock"]
      BY <2>1 DEF UseNamed, HasRegistry, Goto
    <3>5. \A r \in valid : r \in Procs /\ r # p
      BY <3>2, RegistryAssumption DEF IInv, RegistryTypeOK, NamesOK
    <3>6. name \in valid BY <2>1 DEF UseNamed
    <3> QED BY <3>1, <3>2, <3>3, <3>4, <3>5, <3>6
            DEF IInv, RegistryTypeOK, NamesOK, Before
  <2>2. CASE NoneToUse /\ Goto(p, "alone") /\ UNCHANGED <<reg, listed, hasty>>
    BY <2>2 DEF IInv, RegistryTypeOK, PlacesOK, NamesOK, Reopen, Goto, memory, Before
  <2> QED BY <2>1, <2>2 DEF Reopen
<1>4. QuietOK'
  BY DEF IInv, Reopen, QuietOK, PlacesOK, NamesOK, UseNamed, NoneToUse, Goto,
         memory, channels, Before, Making, EmptyEntry, Holding, Enrolled,
         HasRegistry, RegistryTypeOK
<1>5. LockOK'
  BY DEF IInv, Reopen, LockOK, UseNamed, NoneToUse, Goto, memory, channels,
         Holding, HasRegistry, RegistryTypeOK
<1>6. FoundOK'
  BY DEF IInv, Reopen, FoundOK, UseNamed, NoneToUse, Goto, memory, channels,
         HasRegistry, RegistryTypeOK
<1>7. OneSlotPerInstance'
  BY DEF IInv, Reopen, OneSlotPerInstance, UseNamed, NoneToUse, Goto, memory,
         channels, HasRegistry
<1>8. HolderOK'
  BY DEF IInv, Reopen, HolderOK, PlacesOK, NamesOK, QuietOK, FoundOK, LockOK,
         UseNamed, NoneToUse, Goto, memory, channels, Before, Making, Holding,
         Enrolled, HasRegistry, RegistryTypeOK
<1>9. CountOK'
  <2>1. slot[p] = 0 /\ slot' = slot /\ count' = count
    BY DEF IInv, PlacesOK, RegistryTypeOK, Reopen, memory, Before, Enrolled
  <2>2. hasty \subseteq hasty' /\ \A q \in Procs \ {p} : reg'[q] = reg[q]
    BY DEF IInv, RegistryTypeOK, Reopen, UseNamed
  <2>3. \A r : Registered(r)' = Registered(r)
    BY <2>1, <2>2 DEF Registered
  <2> QED BY <2>1, <2>2, <2>3 DEF IInv, CountOK
<1>10. TwinsOK'
  BY DEF IInv, Reopen, TwinsOK, UseNamed, NoneToUse, Goto, memory, channels,
         Alive, HasRegistry, RegistryTypeOK
<1>11. OwnOK'
  BY DEF IInv, Reopen, OwnOK, UseNamed, NoneToUse, Goto, memory, channels,
         Enrolled, HasRegistry, RegistryTypeOK
<1>12. ServedOK'
  BY DEF IInv, Reopen, ServedOK, UseNamed, NoneToUse, Goto, memory, channels,
         Alive, Holding, HasRegistry, RegistryTypeOK
<1> QED
  BY <1>1, <1>2, <1>3, <1>4, <1>5, <1>6, <1>7, <1>8, <1>9, <1>10, <1>11, <1>12
  DEF IInv

LEMMA LockStep ==
  ASSUME IInv, NEW p \in Procs, Lock(p)
  PROVE  IInv'
<1> USE RegistryAssumption
<1>1. RegistryTypeOK'
  BY DEF IInv, Lock, RegistryTypeOK, Goto, Free, channels, own, history,
         Labels, Entry
<1>2. PlacesOK'
  BY DEF IInv, Lock, PlacesOK, Goto, Free, channels, own, history, Before,
         Making, Holding, Enrolled, RegistryTypeOK
<1>3. NamesOK'
  BY DEF IInv, Lock, NamesOK, Goto, Free, channels, own, history, Before,
         RegistryTypeOK
<1>4. QuietOK'
  BY DEF IInv, Lock, QuietOK, Goto, Free, channels, own, history, Before,
         Making, EmptyEntry, RegistryTypeOK
<1>5. LockOK'
  BY DEF IInv, Lock, LockOK, PlacesOK, NamesOK, QuietOK, Goto, Free, channels,
         own, history, Holding, Before, Making, Enrolled, RegistryTypeOK
<1>6. FoundOK'
  BY DEF IInv, Lock, FoundOK, Goto, Free, channels, own, history,
         RegistryTypeOK
<1>7. OneSlotPerInstance'
  BY DEF IInv, Lock, OneSlotPerInstance, Goto, Free, channels, own, history
<1>8. HolderOK' BY DEF IInv, Lock, HolderOK, Goto, Free, channels, own, history
<1>9. CountOK'
  BY DEF IInv, Lock, CountOK, Goto, Free, channels, own, history, Registered
<1>10. TwinsOK'
  <2>1. \A q \in Procs : Alive(q)' => Alive(q)
    BY DEF IInv, RegistryTypeOK, Lock, Goto, Alive
  <2>2. id' = id /\ twins' = twins BY DEF Lock, own, history
  <2> QED BY <2>1, <2>2 DEF IInv, TwinsOK
<1>11. OwnOK'
  <2>1. /\ entries' = entries /\ reg' = reg /\ slot' = slot /\ id' = id
        /\ listed' = listed /\ hasty' = hasty /\ twins' = twins
    BY DEF Lock, own, history
  <2>2. ASSUME NEW q \in Procs, pc'[q] \in Enrolled
        PROVE  pc[q] \in Enrolled /\ (pc'[q] = "live" => pc[q] = "live")
    BY <2>2 DEF IInv, RegistryTypeOK, Lock, Goto, Enrolled
  <2> QED BY <2>1, <2>2 DEF IInv, OwnOK
<1>12. ServedOK'
  BY DEF IInv, Lock, ServedOK, PlacesOK, TwinsOK, Goto, Free, channels, own,
         history, Alive, Holding, Before, Making, Enrolled, RegistryTypeOK
<1> QED
  BY <1>1, <1>2, <1>3, <1>4, <1>5, <1>6, <1>7, <1>8, <1>9, <1>10, <1>11, <1>12
  DEF IInv

LEMMA FindSlotStep ==
  ASSUME IInv, NEW p \in Procs, FindSlot(p)
  PROVE  IInv'
<1> USE RegistryAssumption
<1>1. RegistryTypeOK'
  BY DEF IInv, FindSlot, RegistryTypeOK, Goto, SlotFor, memory, channels, own,
         history, Labels, Entry, First, OwnSlots, FreeSlots, Book
<1>2. PlacesOK'
  BY DEF IInv, FindSlot, PlacesOK, Goto, SlotFor, memory, channels, own,
         history, Before, Making, Holding, Enrolled, First, OwnSlots,
         FreeSlots, Book, RegistryTypeOK
<1>3. NamesOK'
  BY DEF IInv, FindSlot, NamesOK, Goto, SlotFor, memory, channels, own,
         history, Before, First, OwnSlots, FreeSlots, Book
<1>4. QuietOK'
  BY DEF IInv, FindSlot, QuietOK, Goto, SlotFor, memory, channels, own,
         history, Before, Making, EmptyEntry, First, OwnSlots, FreeSlots,
         Book, RegistryTypeOK
<1>5. LockOK'
  BY DEF IInv, FindSlot, LockOK, Goto, SlotFor, memory, channels, own,
         history, Holding, First, OwnSlots, FreeSlots, Book
<1>6. FoundOK'
  <2>0. PICK s \in Slots : SlotFor(p, s) /\ found' = [found EXCEPT ![p] = s]
    BY DEF FindSlot
  <2>1. /\ \A t \in Slots : entries[reg[p]][t].inst = id[p] => t = s
        /\ entries[reg[p]][s].inst = id[p] \/ entries[reg[p]][s].status # "Active"
        \/ reg[p] \in hasty
    <3>1. id[p] # None /\ reg[p] \in Procs
      BY RegistryAssumption DEF IInv, PlacesOK, FindSlot, Holding
    <3>2. reg[p] \notin hasty => \A t, u \in Slots :
            /\ entries[reg[p]][t].inst = id[p] /\ entries[reg[p]][u].inst = id[p]
            => t = u
      BY <3>1 DEF IInv, OneSlotPerInstance
    <3> QED BY <2>0, <3>2 DEF SlotFor, First, OwnSlots, FreeSlots, Book
  <2>2. entries' = entries /\ reg' = reg /\ id' = id /\ hasty' = hasty
        /\ pc' = [pc EXCEPT ![p] = "store"]
    BY DEF FindSlot, Goto, memory, own, history
  <2> SUFFICES ASSUME NEW q \in Procs, pc'[q] = "store", reg[q] \notin hasty
               PROVE  /\ \A t \in Slots : entries[reg[q]][t].inst = id[q]
                                            => t = found'[q]
                      /\ \/ entries[reg[q]][found'[q]].inst = id[q]
                         \/ entries[reg[q]][found'[q]].status # "Active"
    BY <2>2 DEF FoundOK
  <2>3. CASE q = p BY <2>0, <2>1, <2>3 DEF IInv, RegistryTypeOK
  <2>4. CASE q # p
    <3>1. pc[q] = "store" /\ found'[q] = found[q]
      BY <2>0, <2>2, <2>4 DEF IInv, RegistryTypeOK
    <3> QED BY <3>1 DEF IInv, FoundOK
  <2> QED BY <2>3, <2>4
<1>7. OneSlotPerInstance'
  BY DEF IInv, FindSlot, OneSlotPerInstance, Goto, SlotFor, memory, channels,
         own, history, First, OwnSlots, FreeSlots, Book
<1>8. HolderOK'
  BY DEF IInv, FindSlot, HolderOK, Goto, SlotFor, memory, channels, own,
         history, First, OwnSlots, FreeSlots, Book
<1>9. CountOK'
  BY DEF IInv, FindSlot, CountOK, Goto, SlotFor, memory, channels, own,
         history, Registered, First, OwnSlots, FreeSlots, Book
<1>10. TwinsOK'
  BY DEF IInv, FindSlot, TwinsOK, Goto, SlotFor, memory, channels, own,
         history, Alive, First, OwnSlots, FreeSlots, Book
<1>11. OwnOK'
  BY DEF IInv, FindSlot, OwnOK, Goto, SlotFor, memory, channels, own, history,
         Enrolled, First, OwnSlots, FreeSlots, Book
<1>12. ServedOK'
  BY DEF IInv, FindSlot, ServedOK, Goto, SlotFor, memory, channels, own,
         history, Alive, Holding, First, OwnSlots, FreeSlots, Book
<1> QED
  BY <1>1, <1>2, <1>3, <1>4, <1>5, <1>6, <1>7, <1>8, <1>9, <1>10, <1>11, <1>12
  DEF IInv

LEMMA RegistryFullStep ==
  ASSUME IInv, NEW p \in Procs, RegistryFull(p)
  PROVE  IInv'
<1> USE RegistryAssumption
<1>1. RegistryTypeOK'
  BY DEF IInv, RegistryFull, RegistryTypeOK, Goto, OwnSlots, FreeSlots,
         Unlock, channels, own, history, Labels, Entry, Book
<1>2. PlacesOK'
  BY DEF IInv, RegistryFull, PlacesOK, Goto, OwnSlots, FreeSlots, Unlock,
         channels, own, history, Before, Making, Holding, Enrolled, Book
<1>3. NamesOK'
  BY DEF IInv, RegistryFull, NamesOK, Goto, OwnSlots, FreeSlots, Unlock,
         channels, own, history, Before, Book
<1>4. QuietOK'
  BY DEF IInv, RegistryFull, QuietOK, Goto, OwnSlots, FreeSlots, Unlock,
         channels, own, history, Before, Making, EmptyEntry, Book,
         RegistryTypeOK
<1>5. LockOK'
  BY DEF IInv, RegistryFull, LockOK, Goto, OwnSlots, FreeSlots, Unlock,
         channels, own, history, Holding, Book, RegistryTypeOK
<1>6. FoundOK'
  BY DEF IInv, RegistryFull, FoundOK, Goto, OwnSlots, FreeSlots, Unlock,
         channels, own, history, Book
<1>7. OneSlotPerInstance'
  BY DEF IInv, RegistryFull, OneSlotPerInstance, Goto, OwnSlots, FreeSlots,
         Unlock, channels, own, history, Book
<1>8. HolderOK'
  BY DEF IInv, RegistryFull, HolderOK, Goto, OwnSlots, FreeSlots, Unlock,
         channels, own, history, Book
<1>9. CountOK'
  BY DEF IInv, RegistryFull, CountOK, Goto, OwnSlots, FreeSlots, Unlock,
         channels, own, history, Registered, Book
<1>10. TwinsOK'
  BY DEF IInv, RegistryFull, TwinsOK, Goto, OwnSlots, FreeSlots, Unlock,
         channels, own, history, Alive, Book
<1>11. OwnOK'
  BY DEF IInv, RegistryFull, OwnOK, Goto, OwnSlots, FreeSlots, Unlock,
         channels, own, history, Enrolled, Book
<1>12. ServedOK'
  BY DEF IInv, RegistryFull, ServedOK, Goto, OwnSlots, FreeSlots, Unlock,
         channels, own, history, Alive, Holding, Book
<1> QED
  BY <1>1, <1>2, <1>3, <1>4, <1>5, <1>6, <1>7, <1>8, <1>9, <1>10, <1>11, <1>12
  DEF IInv

LEMMA WriteEntryStep ==
  ASSUME IInv, NEW p \in Procs, WriteEntry(p)
  PROVE  IInv'
<1> USE RegistryAssumption
<1>1. RegistryTypeOK'
  <2>1. reg[p] \in Procs /\ found[p] \in Slots
    BY DEF IInv, PlacesOK, WriteEntry, Holding
  <2>2. NewEntry(p) \in Entry
    BY DEF IInv, RegistryTypeOK, NewEntry, Entry
  <2>3. entries' \in [Procs -> [Slots -> Entry]]
    BY <2>1, <2>2, SlotType DEF IInv, WriteEntry
  <2>4. pc' \in [Procs -> Labels] /\ slot' \in [Procs -> Slots \cup {0}]
        /\ lock' \in [Procs -> Procs \cup {None}]
    BY <2>1 DEF IInv, RegistryTypeOK, WriteEntry, Goto, Labels, Unlock
  <2>5. count' \in [Procs -> 0 .. CountSize - 1]
    <3>1. count \in [Procs -> 0 .. CountSize - 1] /\ CountSize \in Nat
      BY RegistryAssumption DEF IInv, RegistryTypeOK
    <3>2. (IF count[reg[p]] = CountSize - 1 THEN 0 ELSE count[reg[p]] + 1)
            \in 0 .. CountSize - 1
      BY <2>1, <3>1
    <3> QED BY <2>1, <3>1, <3>2 DEF WriteEntry, Increment
  <2> QED BY <2>3, <2>4, <2>5 DEF IInv, RegistryTypeOK, WriteEntry, channels, own, history
<1>2. PlacesOK'
  BY DEF IInv, WriteEntry, PlacesOK, Goto, NewEntry, Increment, Unlock,
         channels, own, history, Before, Making, Holding, Enrolled,
         RegistryTypeOK
<1>3. NamesOK'
  BY DEF IInv, WriteEntry, NamesOK, Goto, NewEntry, Increment, Unlock,
         channels, own, history, Before
<1>4. QuietOK'
  BY DEF IInv, WriteEntry, QuietOK, Goto, NewEntry, Increment, Unlock,
         channels, own, history, Before, Making, EmptyEntry, RegistryTypeOK
<1>5. LockOK'
  BY DEF IInv, WriteEntry, LockOK, Goto, NewEntry, Increment, Unlock,
         channels, own, history, Holding, RegistryTypeOK
<1>6. FoundOK'
  BY DEF IInv, WriteEntry, FoundOK, PlacesOK, NamesOK, QuietOK, LockOK, Goto,
         NewEntry, Increment, Unlock, channels, own, history, Before, Making,
         Holding, Enrolled, RegistryTypeOK
<1>7. OneSlotPerInstance'
  BY DEF IInv, WriteEntry, OneSlotPerInstance, PlacesOK, NamesOK, QuietOK,
         FoundOK, LockOK, Goto, NewEntry, Increment, Unlock, channels, own,
         history, Before, Making, Holding, Enrolled, RegistryTypeOK
<1>8. HolderOK'
  <2>1. reg[p] \in Procs /\ found[p] \in Slots /\ slot[p] = 0
    BY DEF IInv, RegistryTypeOK, PlacesOK, WriteEntry, Holding, Enrolled
  <2>2. reg' = reg /\ hasty' = hasty /\ slot' = [slot EXCEPT ![p] = found[p]]
        /\ entries' = [entries EXCEPT ![reg[p]][found[p]] = NewEntry(p)]
    BY DEF WriteEntry, history
  <2>3. \A r \in Procs : \A s \in Slots :
          ~(r = reg[p] /\ s = found[p]) => entries'[r][s] = entries[r][s]
    BY <2>1, <2>2 DEF IInv, RegistryTypeOK
  <2>4. slot'[p] = found[p] /\ \A q \in Procs \ {p} : slot'[q] = slot[q]
    BY <2>2 DEF IInv, RegistryTypeOK
  <2> SUFFICES ASSUME NEW r \in Procs \ hasty, NEW s \in Slots,
                      entries'[r][s].status = "Active"
               PROVE  \E q \in Procs : reg[q] = r /\ slot'[q] = s
    BY <2>2 DEF HolderOK
  <2>5. CASE r = reg[p] /\ s = found[p] BY <2>4, <2>5
  <2>6. CASE ~(r = reg[p] /\ s = found[p])
    <3>1. PICK q \in Procs : reg[q] = r /\ slot[q] = s
      BY <2>3, <2>6 DEF IInv, HolderOK
    <3>2. q # p BY <2>1, <3>1 DEF Slots
    <3> QED BY <2>4, <3>1, <3>2
  <2> QED BY <2>5, <2>6
<1>9. CountOK'
  <2> PICK m : m = reg[p]
    OBVIOUS
  <2>0. reg[p] \in Procs /\ found[p] \in Slots /\ slot[p] = 0
    BY DEF IInv, RegistryTypeOK, PlacesOK, WriteEntry, Holding, Enrolled
  <2>1. reg[p] \in Procs /\ found[p] # 0 /\ slot[p] = 0
    BY <2>0 DEF Slots
  <2>2. reg' = reg /\ hasty' = hasty /\ slot' = [slot EXCEPT ![p] = found[p]]
    BY DEF WriteEntry, history
  <2>3. Registered(m)' = Registered(m) \cup {p} /\ p \notin Registered(m)
    BY <2>1, <2>2 DEF IInv, RegistryTypeOK, Registered
  <2>4. \A r : r # m => Registered(r)' = Registered(r)
    BY <2>1, <2>2 DEF IInv, RegistryTypeOK, Registered
  <2>5. Cardinality(Registered(m)') = Cardinality(Registered(m)) + 1
        /\ Cardinality(Registered(m)') \in 0 .. CountSize - 1
    <3>1. \A S : IsFiniteSet(S) /\ p \notin S
                   => Cardinality(S \cup {p}) = Cardinality(S) + 1
      BY FS_AddElement
    <3>2. IsFiniteSet(Registered(m)) BY RegisteredFinite
    <3>3. Registered(m)' \subseteq Procs BY DEF Registered
    <3>4. IsFiniteSet(Registered(m)')
          /\ Cardinality(Registered(m)') <= Cardinality(Procs)
      BY <3>3, RegistryAssumption, FS_Subset
    <3>5. Cardinality(Registered(m)') \in Nat BY <3>4, FS_CardinalityType
    <3>6. CountSize \in Nat /\ Cardinality(Procs) < CountSize
          /\ Cardinality(Procs) \in Nat
      BY RegistryAssumption, FS_CardinalityType
    <3>7. Cardinality(Registered(m)') \in 0 .. CountSize - 1
      BY <3>4, <3>5, <3>6
    <3> QED BY <2>3, <3>1, <3>2, <3>7
  <2> SUFFICES ASSUME NEW r \in Procs \ hasty
               PROVE  count'[r] = Cardinality(Registered(r)')
    BY <2>2 DEF CountOK
  <2>6. count[r] = Cardinality(Registered(r)) BY DEF IInv, CountOK
  <2>7. CASE r # m
    BY <2>4, <2>6, <2>7 DEF IInv, RegistryTypeOK, WriteEntry, Increment
  <2>8. CASE r = m
    <3>1. count'[r] = IF count[r] = CountSize - 1 THEN 0 ELSE count[r] + 1
      BY <2>8 DEF IInv, RegistryTypeOK, WriteEntry, Increment
    <3>2. count[r] \in 0 .. CountSize - 1 /\ CountSize \in Nat
      BY RegistryAssumption DEF IInv, RegistryTypeOK
    <3> QED BY <2>5, <2>6, <2>8, <3>1, <3>2
  <2> QED BY <2>7, <2>8
<1>10. TwinsOK'
  BY DEF IInv, WriteEntry, TwinsOK, Goto, NewEntry, Increment, Unlock,
         channels, own, history, Alive
<1>11. OwnOK'
  <2>1. reg[p] \in Procs /\ found[p] \in Slots /\ slot[p] = 0
    BY DEF IInv, RegistryTypeOK, PlacesOK, WriteEntry, Holding, Enrolled
  <2>2. reg' = reg /\ hasty' = hasty /\ slot' = [slot EXCEPT ![p] = found[p]]
        /\ id' = id /\ listed' = listed /\ twins' = twins
        /\ pc' = [pc EXCEPT ![p] = "live"] /\ pc[p] = "store"
        /\ entries' = [entries EXCEPT ![reg[p]][found[p]] = NewEntry(p)]
    BY DEF WriteEntry, Goto, own, history
  <2>3. \A r \in Procs : \A s \in Slots :
          ~(r = reg[p] /\ s = found[p]) => entries'[r][s] = entries[r][s]
    BY <2>1, <2>2 DEF IInv, RegistryTypeOK
  <2>4. entries'[reg[p]][found[p]] = NewEntry(p)
    BY <2>1, <2>2 DEF IInv, RegistryTypeOK
  <2>5. slot'[p] = found[p] /\ \A q \in Procs \ {p} : slot'[q] = slot[q]
    BY <2>2 DEF IInv, RegistryTypeOK
  <2> SUFFICES ASSUME ~twins, NEW q \in Procs, pc'[q] \in Enrolled,
                      reg[q] \notin hasty
               PROVE  /\ entries'[reg[q]][slot'[q]].inst = id[q]
                      /\ entries'[reg[q]][slot'[q]].status = "Active"
                      /\ entries'[reg[q]][slot'[q]].symbols = listed[q]
                      /\ pc'[q] = "live" => entries'[reg[q]][slot'[q]].healthy
    BY <2>2 DEF OwnOK
  <2>6. CASE q = p BY <2>4, <2>5, <2>6 DEF NewEntry
  <2>7. CASE q # p
    <3>1. pc'[q] = pc[q] BY <2>2, <2>7 DEF IInv, RegistryTypeOK
    <3>2. reg[q] \in Procs /\ slot[q] \in Slots
      BY <3>1 DEF IInv, PlacesOK, Enrolled, Holding
    <3>3. /\ entries[reg[q]][slot[q]].inst = id[q]
          /\ entries[reg[q]][slot[q]].status = "Active"
          /\ entries[reg[q]][slot[q]].symbols = listed[q]
          /\ pc[q] = "live" => entries[reg[q]][slot[q]].healthy
      BY <3>1 DEF IInv, OwnOK
    <3>4. id[q] # id[p]
      BY <2>2, <2>7, <3>1 DEF IInv, TwinsOK, Alive, Enrolled
    <3>5. ~(reg[q] = reg[p] /\ slot[q] = found[p])
      BY <2>2, <3>3, <3>4 DEF IInv, FoundOK
    <3> QED BY <2>3, <2>5, <2>7, <3>1, <3>2, <3>3, <3>5
  <2> QED BY <2>6, <2>7
<1>12. ServedOK'
  BY DEF IInv, WriteEntry, ServedOK, Goto, NewEntry, Increment, Unlock,
         channels, own, history, Alive, Holding
<1> QED
  BY <1>1, <1>2, <1>3, <1>4, <1>5, <1>6, <1>7, <1>8, <1>9, <1>10, <1>11, <1>12
  DEF IInv

LEMMA HeartbeatStep ==
  ASSUME IInv, NEW p \in Procs, Heartbeat(p)
  PROVE  IInv'
<1> USE RegistryAssumption
<1>1. RegistryTypeOK'
  <2>1. reg[p] \in Procs /\ slot[p] \in Slots
    BY DEF IInv, PlacesOK, Heartbeat, Enrolled
  <2>2. entries' \in [Procs -> [Slots -> Entry]]
    BY <2>1, HealthType DEF IInv, Heartbeat
  <2> QED BY <2>2 DEF IInv, RegistryTypeOK, Heartbeat, channels, own, history
<1>2. PlacesOK'
  BY DEF IInv, Heartbeat, PlacesOK, channels, own, history, Before, Making,
         Holding, Enrolled
<1>3. NamesOK' BY DEF IInv, Heartbeat, NamesOK, channels, own, history, Before
<1>4. QuietOK'
  BY DEF IInv, Heartbeat, QuietOK, channels, own, history, Before, Making,
         EmptyEntry, RegistryTypeOK
<1>5. LockOK' BY DEF IInv, Heartbeat, LockOK, channels, own, history, Holding
<1>6. FoundOK' BY DEF IInv, Heartbeat, FoundOK, channels, own, history
<1>7. OneSlotPerInstance'
  BY DEF IInv, Heartbeat, OneSlotPerInstance, channels, own, history
<1>8. HolderOK' BY DEF IInv, Heartbeat, HolderOK, channels, own, history
<1>9. CountOK'
  BY DEF IInv, Heartbeat, CountOK, channels, own, history, Registered
<1>10. TwinsOK' BY DEF IInv, Heartbeat, TwinsOK, channels, own, history, Alive
<1>11. OwnOK' BY DEF IInv, Heartbeat, OwnOK, channels, own, history, Enrolled
<1>12. ServedOK'
  BY DEF IInv, Heartbeat, ServedOK, channels, own, history, Alive, Holding
<1> QED
  BY <1>1, <1>2, <1>3, <1>4, <1>5, <1>6, <1>7, <1>8, <1>9, <1>10, <1>11, <1>12
  DEF IInv

LEMMA StaleStep ==
  ASSUME IInv, NEW r \in Procs, NEW s \in Slots, Stale(r, s)
  PROVE  IInv'
<1> USE RegistryAssumption
<1>1. RegistryTypeOK'
  <2>1. r \in Procs BY DEF IInv, RegistryTypeOK, Stale
  <2>2. entries' \in [Procs -> [Slots -> Entry]]
    BY <2>1, HealthType DEF IInv, Stale
  <2> QED BY <2>2 DEF IInv, RegistryTypeOK, Stale, channels, own, history
<1>2. PlacesOK'
  BY DEF IInv, Stale, PlacesOK, channels, own, history, Before, Making,
         Holding, Enrolled
<1>3. NamesOK' BY DEF IInv, Stale, NamesOK, channels, own, history, Before
<1>4. QuietOK'
  <2>1. \A c \in Procs \ hasty : pc[c] \in Before \cup Making => c # r
    BY DEF IInv, QuietOK, Stale, EmptyEntry
  <2>2. \A c \in Procs : c # r => entries'[c] = entries[c]
    BY DEF IInv, RegistryTypeOK, Stale
  <2> QED BY <2>1, <2>2 DEF IInv, QuietOK, Stale, history
<1>5. LockOK' BY DEF IInv, Stale, LockOK, channels, own, history, Holding
<1>6. FoundOK' BY DEF IInv, Stale, FoundOK, channels, own, history
<1>7. OneSlotPerInstance'
  BY DEF IInv, Stale, OneSlotPerInstance, channels, own, history
<1>8. HolderOK' BY DEF IInv, Stale, HolderOK, channels, own, history
<1>9. CountOK' BY DEF IInv, Stale, CountOK, channels, own, history, Registered
<1>10. TwinsOK' BY DEF IInv, Stale, TwinsOK, channels, own, history, Alive
<1>11. OwnOK' BY DEF IInv, Stale, OwnOK, channels, own, history, Enrolled
<1>12. ServedOK'
  BY DEF IInv, Stale, ServedOK, channels, own, history, Alive, Holding
<1> QED
  BY <1>1, <1>2, <1>3, <1>4, <1>5, <1>6, <1>7, <1>8, <1>9, <1>10, <1>11, <1>12
  DEF IInv

LEMMA ShutdownStep ==
  ASSUME IInv, NEW p \in Procs, Shutdown(p)
  PROVE  IInv'
<1> USE RegistryAssumption
<1>1. RegistryTypeOK'
  BY DEF IInv, Shutdown, RegistryTypeOK, Goto, memory, channels, own, history,
         Labels, Entry
<1>2. PlacesOK'
  BY DEF IInv, Shutdown, PlacesOK, Goto, memory, channels, own, history,
         Before, Making, Holding, Enrolled, RegistryTypeOK
<1>3. NamesOK'
  BY DEF IInv, Shutdown, NamesOK, Goto, memory, channels, own, history,
         Before, RegistryTypeOK
<1>4. QuietOK'
  BY DEF IInv, Shutdown, QuietOK, Goto, memory, channels, own, history,
         Before, Making, EmptyEntry, RegistryTypeOK
<1>5. LockOK'
  BY DEF IInv, Shutdown, LockOK, Goto, memory, channels, own, history,
         Holding, RegistryTypeOK
<1>6. FoundOK'
  BY DEF IInv, Shutdown, FoundOK, Goto, memory, channels, own, history,
         RegistryTypeOK
<1>7. OneSlotPerInstance'
  BY DEF IInv, Shutdown, OneSlotPerInstance, Goto, memory, channels, own,
         history
<1>8. HolderOK'
  BY DEF IInv, Shutdown, HolderOK, Goto, memory, channels, own, history
<1>9. CountOK'
  BY DEF IInv, Shutdown, CountOK, Goto, memory, channels, own, history,
         Registered
<1>10. TwinsOK'
  <2>1. \A q \in Procs : Alive(q)' => Alive(q)
    BY DEF IInv, RegistryTypeOK, Shutdown, Goto, Alive
  <2>2. id' = id /\ twins' = twins BY DEF Shutdown, own, history
  <2> QED BY <2>1, <2>2 DEF IInv, TwinsOK
<1>11. OwnOK'
  BY DEF IInv, Shutdown, OwnOK, Goto, memory, channels, own, history,
         Enrolled, RegistryTypeOK
<1>12. ServedOK'
  BY DEF IInv, Shutdown, ServedOK, Goto, memory, channels, own, history,
         Alive, Holding, RegistryTypeOK
<1> QED
  BY <1>1, <1>2, <1>3, <1>4, <1>5, <1>6, <1>7, <1>8, <1>9, <1>10, <1>11, <1>12
  DEF IInv

LEMMA DeregisterStep ==
  ASSUME IInv, NEW p \in Procs, Deregister(p)
  PROVE  IInv'
<1> USE RegistryAssumption
<1>1. RegistryTypeOK'
  <2>1. reg[p] \in Procs /\ slot[p] \in Slots
    BY DEF IInv, PlacesOK, Deregister, Enrolled, Holding
  <2>2. entries[reg[p]] \in [Slots -> Entry] /\ entries[reg[p]][slot[p]] \in Entry
    BY <2>1 DEF IInv, RegistryTypeOK
  <2>3. [entries[reg[p]][slot[p]] EXCEPT !.status = "Inactive"] \in Entry
    BY <2>2 DEF Entry
  <2>4. entries' = [entries EXCEPT ![reg[p]][slot[p]] =
                      [entries[reg[p]][slot[p]] EXCEPT !.status = "Inactive"]]
    BY DEF Deregister
  <2>5. entries' \in [Procs -> [Slots -> Entry]]
    BY <2>1, <2>3, <2>4, SlotType DEF IInv
  <2>6. pc' \in [Procs -> Labels] /\ slot' \in [Procs -> Slots \cup {0}]
        /\ lock' \in [Procs -> Procs \cup {None}]
    BY <2>1 DEF IInv, RegistryTypeOK, Deregister, Goto, Labels, Unlock
  <2>7. count' \in [Procs -> 0 .. CountSize - 1]
    BY <2>1, RegistryAssumption DEF IInv, RegistryTypeOK, Deregister, Decrement
  <2> QED BY <2>5, <2>6, <2>7 DEF IInv, RegistryTypeOK, Deregister, channels, own, history
<1>2. PlacesOK'
  BY DEF IInv, Deregister, PlacesOK, Goto, Decrement, Unlock, channels, own,
         history, Before, Making, Holding, Enrolled, RegistryTypeOK
<1>3. NamesOK'
  BY DEF IInv, Deregister, NamesOK, Goto, Decrement, Unlock, channels, own,
         history, Before
<1>4. QuietOK'
  BY DEF IInv, Deregister, QuietOK, Goto, Decrement, Unlock, channels, own,
         history, Before, Making, EmptyEntry, RegistryTypeOK
<1>5. LockOK'
  BY DEF IInv, Deregister, LockOK, Goto, Decrement, Unlock, channels, own,
         history, Holding, RegistryTypeOK
<1>6. FoundOK'
  BY DEF IInv, Deregister, FoundOK, Goto, Decrement, Unlock, channels, own,
         history
<1>7. OneSlotPerInstance'
  BY DEF IInv, Deregister, OneSlotPerInstance, Goto, Decrement, Unlock,
         channels, own, history
<1>8. HolderOK'
  BY DEF IInv, Deregister, HolderOK, Goto, Decrement, Unlock, channels, own,
         history, RegistryTypeOK
<1>9. CountOK'
  <2> PICK m : m = reg[p]
    OBVIOUS
  <2>1. reg[p] \in Procs /\ slot[p] \in Slots /\ slot[p] # 0
    BY DEF IInv, RegistryTypeOK, PlacesOK, Deregister, Holding, Enrolled, Slots
  <2>2. reg' = reg /\ hasty' = hasty /\ slot' = [slot EXCEPT ![p] = 0]
    BY DEF Deregister, history
  <2>3. Registered(m)' = Registered(m) \ {p} /\ p \in Registered(m)
    BY <2>1, <2>2 DEF IInv, RegistryTypeOK, Registered
  <2>4. \A r : r # m => Registered(r)' = Registered(r)
    BY <2>1, <2>2 DEF IInv, RegistryTypeOK, Registered
  <2>5. /\ Cardinality(Registered(m)') = Cardinality(Registered(m)) - 1
        /\ Cardinality(Registered(m)') \in Nat
    BY <2>3, RegisteredFinite, FS_RemoveElement, FS_CardinalityType
  <2> SUFFICES ASSUME NEW r \in Procs \ hasty
               PROVE  count'[r] = Cardinality(Registered(r)')
    BY <2>2 DEF CountOK
  <2>6. count[r] = Cardinality(Registered(r)) BY DEF IInv, CountOK
  <2>7. CASE r # m
    BY <2>4, <2>6, <2>7 DEF IInv, RegistryTypeOK, Deregister, Decrement
  <2>8. CASE r = m
    <3>1. count'[r] = IF count[r] = 0 THEN CountSize - 1 ELSE count[r] - 1
      BY <2>8 DEF IInv, RegistryTypeOK, Deregister, Decrement
    <3>2. count[r] \in 0 .. CountSize - 1 /\ CountSize \in Nat
      BY RegistryAssumption DEF IInv, RegistryTypeOK
    <3> QED BY <2>5, <2>6, <2>8, <3>1, <3>2
  <2> QED BY <2>7, <2>8
<1>10. TwinsOK'
  BY DEF IInv, Deregister, TwinsOK, Goto, Decrement, Unlock, channels, own,
         history, Alive
<1>11. OwnOK'
  <2>1. reg[p] \in Procs /\ slot[p] \in Slots
    BY DEF IInv, PlacesOK, Deregister, Enrolled, Holding
  <2>2. reg' = reg /\ hasty' = hasty /\ slot' = [slot EXCEPT ![p] = 0]
        /\ id' = id /\ listed' = listed /\ twins' = twins
        /\ pc' = [pc EXCEPT ![p] = "leave"] /\ pc[p] = "clear"
        /\ entries' = [entries EXCEPT ![reg[p]][slot[p]].status = "Inactive"]
    BY DEF Deregister, Goto, own, history
  <2>3. \A r \in Procs : \A s \in Slots :
          ~(r = reg[p] /\ s = slot[p]) => entries'[r][s] = entries[r][s]
    BY <2>1, <2>2 DEF IInv, RegistryTypeOK
  <2> SUFFICES ASSUME ~twins, NEW q \in Procs, pc'[q] \in Enrolled,
                      reg[q] \notin hasty
               PROVE  /\ entries'[reg[q]][slot'[q]].inst = id[q]
                      /\ entries'[reg[q]][slot'[q]].status = "Active"
                      /\ entries'[reg[q]][slot'[q]].symbols = listed[q]
                      /\ pc'[q] = "live" => entries'[reg[q]][slot'[q]].healthy
    BY <2>2 DEF OwnOK
  <2>4. q # p /\ pc'[q] = pc[q] /\ slot'[q] = slot[q]
    BY <2>2 DEF IInv, RegistryTypeOK, Enrolled
  <2>5. reg[q] \in Procs /\ slot[q] \in Slots
    BY <2>4 DEF IInv, PlacesOK, Enrolled, Holding
  <2>6. /\ entries[reg[q]][slot[q]].inst = id[q]
        /\ entries[reg[q]][slot[q]].status = "Active"
        /\ entries[reg[q]][slot[q]].symbols = listed[q]
        /\ pc[q] = "live" => entries[reg[q]][slot[q]].healthy
    BY <2>4 DEF IInv, OwnOK
  <2>7. id[q] # id[p]
    BY <2>2, <2>4 DEF IInv, TwinsOK, Alive, Enrolled
  <2>8. ~(reg[q] = reg[p] /\ slot[q] = slot[p])
    BY <2>2, <2>6, <2>7 DEF IInv, OwnOK, Enrolled
  <2> QED BY <2>3, <2>4, <2>5, <2>6, <2>8
<1>12. ServedOK'
  BY DEF IInv, Deregister, ServedOK, Goto, Decrement, Unlock, channels, own,
         history, Alive, Holding
<1> QED
  BY <1>1, <1>2, <1>3, <1>4, <1>5, <1>6, <1>7, <1>8, <1>9, <1>10, <1>11, <1>12
  DEF IInv

LEMMA LeaveStep ==
  ASSUME IInv, NEW p \in Procs, Leave(p)
  PROVE  IInv'
<1> USE RegistryAssumption
<1>1. RegistryTypeOK'
  <2>1. id[p] \in Instances BY DEF IInv, PlacesOK, Leave
  <2>2. chan' \in [Instances -> [Symbols -> Procs \cup {None}]]
    <3>1. chan \in [Instances -> [Symbols -> Procs \cup {None}]]
      BY DEF IInv, RegistryTypeOK
    <3>2. [x \in Symbols |-> IF x \in ipc[p] THEN None ELSE chan[id[p]][x]]
            \in [Symbols -> Procs \cup {None}]
      BY <2>1, <3>1
    <3> QED BY <2>1, <3>1, <3>2 DEF Leave
  <2>3. name' \in Procs \cup {None} /\ raced' \subseteq Procs
    BY DEF IInv, RegistryTypeOK, Leave
  <2>4. pc' \in [Procs -> Labels] BY DEF IInv, RegistryTypeOK, Leave, Goto, Labels
  <2> QED BY <2>2, <2>3, <2>4 DEF IInv, RegistryTypeOK, Leave, own
<1>2. PlacesOK'
  BY DEF IInv, Leave, PlacesOK, Goto, own, Before, Making, Holding, Enrolled
<1>3. NamesOK' BY DEF IInv, Leave, NamesOK, Goto, own, Before
<1>4. QuietOK'
  BY DEF IInv, Leave, QuietOK, Goto, own, Before, Making, EmptyEntry,
         RegistryTypeOK
<1>5. LockOK' BY DEF IInv, Leave, LockOK, Goto, own, Holding
<1>6. FoundOK' BY DEF IInv, Leave, FoundOK, Goto, own
<1>7. OneSlotPerInstance' BY DEF IInv, Leave, OneSlotPerInstance, Goto, own
<1>8. HolderOK' BY DEF IInv, Leave, HolderOK, Goto, own
<1>9. CountOK' BY DEF IInv, Leave, CountOK, Goto, own, Registered
<1>10. TwinsOK' BY DEF IInv, Leave, TwinsOK, Goto, own, Alive
<1>11. OwnOK' BY DEF IInv, Leave, OwnOK, Goto, own, Enrolled
<1>12. ServedOK'
  <2>1. pc' = [pc EXCEPT ![p] = "gone"] /\ pc[p] = "leave" /\ id' = id
        /\ ipc' = ipc /\ listed' = listed /\ twins' = twins
    BY DEF Leave, Goto, own
  <2>2. \A i \in Instances : i # id[p] => chan'[i] = chan[i]
    BY DEF IInv, RegistryTypeOK, Leave
  <2>3. \A q \in Procs : Alive(q)' => Alive(q) /\ q # p /\ pc'[q] = pc[q]
    BY <2>1 DEF IInv, RegistryTypeOK, Alive
  <2>4. \A q \in Procs : Alive(q) => id[q] \in Instances
    BY DEF IInv, PlacesOK, Alive
  <2>5. \A q \in Procs : Alive(q)' /\ ~twins => id[q] # id[p]
    BY <2>1, <2>3 DEF IInv, TwinsOK, Alive
  <2> QED BY <2>1, <2>2, <2>3, <2>4, <2>5 DEF IInv, ServedOK
<1> QED
  BY <1>1, <1>2, <1>3, <1>4, <1>5, <1>6, <1>7, <1>8, <1>9, <1>10, <1>11, <1>12
  DEF IInv

LEMMA CrashStep ==
  ASSUME IInv, NEW p \in Procs, Crash(p)
  PROVE  IInv'
<1> USE RegistryAssumption
<1>1. RegistryTypeOK'
  BY DEF IInv, Crash, RegistryTypeOK, Alive, Goto, memory, history, Labels,
         Entry
<1>2. PlacesOK'
  BY DEF IInv, Crash, PlacesOK, Alive, Goto, memory, history, Before, Making,
         Holding, Enrolled, RegistryTypeOK
<1>3. NamesOK'
  BY DEF IInv, Crash, NamesOK, Alive, Goto, memory, history, Before
<1>4. QuietOK'
  BY DEF IInv, Crash, QuietOK, Alive, Goto, memory, history, Before, Making,
         EmptyEntry, RegistryTypeOK
<1>5. LockOK' BY DEF IInv, Crash, LockOK, Alive, Goto, memory, history, Holding
<1>6. FoundOK'
  BY DEF IInv, Crash, FoundOK, Alive, Goto, memory, history, RegistryTypeOK
<1>7. OneSlotPerInstance'
  BY DEF IInv, Crash, OneSlotPerInstance, Alive, Goto, memory, history
<1>8. HolderOK' BY DEF IInv, Crash, HolderOK, Alive, Goto, memory, history
<1>9. CountOK'
  BY DEF IInv, Crash, CountOK, Alive, Goto, memory, history, Registered
<1>10. TwinsOK' BY DEF IInv, Crash, TwinsOK, Alive, Goto, memory, history
<1>11. OwnOK'
  BY DEF IInv, Crash, OwnOK, Alive, Goto, memory, history, Enrolled,
         RegistryTypeOK
<1>12. ServedOK'
  BY DEF IInv, Crash, ServedOK, Alive, Goto, memory, history, Holding,
         RegistryTypeOK
<1> QED
  BY <1>1, <1>2, <1>3, <1>4, <1>5, <1>6, <1>7, <1>8, <1>9, <1>10, <1>11, <1>12
  DEF IInv

-----------------------------------------------------------------------------
(* The initial states and the steps.                                       *)

LEMMA InitStep ==
  ASSUME Init
  PROVE  IInv
<1> USE RegistryAssumption DEF Init
<1>1. EmptyEntry \in Entry BY DEF EmptyEntry, Entry
<1>2. CountSize - 1 \in Nat BY FS_CardinalityType
<1>3. RegistryTypeOK
  <2>1. twins \in BOOLEAN BY Zenon
  <2>2. count \in [Procs -> 0 .. CountSize - 1] BY <1>2
  <2> QED BY <1>1, <2>1, <2>2 DEF RegistryTypeOK, Labels
<1>4. PlacesOK
  BY DEF PlacesOK, Before, Making, Holding, Enrolled
<1>5. NamesOK BY DEF NamesOK
<1>6. QuietOK BY DEF QuietOK
<1>7. LockOK BY DEF LockOK, Holding
<1>8. FoundOK BY DEF FoundOK
<1>9. OneSlotPerInstance BY DEF OneSlotPerInstance, EmptyEntry
<1>10. HolderOK BY DEF HolderOK, EmptyEntry
<1>11. CountOK
  <2>1. \A r \in Procs : Registered(r) = {} BY DEF Registered
  <2> QED BY <2>1, FS_EmptySet DEF CountOK
<1>12. TwinsOK BY DEF TwinsOK, Alive
<1>13. OwnOK BY DEF OwnOK, Enrolled
<1>14. ServedOK BY DEF ServedOK, Alive
<1> QED BY <1>3, <1>4, <1>5, <1>6, <1>7, <1>8, <1>9, <1>10, <1>11, <1>12,
           <1>13, <1>14 DEF IInv

LEMMA StutterStep ==
  ASSUME IInv, UNCHANGED rvars
  PROVE  IInv'
<1> USE DEF rvars, memory, channels, own, history
<1>1. RegistryTypeOK' BY DEF IInv, RegistryTypeOK
<1>2. PlacesOK' /\ NamesOK' BY DEF IInv, PlacesOK, NamesOK
<1>3. QuietOK' /\ LockOK' /\ FoundOK' BY DEF IInv, QuietOK, LockOK, FoundOK
<1>4. OneSlotPerInstance' /\ HolderOK'
  BY DEF IInv, OneSlotPerInstance, HolderOK
<1>5. CountOK' BY DEF IInv, CountOK, Registered
<1>6. TwinsOK' /\ ServedOK' BY DEF IInv, TwinsOK, ServedOK, Alive
<1>7. OwnOK' BY DEF IInv, OwnOK
<1> QED BY <1>1, <1>2, <1>3, <1>4, <1>5, <1>6, <1>7 DEF IInv

LEMMA NextStep ==
  ASSUME IInv, [Next]_rvars
  PROVE  IInv'
<1>1. ASSUME NEW p \in Procs, Step(p)
      PROVE  IInv'
  BY <1>1, OpenStep, UnlinkStep, CreateStep, ReopenStep, InitMagicStep,
     InitLockStep, InitEntriesStep, LockStep, FindSlotStep, RegistryFullStep,
     WriteEntryStep, DeregisterStep, LeaveStep DEF Step
<1>2. ASSUME NEW p \in Procs,
             \/ Start(p) \/ Heartbeat(p) \/ Shutdown(p) \/ Crash(p)
             \/ \E x \in Symbols : Subscribe(p, x)
      PROVE  IInv'
  BY <1>2, StartStep, HeartbeatStep, ShutdownStep, CrashStep, SubscribeStep
<1>3. ASSUME NEW r \in Procs, NEW s \in Slots, Stale(r, s)
      PROVE  IInv'
  BY <1>3, StaleStep
<1>4. CASE UNCHANGED rvars BY <1>4, StutterStep
<1> QED BY <1>1, <1>2, <1>3, <1>4 DEF Next

LEMMA Invariance == Spec => []IInv
<1>1. Init => IInv BY InitStep
<1>2. IInv /\ [Next]_rvars => IInv' BY NextStep
<1> QED BY <1>1, <1>2, PTL DEF Spec

-----------------------------------------------------------------------------
(* What the invariant implies.                                             *)

\* Each active entry stands for a registered process of its own, so there are
\* no more of them than registrations.
LEMMA ActiveBound ==
  ASSUME IInv, NEW r \in Procs \ hasty
  PROVE  Cardinality(ActiveEntries(r)) <= Cardinality(Registered(r))
<1> DEFINE f == [p \in Registered(r) |-> slot[p]]
           Held == {f[p] : p \in Registered(r)}
<1>1. IsFiniteSet(Registered(r)) /\ Cardinality(Registered(r)) \in Nat
  BY RegisteredFinite
<1>2. IsFiniteSet(Held) /\ Cardinality(Held) <= Cardinality(Registered(r))
  <2>1. f \in Surjection(Registered(r), Held)
    BY DEF Surjection
  <2> QED BY <1>1, <2>1, FS_Surjection
<1>3. ActiveEntries(r) \subseteq Held
  <2> SUFFICES ASSUME NEW s \in Slots, entries[r][s].status = "Active"
               PROVE  s \in Held
    BY DEF ActiveEntries
  <2>1. PICK p \in Procs : reg[p] = r /\ slot[p] = s
    BY DEF IInv, HolderOK
  <2>2. s # 0 BY DEF Slots
  <2>3. p \in Registered(r) BY <2>1, <2>2 DEF Registered
  <2> QED BY <2>1, <2>3
<1>4. IsFiniteSet(ActiveEntries(r))
      /\ Cardinality(ActiveEntries(r)) <= Cardinality(Held)
  BY <1>2, <1>3, FS_Subset
<1> HIDE DEF f, Held
<1>5. Cardinality(ActiveEntries(r)) \in Nat /\ Cardinality(Held) \in Nat
  BY <1>2, <1>4, FS_CardinalityType
<1> QED BY <1>1, <1>2, <1>4, <1>5

\* Every variable keeps its type: in particular found and slot are slots the
\* array has, and the counter stays within its width.
THEOREM RegistryTypeCorrect == Spec => []RegistryTypeOK
<1>1. IInv => RegistryTypeOK BY DEF IInv
<1> QED BY <1>1, Invariance, PTL

\* Whatever processes came, went or died, an instance has one slot: register
\* looks for the instance's slot and takes a new one only when there is none,
\* under the lock, and nobody removes an instance from a slot.
THEOREM OneSlotAlways == Spec => []OneSlotPerInstance
<1>1. IInv => OneSlotPerInstance BY DEF IInv
<1> QED BY <1>1, Invariance, PTL

\* No active entry is ever missing from active_count: behind each stands a
\* process that has registered and not deregistered, and no two entries have the
\* same one. And each process is counted once at most.
THEOREM ActiveAlwaysCounted == Spec => []ActiveEntriesCounted
<1>1. ASSUME IInv, NEW r \in Procs \ hasty
      PROVE  count[r] <= Cardinality(Openers(r))
  <2>1. IsFiniteSet(Openers(r)) /\ Registered(r) \subseteq Openers(r)
    BY RegistryAssumption, FS_Subset DEF Openers, Registered
  <2>2. Cardinality(Registered(r)) <= Cardinality(Openers(r))
    BY <2>1, FS_Subset
  <2> QED BY <1>1, <2>2 DEF IInv, CountOK
<1>2. IInv => ActiveEntriesCounted
  BY <1>1, ActiveBound DEF IInv, CountOK, ActiveEntriesCounted
<1> QED BY <1>2, Invariance, PTL

\* What active_count is instead of the "Number of active entries": the number of
\* processes that have registered and not deregistered, the dead and those whose
\* entry another process of the same instance has overwritten included.
CountIsRegistrations ==
  \A r \in Procs \ hasty : count[r] = Cardinality(Registered(r))

\* register adds one whichever slot it writes, deregister takes one away, and
\* nothing else touches the counter, so that it never wraps.
THEOREM CountAlways == Spec => []CountIsRegistrations
<1>1. IInv => CountIsRegistrations
  BY DEF IInv, CountOK, CountIsRegistrations
<1> QED BY <1>1, Invariance, PTL

\* Without two processes of one instance at the same time, the entry of a live
\* process is the one it wrote.
THEOREM SlotStaysOwnAlways == Spec => []SlotStaysOwn
<1>1. IInv => SlotStaysOwn
  <2> SUFFICES ASSUME IInv, ~twins, NEW p \in Procs, pc[p] = "live",
                      reg[p] \notin hasty
               PROVE  Book(p)[slot[p]] = NewEntry(p)
    BY DEF SlotStaysOwn
  <2>1. reg[p] \in Procs /\ slot[p] \in Slots
    BY DEF IInv, PlacesOK, Enrolled
  <2>2. entries[reg[p]][slot[p]] \in Entry BY <2>1 DEF IInv, RegistryTypeOK
  <2>3. /\ entries[reg[p]][slot[p]].inst = id[p]
        /\ entries[reg[p]][slot[p]].status = "Active"
        /\ entries[reg[p]][slot[p]].symbols = listed[p]
        /\ entries[reg[p]][slot[p]].healthy
    BY DEF IInv, OwnOK, Enrolled
  <2>4. entries[reg[p]][slot[p]].healthy = TRUE BY <2>2, <2>3 DEF Entry
  <2> QED BY <2>2, <2>3, <2>4 DEF Entry, Book, NewEntry
<1> QED BY <1>1, Invariance, PTL

\* Without two processes of one instance at the same time, every symbol of a
\* live process's entry names the channel the process publishes it on.
THEOREM FoundIsServedAlways == Spec => []FoundIsServed
<1>1. IInv => FoundIsServed
  BY DEF IInv, FoundIsServed, OwnOK, ServedOK, Book, Enrolled, Alive
<1> QED BY <1>1, Invariance, PTL

\* A registered process is in the segment that has the registry's name, or in
\* one that lost the name to another creation or to its creator's exit.
THEOREM FoundByNameAlways == Spec => []FoundByName
<1>1. IInv => FoundByName
  BY RegistryAssumption DEF IInv, FoundByName, NamesOK, PlacesOK
<1> QED BY <1>1, Invariance, PTL

=============================================================================
