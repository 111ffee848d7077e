----------------------------- MODULE EventBus ------------------------------
(***************************************************************************)
(* The in-process event bus of crates/ptr-events (bus.rs, policy.rs):      *)
(* bounded by what its slowest consumer has not acknowledged, with         *)
(* acknowledged history kept by a retention policy and, when the telemetry *)
(* class says so, eviction of unacknowledged telemetry.                    *)
(*                                                                         *)
(* The bus has one owner (&mut self), so every call is one action.  Topics,*)
(* keys and payloads are left out: a record is its class, tick and size.   *)
(* The queue is the function from the offsets it holds to their records:   *)
(* offsets only grow, so its order is theirs.                              *)
(***************************************************************************)
EXTENDS EventPolicy, Sequences, FiniteSetsExt

CONSTANTS
    Sizes,             \* sizes of the records offered
    BusCapacity,       \* BusConfig.capacity_records
    BusCapacityBytes,  \* BusConfig.capacity_bytes
    KeepRecords,       \* RetentionPolicy.max_records
    KeepBytes,         \* RetentionPolicy.max_bytes
    KeepTicks,         \* RetentionPolicy.max_age_ticks
    Drops,             \* the telemetry policy is DropOldestTelemetry
    MaxOffset          \* bound on published records

ASSUME BusAssumption ==
    /\ BusCapacity \in Nat \ {0} /\ Sizes \subseteq Nat \ {0}
    /\ {BusCapacityBytes, KeepRecords, KeepBytes, KeepTicks} \subseteq Limit
    /\ KeepRecords # NoLimit \/ KeepBytes # NoLimit
    /\ Drops \in BOOLEAN /\ MaxOffset \in Nat /\ MaxTick \in Nat

VARIABLES
    busRecords,   \* InMemoryBus.records, by offset
    busNext,      \* InMemoryBus.next, the offset the next record gets
    busLowWater,  \* InMemoryBus.low_water
    busCommitted, \* InMemoryBus.committed, a function on the registered consumers
    busTick,      \* InMemoryBus.tick
    busBytes,     \* InMemoryBus.retained_bytes
    busDropped,   \* InMemoryBus.dropped
    busClass      \* history: the class of every record ever published

busVars == <<busRecords, busNext, busLowWater, busCommitted, busTick, busBytes,
             busDropped, busClass>>

Class == {"Projection", "Telemetry"}
BusRecord == [class : Class, tick : 0..MaxTick, size : Sizes]

BusEnd == busNext - 1
Bytes(recs) == MapThenSumSet(LAMBDA o : recs[o].size, DOMAIN recs)

\* The bus accounts for what it holds: its counters match its records, nothing at
\* or below the low-water mark is retained, and a record keeps its class.
BusTypeOK ==
    /\ busNext \in 1..MaxOffset + 1 /\ busTick \in 0..MaxTick
    /\ busClass \in Seq(Class) /\ Len(busClass) = BusEnd
    /\ busLowWater \in 0..BusEnd
    /\ busRecords \in [DOMAIN busRecords -> BusRecord]
    /\ \A o \in DOMAIN busRecords : o \in busLowWater + 1..BusEnd /\ busRecords[o].class = busClass[o]
    /\ busBytes = Bytes(busRecords)
    /\ DOMAIN busCommitted \subseteq Consumer
    /\ busCommitted \in [DOMAIN busCommitted -> 0..BusEnd]
    /\ busDropped \in [DOMAIN busCommitted -> Nat]

BusInit ==
    /\ busRecords = <<>> /\ busNext = 1 /\ busLowWater = 0 /\ busTick = 0
    /\ busCommitted = <<>> /\ busDropped = <<>> /\ busBytes = 0 /\ busClass = <<>>

-----------------------------------------------------------------------------
(* What the slowest consumer leaves *)

\* No consumer: everything published is acknowledged history.
FloorOf(com) == IF DOMAIN com = {} THEN BusEnd ELSE Min({com[c] : c \in DOMAIN com})

HistoryOf(recs, com) == {o \in DOMAIN recs : o <= FloorOf(com)}
Without(recs, offsets) == Restrict(recs, DOMAIN recs \ offsets)
Unacked(recs, com) == Without(recs, HistoryOf(recs, com))

\* InMemoryBus::compact: history goes from the oldest end while what is left of it
\* exceeds a limit of the retention policy, and never past the floor.
HistoryExpired(recs, history, now) ==
    \/ Exceeds(Cardinality(history), KeepRecords)
    \/ Exceeds(Bytes(Restrict(recs, history)), KeepBytes)
    \/ Exceeds(now - recs[Min(history)].tick, KeepTicks)

Compacted(recs, com, now) ==
    LET history == HistoryOf(recs, com)
        From(first) == {o \in history : o >= first}
    IN Without(recs, {o \in history :
                        \A first \in history : first <= o => HistoryExpired(recs, From(first), now)})

\* refresh_low_water
LowWaterOf(recs, n) == IF DOMAIN recs = {} THEN n - 1 ELSE Min(DOMAIN recs) - 1

Retain(recs, n) ==
    /\ busRecords' = recs
    /\ busLowWater' = LowWaterOf(recs, n)
    /\ busBytes' = Bytes(recs)

-----------------------------------------------------------------------------
(* Consumers *)

RegisterAdmits(from) == from <= BusEnd /\ from >= busLowWater

\* register: a known consumer is moved, also backwards, down to the low-water mark.
Register(c, from) ==
    /\ RegisterAdmits(from)
    /\ busCommitted' = [d \in DOMAIN busCommitted \cup {c} |->
                            IF d = c THEN from ELSE busCommitted[d]]
    /\ busDropped' = [d \in DOMAIN busCommitted \cup {c} |->
                          IF d \in DOMAIN busDropped THEN busDropped[d] ELSE 0]
    /\ UNCHANGED <<busRecords, busNext, busLowWater, busTick, busBytes, busClass>>

Advanced(com, c, upto) == [com EXCEPT ![c] = IF upto > @ THEN upto ELSE @]

\* commit: monotone, then history is compacted.
Commit(c, upto) ==
    /\ c \in DOMAIN busCommitted /\ upto <= BusEnd
    /\ busCommitted' = Advanced(busCommitted, c, upto)
    /\ Retain(Compacted(busRecords, busCommitted', busTick), busNext)
    /\ UNCHANGED <<busNext, busTick, busDropped, busClass>>

-----------------------------------------------------------------------------
(* publish *)

HasRoom(recs, size) ==
    LET unacked == Unacked(recs, busCommitted)
    IN /\ Cardinality(DOMAIN unacked) < BusCapacity
       /\ ~Exceeds(Bytes(unacked) + size, BusCapacityBytes)

\* Offsets of unacknowledged records the telemetry policy may evict.
EvictableAny(recs) == DOMAIN Unacked(recs, busCommitted)

Evictable(recs) == {o \in DOMAIN Unacked(recs, busCommitted) : recs[o].class = "Telemetry"}

Oldest(offsets, k) == {o \in offsets : Cardinality({p \in offsets : p < o}) < k}

\* The loop of publish: evict until there is room or nothing is left to evict.
EvictedForRoom(recs, cls, size) ==
    LET offsets == Evictable(recs)
        n == Cardinality(offsets)
        k == Min({i \in 0..n : i = n \/ HasRoom(Without(recs, Oldest(offsets, i)), size)})
    IN IF cls = "Telemetry" /\ Drops THEN Oldest(offsets, k) ELSE {}

CountDropsForAll(offsets) ==
    busDropped' = [c \in DOMAIN busDropped |-> busDropped[c] + Cardinality(offsets)]

CountDrops(offsets) ==
    busDropped' = [c \in DOMAIN busDropped |->
                       busDropped[c] + Cardinality({o \in offsets : busCommitted[c] < o})]

\* What a publish has left once it has compacted and evicted.
LeftForRoom(cls, size) ==
    LET compact == Compacted(busRecords, busCommitted, busTick)
        gone == EvictedForRoom(compact, cls, size)
    IN [records |-> Without(compact, gone), gone |-> gone]

Publish(cls, size) ==
    /\ busNext <= MaxOffset
    /\ LET left == LeftForRoom(cls, size)
           record == [class |-> cls, tick |-> busTick, size |-> size]
       IN /\ HasRoom(left.records, size)
          /\ Retain([o \in DOMAIN left.records \cup {busNext} |->
                        IF o = busNext THEN record ELSE left.records[o]], busNext + 1)
          /\ CountDrops(left.gone)
    /\ busNext' = busNext + 1 /\ busClass' = Append(busClass, cls)
    /\ UNCHANGED <<busCommitted, busTick>>

\* BusError::Full: compaction and the evictions the loop made stay.
PublishRefused(cls, size) ==
    /\ LET left == LeftForRoom(cls, size)
       IN /\ ~HasRoom(left.records, size)
          /\ Retain(left.records, busNext)
          /\ CountDrops(left.gone)
    /\ UNCHANGED <<busNext, busCommitted, busTick, busClass>>

AdvanceBusTick(now) ==
    /\ now >= busTick
    /\ busTick' = now
    /\ Retain(Compacted(busRecords, busCommitted, now), busNext)
    /\ UNCHANGED <<busNext, busCommitted, busDropped, busClass>>

-----------------------------------------------------------------------------

BusNext ==
    \/ \E c \in Consumer, o \in 0..MaxOffset : Register(c, o) \/ Commit(c, o)
    \/ \E cls \in Class, size \in Sizes : Publish(cls, size) \/ PublishRefused(cls, size)
    \/ \E now \in 0..MaxTick : AdvanceBusTick(now)

BusSpec == BusInit /\ [][BusNext]_busVars

-----------------------------------------------------------------------------
(* Properties *)

Missing(after) == {o \in after + 1..BusEnd : o \notin DOMAIN busRecords}

\* A replay from the low-water mark and a poll from any consumer's position get
\* every authoritative record after it: what they will never return is telemetry,
\* whatever was evicted or compacted meanwhile.
BusReplayIsComplete ==
    \A start \in {busLowWater} \cup {busCommitted[c] : c \in DOMAIN busCommitted} :
        \A o \in Missing(start) : busClass[o] = "Telemetry"

\* A consumer that stays registered is told of every record it will not get: the
\* evictions above its position are counted for it, however the evictions, the
\* commits and the moves of the low-water mark interleave.  A registration starts
\* from the gaps it already finds.
BusGapsAreCounted ==
    [][\A c \in DOMAIN busCommitted \cap DOMAIN busCommitted' :
         busCommitted'[c] >= busCommitted[c] =>
             busDropped'[c] - busDropped[c] =
                 Cardinality(Missing(busCommitted[c])' \ Missing(busCommitted[c]))]_busVars
=============================================================================
