---------------------------- MODULE EventProofs ----------------------------
(***************************************************************************)
(* Proofs about the two buses of crates/ptr-events.                        *)
(***************************************************************************)
EXTENDS EventBus, FileEventLog, FiniteSetTheorems, SequenceTheorems, WellFoundedInduction, TLAPS

-----------------------------------------------------------------------------
(* Minima of sets of naturals *)

\* A nonempty set of naturals has a least element, and Min is it.
LEMMA NatMin ==
    ASSUME NEW S, S \subseteq Nat, S # {}
    PROVE  Min(S) \in S /\ \A y \in S : Min(S) <= y
<1> DEFINE R == OpToRel(<, Nat)
<1>1. IsWellFoundedOn(R, Nat)
  BY NatLessThanWellFounded
<1>2. \A x, y \in Nat : <<y, x>> \in R <=> y < x
  BY DEF OpToRel
<1> HIDE DEF R
<1>3. PICK x \in S : \A y \in S : ~(<<y, x>> \in R)
  BY <1>1, WFMin
<1>4. ASSUME NEW y \in S PROVE x <= y
  <2>1. x \in Nat /\ y \in Nat
    OBVIOUS
  <2>2. ~(y < x)
    BY <1>2, <1>3, <2>1
  <2> QED
    BY <2>1, <2>2
<1>5. \E z \in S : \A y \in S : z <= y
  BY <1>4
<1> QED
  BY <1>5, Zenon DEF Min

-----------------------------------------------------------------------------
(* InMemoryBus *)

\* The inductive invariant of the bus: its type invariant carries the low-water
\* mark and the recorded classes, and what is missing above a start is telemetry.
BusInv == BusTypeOK /\ BusReplayIsComplete

\* The floor is at or below every registered consumer.
LEMMA FloorIsLowest ==
    ASSUME NEW com, com \in [DOMAIN com -> Nat], NEW c \in DOMAIN com
    PROVE  FloorOf(com) <= com[c] /\ FloorOf(com) \in Nat
<1> DEFINE S == {com[d] : d \in DOMAIN com}
<1>1. S \subseteq Nat /\ S # {} /\ com[c] \in S
  OBVIOUS
<1>2. Min(S) \in S /\ \A y \in S : Min(S) <= y
  BY <1>1, NatMin
<1>3. FloorOf(com) = Min(S)
  BY DEF FloorOf
<1> QED
  BY <1>1, <1>2, <1>3

\* compact keeps records as they are and drops a bottom part of the queue, at or
\* below every consumer.
LEMMA CompactedDropsBottom ==
    ASSUME NEW recs, DOMAIN recs \subseteq Nat, NEW com, FloorOf(com) \in Nat, NEW now
    PROVE  LET kept == Compacted(recs, com, now)
           IN /\ DOMAIN kept \subseteq DOMAIN recs
              /\ kept = Restrict(recs, DOMAIN kept)
              /\ \A o \in DOMAIN recs \ DOMAIN kept :
                     o <= FloorOf(com) /\ \A p \in DOMAIN kept : o < p
<1> DEFINE history == HistoryOf(recs, com)
           From(first) == {o \in history : o >= first}
           out == {o \in history : \A first \in history :
                      first <= o => HistoryExpired(recs, From(first), now)}
           kept == Compacted(recs, com, now)
<1>1. kept = Restrict(recs, DOMAIN recs \ out)
  BY DEF Compacted, Without
<1>2. DOMAIN kept = DOMAIN recs \ out /\ history \subseteq DOMAIN recs
  BY <1>1 DEF Restrict, HistoryOf
<1>3. ASSUME NEW o \in out, NEW p \in DOMAIN kept PROVE o < p
  <2>1. o \in Nat /\ p \in Nat /\ o \in history /\ o <= FloorOf(com)
    BY <1>2 DEF HistoryOf
  <2>2. CASE p \in history
    <3>1. PICK first \in history : first <= p /\ ~HistoryExpired(recs, From(first), now)
      BY <1>2, <2>2
    <3>2. ~(first <= o)
      BY <3>1, <2>1
    <3> QED
      BY <3>1, <3>2, <2>1, <1>2
  <2>3. CASE p \notin history
    <3>1. ~(p <= FloorOf(com))
      BY <1>2, <2>3 DEF HistoryOf
    <3> QED
      BY <3>1, <2>1
  <2> QED
    BY <2>2, <2>3
<1>4. \A o \in out : o <= FloorOf(com)
  BY DEF HistoryOf
<1> HIDE DEF out, kept
<1>5. \A o \in DOMAIN recs \ DOMAIN kept : o \in out
  BY <1>2
<1>6. kept = Restrict(recs, DOMAIN kept)
  BY <1>1, <1>2
<1> QED
  BY <1>2, <1>3, <1>4, <1>5, <1>6 DEF kept

\* Where a call may leave the queue, the next offset and the consumers' positions:
\* what is gone is telemetry, or lies below all that is left and at or below every
\* consumer, and no consumer starts below the low-water mark or its old position.
Leaves(recs, n, com) ==
    /\ n \in {busNext, busNext + 1}
    /\ \A o \in DOMAIN recs : o \in DOMAIN busRecords \/ (o = busNext /\ n = busNext + 1)
    /\ n = busNext + 1 => busNext \in DOMAIN recs
    /\ \A o \in DOMAIN busRecords \ DOMAIN recs :
           \/ busClass[o] = "Telemetry"
           \/ /\ \A p \in DOMAIN recs : o < p
              /\ \A c \in DOMAIN com : o <= com[c]
    /\ \A c \in DOMAIN com :
           /\ com[c] \in Nat
           /\ \/ busLowWater <= com[c]
              \/ c \in DOMAIN busCommitted /\ busCommitted[c] <= com[c]

\* The records lie between a new low-water mark and the end, and above the mark or a
\* consumer nothing but telemetry is missing.
CompleteFrom(low, recs, n, com) ==
    /\ low \in busLowWater..n - 1
    /\ \A o \in DOMAIN recs : o \in low + 1..n - 1
    /\ \A start \in {low} \cup {com[c] : c \in DOMAIN com} :
          \A o \in start + 1..n - 1 :
              o \notin DOMAIN recs => o <= BusEnd /\ busClass[o] = "Telemetry"

\* The low-water mark refreshed from what a call leaves, and every consumer, start
\* above nothing authoritative that is missing.
LEMMA KeepsComplete ==
    ASSUME BusInv, NEW recs, NEW n, NEW com, Leaves(recs, n, com)
    PROVE  CompleteFrom(LowWaterOf(recs, n), recs, n, com)
<1> USE DEF Leaves
<1> DEFINE low == LowWaterOf(recs, n)
<1>1. busNext \in Nat /\ busLowWater \in 0..busNext - 1 /\ BusEnd = busNext - 1
  BY BusAssumption DEF BusInv, BusTypeOK, BusEnd
<1>2. \A o \in DOMAIN busRecords : o \in busLowWater + 1..busNext - 1
  BY <1>1 DEF BusInv, BusTypeOK
<1>3. \A o \in DOMAIN recs : o \in busLowWater + 1..n - 1
  BY <1>1, <1>2
<1>4. /\ low \in busLowWater..n - 1
      /\ \A o \in DOMAIN recs : o \in low + 1..n - 1
      /\ DOMAIN recs = {} \/ low + 1 \in DOMAIN recs
      /\ DOMAIN recs = {} => low = n - 1
  <2>1. CASE DOMAIN recs = {}
    BY <2>1, <1>1 DEF LowWaterOf
  <2>2. CASE DOMAIN recs # {}
    <3>1. DOMAIN recs \subseteq Nat
      BY <1>1, <1>3
    <3>2. PICK m : m = Min(DOMAIN recs)
      OBVIOUS
    <3>3. m \in DOMAIN recs /\ \A y \in DOMAIN recs : m <= y
      BY <2>2, <3>1, <3>2, NatMin
    <3>4. low = m - 1
      BY <2>2, <3>2 DEF LowWaterOf
    <3> QED
      BY <1>1, <1>3, <2>2, <3>3, <3>4
  <2> QED
    BY <2>1, <2>2
<1> HIDE DEF low
<1>5. ASSUME NEW start \in {low} \cup {com[c] : c \in DOMAIN com},
             NEW o \in start + 1..n - 1, o \notin DOMAIN recs
      PROVE  o <= BusEnd /\ busClass[o] = "Telemetry"
  <2>1. start \in Nat /\ o \in Nat
    BY <1>1, <1>4
  <2>2. o \in 1..busNext - 1
    BY <1>1, <1>5, <2>1
  <2>3. CASE o \in DOMAIN busRecords
    <3>1. CASE start = low
      BY <1>1, <1>4, <1>5, <2>1, <2>2, <2>3, <3>1
    <3>2. CASE \E c \in DOMAIN com : start = com[c]
      BY <1>1, <1>5, <2>1, <2>2, <2>3, <3>2
    <3> QED
      BY <3>1, <3>2
  <2>4. CASE o \notin DOMAIN busRecords
    <3>1. PICK from \in {busLowWater} \cup {busCommitted[c] : c \in DOMAIN busCommitted} : from <= start
      <4>1. CASE start = low
        BY <1>1, <1>4, <4>1
      <4>2. CASE \E c \in DOMAIN com : start = com[c]
        BY <4>2
      <4> QED
        BY <4>1, <4>2
    <3>2. from \in Nat
      BY <1>1 DEF BusInv, BusTypeOK
    <3>3. o \in Missing(from)
      BY <1>1, <2>1, <2>2, <2>4, <3>1, <3>2 DEF Missing
    <3> QED
      BY <1>1, <2>2, <3>3 DEF BusInv, BusReplayIsComplete
  <2> QED
    BY <2>3, <2>4
<1> QED
  BY <1>4, <1>5 DEF low, CompleteFrom

\* A compaction of the queue removes nothing above a consumer and nothing above a
\* record it leaves.
LEMMA CompactionIsSafe ==
    ASSUME BusInv, NEW com, com \in [DOMAIN com -> 0..BusEnd], NEW now
    PROVE  LET kept == Compacted(busRecords, com, now)
           IN /\ DOMAIN kept \subseteq DOMAIN busRecords
              /\ \A o \in DOMAIN kept : kept[o] = busRecords[o]
              /\ \A o \in DOMAIN busRecords \ DOMAIN kept :
                    /\ \A p \in DOMAIN kept : o < p
                    /\ \A c \in DOMAIN com : o <= com[c]
<1> DEFINE kept == Compacted(busRecords, com, now)
<1>1. BusEnd \in Nat /\ DOMAIN busRecords \subseteq Nat
  BY BusAssumption DEF BusInv, BusTypeOK, BusEnd
<1>2. com \in [DOMAIN com -> Nat]
  BY <1>1
<1>3. \A c \in DOMAIN com : FloorOf(com) <= com[c] /\ FloorOf(com) \in Nat
  BY <1>2, FloorIsLowest
<1>4. FloorOf(com) \in Nat
  <2>1. CASE DOMAIN com = {}
    BY <1>1, <2>1 DEF FloorOf
  <2> QED
    BY <1>3, <2>1
<1>5. /\ DOMAIN kept \subseteq DOMAIN busRecords
      /\ kept = Restrict(busRecords, DOMAIN kept)
      /\ \A o \in DOMAIN busRecords \ DOMAIN kept :
             o <= FloorOf(com) /\ \A p \in DOMAIN kept : o < p
  BY <1>1, <1>4, CompactedDropsBottom
<1> HIDE DEF kept
<1>6. \A o \in DOMAIN kept : kept[o] = busRecords[o]
  <2>1. \A o \in DOMAIN kept : Restrict(busRecords, DOMAIN kept)[o] = busRecords[o]
    BY DEF Restrict
  <2> QED
    BY <1>5, <2>1
<1>7. ASSUME NEW o \in DOMAIN busRecords \ DOMAIN kept, NEW c \in DOMAIN com PROVE o <= com[c]
  <2>1. o \in Nat /\ FloorOf(com) \in Nat /\ com[c] \in Nat
    BY <1>1, <1>2, <1>4
  <2> QED
    BY <1>3, <1>5, <2>1
<1> QED
  BY <1>5, <1>6, <1>7 DEF kept

\* What a publish leaves: only telemetry is evicted, and the rest of what is gone was
\* compacted.
LEMMA LeftIsSafe ==
    ASSUME BusInv, NEW cls, NEW size
    PROVE  LET left == LeftForRoom(cls, size)
           IN /\ DOMAIN left.records \subseteq DOMAIN busRecords
              /\ \A o \in DOMAIN left.records : left.records[o] = busRecords[o]
              /\ left.gone \subseteq DOMAIN busRecords \ DOMAIN left.records
              /\ \A o \in left.gone : busClass[o] = "Telemetry"
              /\ \A o \in DOMAIN busRecords \ (DOMAIN left.records \cup left.gone) :
                    /\ \A p \in DOMAIN left.records : o < p
                    /\ \A c \in DOMAIN busCommitted : o <= busCommitted[c]
<1> DEFINE left == LeftForRoom(cls, size)
           compact == Compacted(busRecords, busCommitted, busTick)
           out == EvictedForRoom(compact, cls, size)
<1>1. busCommitted \in [DOMAIN busCommitted -> 0..BusEnd]
  BY DEF BusInv, BusTypeOK
<1>2. /\ DOMAIN compact \subseteq DOMAIN busRecords
      /\ \A o \in DOMAIN compact : compact[o] = busRecords[o]
      /\ \A o \in DOMAIN busRecords \ DOMAIN compact :
            /\ \A p \in DOMAIN compact : o < p
            /\ \A c \in DOMAIN busCommitted : o <= busCommitted[c]
  BY <1>1, CompactionIsSafe
<1>3. left.records = Without(compact, out) /\ left.gone = out
  BY DEF LeftForRoom
<1> HIDE DEF left, compact
<1>4. out \subseteq Evictable(compact)
  BY DEF EvictedForRoom, Oldest
<1> HIDE DEF out
<1>5. \A o \in out : o \in DOMAIN compact /\ compact[o].class = "Telemetry"
  BY <1>4 DEF Evictable, Unacked, Without, Restrict
<1>6. /\ DOMAIN left.records = DOMAIN compact \ out
      /\ \A o \in DOMAIN compact \ out : left.records[o] = compact[o]
  BY <1>3 DEF Without, Restrict
<1>7. \A o \in DOMAIN busRecords : busRecords[o].class = busClass[o]
  BY DEF BusInv, BusTypeOK
<1>8. \A o \in out : busClass[o] = "Telemetry"
  BY <1>2, <1>5, <1>7
<1> QED
  BY <1>2, <1>3, <1>5, <1>6, <1>8 DEF left

\* What every state of the bus gives the proofs below.
LEMMA BusFacts ==
    ASSUME BusInv
    PROVE  /\ busNext \in Nat \ {0} /\ busNext <= MaxOffset + 1 /\ MaxOffset \in Nat
           /\ BusEnd = busNext - 1 /\ busTick \in 0..MaxTick
           /\ busClass \in Seq(Class) /\ Len(busClass) = busNext - 1
           /\ busCommitted \in [DOMAIN busCommitted -> 0..BusEnd]
           /\ busDropped \in [DOMAIN busCommitted -> Nat]
           /\ busRecords \in [DOMAIN busRecords -> BusRecord]
           /\ DOMAIN busRecords \subseteq 1..busNext - 1
  BY BusAssumption DEF BusInv, BusTypeOK, BusEnd

\* The step of every call but a registration: recs are the records it leaves, in a
\* queue whose next offset is n.
RetainStep(recs, n) ==
    /\ n \in {busNext, busNext + 1} /\ n <= MaxOffset + 1 /\ busNext' = n
    /\ Retain(recs, n) /\ recs \in [DOMAIN recs -> BusRecord]
    /\ \A o \in DOMAIN recs : \/ o \in DOMAIN busRecords /\ recs[o] = busRecords[o]
                              \/ o = busNext /\ n = busNext + 1
    /\ n = busNext + 1 => busNext \in DOMAIN recs /\ recs[busNext].class = busClass'[busNext]
    /\ \A o \in DOMAIN busRecords \ DOMAIN recs :
           \/ busClass[o] = "Telemetry"
           \/ /\ \A p \in DOMAIN recs : o < p
              /\ \A c \in DOMAIN busCommitted' : o <= busCommitted'[c]
    /\ busClass' \in Seq(Class) /\ Len(busClass') = n - 1
    /\ \A o \in 1..busNext - 1 : busClass'[o] = busClass[o]
    /\ busTick' \in 0..MaxTick
    /\ DOMAIN busCommitted' = DOMAIN busCommitted
    /\ busCommitted' \in [DOMAIN busCommitted' -> 0..BusEnd]
    /\ \A c \in DOMAIN busCommitted : busCommitted[c] <= busCommitted'[c]
    /\ busDropped' \in [DOMAIN busCommitted' -> Nat]

\* Such a step keeps the invariant.
LEMMA RetainKeepsInv ==
    ASSUME BusInv, NEW recs, NEW n, RetainStep(recs, n)
    PROVE  BusInv'
<1> USE DEF RetainStep
<1>1. busNext \in Nat \ {0} /\ BusEnd = busNext - 1 /\ BusEnd' = n - 1 /\ MaxOffset \in Nat
  BY BusAssumption DEF BusInv, BusTypeOK, BusEnd
<1>2. PICK com : com = busCommitted'
  OBVIOUS
<1>3. \A c \in DOMAIN com :
         com[c] \in Nat /\ c \in DOMAIN busCommitted /\ busCommitted[c] <= com[c]
  BY <1>1, <1>2
<1>4. PICK low : low = LowWaterOf(recs, n)
  OBVIOUS
<1>5. CompleteFrom(low, recs, n, com)
  <2>1. Leaves(recs, n, com)
    BY <1>2, <1>3 DEF Leaves
  <2> QED
    BY <1>4, <2>1, KeepsComplete
<1> USE DEF CompleteFrom
<1>6. busRecords' = recs /\ busLowWater' = low /\ busBytes' = Bytes(recs)
  BY <1>4 DEF Retain
<1>7. BusTypeOK'
  <2>1. busNext' \in 1..MaxOffset + 1
    BY <1>1
  <2>2. busLowWater' \in 0..BusEnd'
    BY <1>1, <1>5, <1>6 DEF BusInv, BusTypeOK
  <2>3. \A o \in DOMAIN recs : recs[o].class = busClass'[o]
    BY BusFacts DEF BusInv, BusTypeOK
  <2>4. busRecords' \in [DOMAIN busRecords' -> BusRecord]
    BY <1>6
  <2>5. \A o \in DOMAIN busRecords' : o \in busLowWater' + 1..BusEnd'
                                      /\ busRecords'[o].class = busClass'[o]
    BY <1>1, <1>5, <1>6, <2>3
  <2>6. busCommitted' \in [DOMAIN busCommitted' -> 0..BusEnd']
    BY <1>1
  <2>7. busBytes' = Bytes(busRecords)'
    BY <1>6, Zenon
  <2>8. DOMAIN busCommitted' \subseteq Consumer
    BY DEF BusInv, BusTypeOK
  <2>9. busTick' \in 0..MaxTick /\ busClass' \in Seq(Class) /\ Len(busClass') = BusEnd'
    BY <1>1
  <2> QED
    BY <2>1, <2>2, <2>4, <2>5, <2>6, <2>7, <2>8, <2>9 DEF BusTypeOK
<1>8. BusReplayIsComplete'
  <2> SUFFICES ASSUME NEW start \in {low} \cup {com[c] : c \in DOMAIN com},
                      NEW o \in start + 1..n - 1, o \notin DOMAIN recs
               PROVE  busClass'[o] = "Telemetry"
    BY <1>1, <1>2, <1>6 DEF BusReplayIsComplete, Missing
  <2>1. o <= BusEnd /\ busClass[o] = "Telemetry"
    BY <1>5
  <2>2. start \in Nat
    BY <1>1, <1>3, <1>5 DEF BusInv, BusTypeOK
  <2>3. o \in 1..busNext - 1
    BY <1>1, <2>1, <2>2
  <2> QED
    BY <2>1, <2>3
<1> QED
  BY <1>7, <1>8 DEF BusInv

\* A registration starts at or above the low-water mark, above which only telemetry
\* is missing, and keeps the count of a known consumer.
LEMMA RegisterKeepsInv ==
    ASSUME BusInv, NEW c \in Consumer, NEW from \in 0..MaxOffset, Register(c, from)
    PROVE  BusInv'
<1>1. busNext \in Nat \ {0} /\ BusEnd = busNext - 1 /\ BusEnd' = BusEnd /\ busLowWater \in 0..BusEnd
  BY BusAssumption DEF BusInv, BusTypeOK, BusEnd, Register
<1>2. from \in busLowWater..BusEnd
  BY <1>1, BusAssumption DEF Register, RegisterAdmits
<1>3. BusTypeOK'
  <2>1. busCommitted' \in [DOMAIN busCommitted' -> 0..BusEnd']
    BY <1>1, <1>2 DEF BusInv, BusTypeOK, Register
  <2>2. busDropped' \in [DOMAIN busCommitted' -> Nat] /\ DOMAIN busCommitted' \subseteq Consumer
    BY DEF BusInv, BusTypeOK, Register
  <2>3. busBytes' = Bytes(busRecords)'
    <3>1. busBytes = Bytes(busRecords) /\ busBytes' = busBytes /\ busRecords' = busRecords
      BY DEF BusInv, BusTypeOK, Register
    <3> QED
      BY <3>1, Zenon
  <2> QED
    BY <1>1, <2>1, <2>2, <2>3 DEF BusInv, BusTypeOK, Register
<1>4. BusReplayIsComplete'
  <2> SUFFICES ASSUME NEW start \in ({busLowWater} \cup {busCommitted[d] : d \in DOMAIN busCommitted})',
                      NEW o \in Missing(start)'
               PROVE  busClass'[o] = "Telemetry"
    BY DEF BusReplayIsComplete
  <2> DEFINE Starts == {busLowWater} \cup {busCommitted[d] : d \in DOMAIN busCommitted}
  <2>0. start = from \/ start \in Starts
    <3>1. CASE start = busLowWater'
      BY <3>1 DEF Register
    <3>2. CASE start # busLowWater'
      <4>1. PICK d \in DOMAIN busCommitted' : start = busCommitted'[d]
        BY <3>2
      <4>2. d = c \/ (d \in DOMAIN busCommitted /\ busCommitted'[d] = busCommitted[d])
        BY DEF Register
      <4>3. d = c => busCommitted'[d] = from
        BY DEF Register
      <4> QED
        BY <4>1, <4>2, <4>3
    <3> QED
      BY <3>1, <3>2
  <2>a. Starts \subseteq Nat /\ busLowWater \in Starts
    <3>1. \A d \in DOMAIN busCommitted : busCommitted[d] \in 0..BusEnd
      BY DEF BusInv, BusTypeOK
    <3> QED
      BY <1>1, <3>1
  <2> HIDE DEF Starts
  <2>b. from \in Nat
    BY <1>1, <1>2
  <2>c. start \in Nat
    BY <2>0, <2>a, <2>b, Zenon
  <2>1. PICK first \in Starts : first <= start
    BY <1>1, <1>2, <2>0, <2>a, <2>c
  <2>2. start \in Nat /\ first \in Nat
    BY <2>a, <2>c
  <2>3. o \in Missing(first)
    BY <1>1, <2>1, <2>2 DEF Missing, Register
  <2> QED
    BY <2>1, <2>3 DEF Register, BusInv, BusReplayIsComplete, Starts
<1> QED
  BY <1>3, <1>4 DEF BusInv

\* A commit only moves a consumer forward and compacts below the new floor.
LEMMA CommitKeepsInv ==
    ASSUME BusInv, NEW c \in Consumer, NEW upto \in 0..MaxOffset, Commit(c, upto)
    PROVE  /\ BusInv'
           /\ DOMAIN busRecords' \subseteq DOMAIN busRecords
           /\ \A o \in DOMAIN busRecords \ DOMAIN busRecords' :
                  \A d \in DOMAIN busCommitted' : o <= busCommitted'[d]
<1> DEFINE recs == Compacted(busRecords, busCommitted', busTick)
<1>1. /\ DOMAIN busCommitted' = DOMAIN busCommitted
      /\ busCommitted' \in [DOMAIN busCommitted' -> 0..BusEnd]
      /\ \A d \in DOMAIN busCommitted : busCommitted[d] <= busCommitted'[d]
  BY BusFacts DEF Commit, Advanced
<1>2. PICK com : com = busCommitted'
  OBVIOUS
<1>3. /\ DOMAIN recs \subseteq DOMAIN busRecords
      /\ \A o \in DOMAIN recs : recs[o] = busRecords[o]
      /\ \A o \in DOMAIN busRecords \ DOMAIN recs :
            /\ \A p \in DOMAIN recs : o < p
            /\ \A d \in DOMAIN com : o <= com[d]
  BY <1>1, <1>2, CompactionIsSafe
<1>4. Retain(recs, busNext) /\ busNext' = busNext /\ busTick' = busTick
      /\ busDropped' = busDropped /\ busClass' = busClass /\ recs = busRecords'
  BY DEF Commit, Retain
<1> HIDE DEF recs
<1>5. recs \in [DOMAIN recs -> BusRecord]
  <2>1. recs = [o \in DOMAIN recs |-> recs[o]]
    BY <1>4 DEF Commit, Retain, Compacted, Without, Restrict
  <2> QED
    BY <1>3, <2>1, BusFacts
<1>6. BusInv'
  <2>1. RetainStep(recs, busNext)
    BY <1>1, <1>2, <1>3, <1>4, <1>5, BusFacts DEF RetainStep
  <2> QED
    BY <2>1, RetainKeepsInv
<1> QED
  BY <1>2, <1>3, <1>4, <1>6

\* Moving the clock compacts by age and moves nobody.
LEMMA TickKeepsInv ==
    ASSUME BusInv, NEW now \in 0..MaxTick, AdvanceBusTick(now)
    PROVE  /\ BusInv'
           /\ DOMAIN busRecords' \subseteq DOMAIN busRecords
           /\ \A o \in DOMAIN busRecords \ DOMAIN busRecords' :
                  \A d \in DOMAIN busCommitted' : o <= busCommitted'[d]
<1> DEFINE recs == Compacted(busRecords, busCommitted, now)
<1>1. /\ DOMAIN recs \subseteq DOMAIN busRecords
      /\ \A o \in DOMAIN recs : recs[o] = busRecords[o]
      /\ \A o \in DOMAIN busRecords \ DOMAIN recs :
            /\ \A p \in DOMAIN recs : o < p
            /\ \A d \in DOMAIN busCommitted : o <= busCommitted[d]
  BY BusFacts, CompactionIsSafe
<1>2. /\ Retain(recs, busNext) /\ busNext' = busNext /\ busTick' = now
      /\ busDropped' = busDropped /\ busClass' = busClass /\ recs = busRecords'
      /\ busCommitted' = busCommitted
  BY DEF AdvanceBusTick, Retain
<1> HIDE DEF recs
<1>3. recs \in [DOMAIN recs -> BusRecord]
  <2>1. recs = [o \in DOMAIN recs |-> recs[o]]
    BY <1>2 DEF AdvanceBusTick, Retain, Compacted, Without, Restrict
  <2> QED
    BY <1>1, <2>1, BusFacts
<1>4. RetainStep(recs, busNext)
  BY <1>1, <1>2, <1>3, BusFacts DEF RetainStep
<1> QED
  BY <1>1, <1>2, <1>4, RetainKeepsInv

\* The drop counters stay counters, whatever finite set of records is counted.
LEMMA DropsStayCounts ==
    ASSUME BusInv, NEW out, out \subseteq DOMAIN busRecords, CountDrops(out)
    PROVE  /\ busDropped' \in [DOMAIN busCommitted -> Nat]
           /\ \A c \in DOMAIN busCommitted :
                 busDropped'[c] - busDropped[c] = Cardinality({o \in out : busCommitted[c] < o})
<1>1. ASSUME NEW c PROVE Cardinality({o \in out : busCommitted[c] < o}) \in Nat
  <2>a. busNext - 1 \in Int /\ 1 \in Int
    BY BusFacts
  <2>1. IsFiniteSet(1..busNext - 1)
    BY <2>a, FS_Interval
  <2>2. {o \in out : busCommitted[c] < o} \subseteq 1..busNext - 1
    BY BusFacts
  <2> QED
    BY <2>1, <2>2, FS_Subset, FS_CardinalityType
<1>2. busDropped \in [DOMAIN busCommitted -> Nat]
  BY BusFacts
<1> QED
  BY <1>1, <1>2 DEF CountDrops

\* A refused publish keeps what it compacted and evicted.
LEMMA RefusalKeepsInv ==
    ASSUME BusInv, NEW cls \in Class, NEW size \in Sizes, PublishRefused(cls, size)
    PROVE  BusInv'
<1> DEFINE left == LeftForRoom(cls, size)
<1>1. /\ DOMAIN left.records \subseteq DOMAIN busRecords
      /\ \A o \in DOMAIN left.records : left.records[o] = busRecords[o]
      /\ left.gone \subseteq DOMAIN busRecords \ DOMAIN left.records
      /\ \A o \in left.gone : busClass[o] = "Telemetry"
      /\ \A o \in DOMAIN busRecords \ (DOMAIN left.records \cup left.gone) :
            /\ \A p \in DOMAIN left.records : o < p
            /\ \A c \in DOMAIN busCommitted : o <= busCommitted[c]
  BY LeftIsSafe
<1>2. left.records = [o \in DOMAIN left.records |-> left.records[o]]
  BY DEF LeftForRoom, Without, Restrict
<1>3. /\ Retain(left.records, busNext) /\ CountDrops(left.gone)
      /\ busNext' = busNext /\ busTick' = busTick /\ busClass' = busClass
      /\ busCommitted' = busCommitted
  BY DEF PublishRefused
<1> HIDE DEF left
<1>4. busDropped' \in [DOMAIN busCommitted -> Nat]
  BY <1>1, <1>3, DropsStayCounts
<1>5. left.records \in [DOMAIN left.records -> BusRecord]
  BY <1>1, <1>2, BusFacts
<1>6. RetainStep(left.records, busNext)
  BY <1>1, <1>3, <1>4, <1>5, BusFacts DEF RetainStep
<1> QED
  BY <1>6, RetainKeepsInv

\* A publish also appends its record, above everything in the queue.
LEMMA PublishKeepsInv ==
    ASSUME BusInv, NEW cls \in Class, NEW size \in Sizes, Publish(cls, size)
    PROVE  BusInv'
<1> DEFINE left == LeftForRoom(cls, size)
           record == [class |-> cls, tick |-> busTick, size |-> size]
           recs == [o \in DOMAIN left.records \cup {busNext} |->
                       IF o = busNext THEN record ELSE left.records[o]]
<1>1. /\ DOMAIN left.records \subseteq DOMAIN busRecords
      /\ \A o \in DOMAIN left.records : left.records[o] = busRecords[o]
      /\ left.gone \subseteq DOMAIN busRecords \ DOMAIN left.records
      /\ \A o \in left.gone : busClass[o] = "Telemetry"
      /\ \A o \in DOMAIN busRecords \ (DOMAIN left.records \cup left.gone) :
            /\ \A p \in DOMAIN left.records : o < p
            /\ \A c \in DOMAIN busCommitted : o <= busCommitted[c]
  BY LeftIsSafe
<1>2. /\ Retain(recs, busNext + 1) /\ CountDrops(left.gone)
      /\ busNext <= MaxOffset /\ busNext' = busNext + 1 /\ busTick' = busTick
      /\ busClass' = Append(busClass, cls) /\ busCommitted' = busCommitted
  BY DEF Publish
<1> HIDE DEF left
<1>3. busDropped' \in [DOMAIN busCommitted -> Nat]
  BY <1>1, <1>2, DropsStayCounts
<1>4. record \in BusRecord
  BY BusFacts DEF BusRecord
<1>5. busNext \notin DOMAIN busRecords /\ busNext \notin DOMAIN left.records
  BY <1>1, BusFacts
<1>6. /\ DOMAIN recs = DOMAIN left.records \cup {busNext} /\ recs[busNext] = record
      /\ \A o \in DOMAIN left.records : recs[o] = busRecords[o]
      /\ recs = [o \in DOMAIN recs |-> recs[o]]
  BY <1>1, <1>5
<1>7. /\ busClass' \in Seq(Class) /\ Len(busClass') = busNext /\ busClass'[busNext] = cls
      /\ \A o \in 1..busNext - 1 : busClass'[o] = busClass[o]
  BY <1>2, BusFacts
<1>8. recs[busNext].class = cls
  BY <1>6
<1> HIDE DEF recs, record
<1>9. recs \in [DOMAIN recs -> BusRecord]
  BY <1>1, <1>4, <1>6, BusFacts
<1>10. ASSUME NEW o \in DOMAIN busRecords \ DOMAIN recs, busClass[o] # "Telemetry"
       PROVE  /\ \A p \in DOMAIN recs : o < p
              /\ \A c \in DOMAIN busCommitted : o <= busCommitted[c]
  <2>1. o \in DOMAIN busRecords \ (DOMAIN left.records \cup left.gone)
    BY <1>1, <1>6, <1>10
  <2>2. o < busNext
    BY BusFacts
  <2> QED
    BY <1>1, <1>6, <2>1, <2>2
<1>11. RetainStep(recs, busNext + 1)
  BY <1>1, <1>2, <1>3, <1>6, <1>7, <1>8, <1>9, <1>10, BusFacts DEF RetainStep
<1> QED
  BY <1>11, RetainKeepsInv

\* The initial queue is empty.
LEMMA BusInitInv == BusInit => BusInv
<1> SUFFICES ASSUME BusInit PROVE BusInv
  OBVIOUS
<1>1. busBytes = Bytes(busRecords)
  <2>1. DOMAIN busRecords = {}
    BY DEF BusInit
  <2>2. MapThenSumSet(LAMBDA o : busRecords[o].size, {}) = 0
    BY DEF MapThenSumSet, MapThenFoldSet
  <2> QED
    BY <2>1, <2>2 DEF Bytes, BusInit
<1>2. BusTypeOK
  BY <1>1, BusAssumption DEF BusInit, BusTypeOK, BusEnd
<1>3. BusReplayIsComplete
  BY DEF BusInit, BusReplayIsComplete, Missing, BusEnd
<1> QED
  BY <1>2, <1>3 DEF BusInv

\* Every call keeps the invariant.
LEMMA BusStepInv == BusInv /\ [BusNext]_busVars => BusInv'
<1> SUFFICES ASSUME BusInv, [BusNext]_busVars PROVE BusInv'
  OBVIOUS
<1>1. ASSUME NEW c \in Consumer, NEW o \in 0..MaxOffset, Register(c, o) PROVE BusInv'
  BY <1>1, RegisterKeepsInv
<1>2. ASSUME NEW c \in Consumer, NEW o \in 0..MaxOffset, Commit(c, o) PROVE BusInv'
  BY <1>2, CommitKeepsInv
<1>3. ASSUME NEW cls \in Class, NEW size \in Sizes, Publish(cls, size) PROVE BusInv'
  BY <1>3, PublishKeepsInv
<1>4. ASSUME NEW cls \in Class, NEW size \in Sizes, PublishRefused(cls, size) PROVE BusInv'
  BY <1>4, RefusalKeepsInv
<1>5. ASSUME NEW now \in 0..MaxTick, AdvanceBusTick(now) PROVE BusInv'
  BY <1>5, TickKeepsInv
<1>6. CASE UNCHANGED busVars
  <2>1. busBytes' = Bytes(busRecords)'
    <3>1. busBytes = Bytes(busRecords) /\ busBytes' = busBytes /\ busRecords' = busRecords
      BY <1>6 DEF BusInv, BusTypeOK, busVars
    <3> QED
      BY <3>1, Zenon
  <2>2. BusTypeOK'
    BY <1>6, <2>1 DEF BusInv, BusTypeOK, BusEnd, busVars
  <2>3. BusReplayIsComplete'
    BY <1>6 DEF BusInv, BusReplayIsComplete, Missing, BusEnd, busVars
  <2> QED
    BY <2>2, <2>3 DEF BusInv
<1> QED
  BY <1>1, <1>2, <1>3, <1>4, <1>5, <1>6 DEF BusNext

\* Every reachable queue is well typed: its byte counter is the sum of what it holds,
\* nothing at or below the low-water mark is retained and records keep their class.
THEOREM BusTypeCorrect == BusSpec => []BusTypeOK
<1>1. BusInv => BusTypeOK
  BY DEF BusInv
<1> QED
  BY <1>1, BusInitInv, BusStepInv, PTL DEF BusSpec

\* For any consumers, sizes, capacities and retention: what a replay or a poll of
\* InMemoryBus will never return is telemetry.
THEOREM BusReplaysComplete == BusSpec => []BusReplayIsComplete
<1>1. BusInv => BusReplayIsComplete
  BY DEF BusInv
<1> QED
  BY <1>1, BusInitInv, BusStepInv, PTL DEF BusSpec

-----------------------------------------------------------------------------
(* Counting what is dropped *)

\* The consumer c is told in one step of exactly the records that went missing above
\* its position.
GapsCounted(c) ==
    busCommitted'[c] >= busCommitted[c] =>
        busDropped'[c] - busDropped[c] =
            Cardinality(Missing(busCommitted[c])' \ Missing(busCommitted[c]))

\* A step that removes nothing above any consumer, publishes nothing and counts
\* nothing leaves no new gap.
LEMMA NoGapNoCount ==
    ASSUME BusInv, BusInv', NEW c \in DOMAIN busCommitted \cap DOMAIN busCommitted',
           busNext' = busNext, busDropped'[c] = busDropped[c],
           \A o \in DOMAIN busRecords \ DOMAIN busRecords' : o <= busCommitted'[c]
    PROVE  GapsCounted(c)
<1> SUFFICES ASSUME busCommitted'[c] >= busCommitted[c]
             PROVE  busDropped'[c] - busDropped[c] =
                        Cardinality(Missing(busCommitted[c])' \ Missing(busCommitted[c]))
  BY DEF GapsCounted
<1>1. /\ busCommitted[c] \in Nat /\ busDropped[c] \in Nat /\ busNext \in Nat
      /\ BusEnd = busNext - 1 /\ BusEnd' = busNext - 1
  BY BusFacts DEF BusEnd
<1>2. busCommitted'[c] \in Nat
  BY <1>1 DEF BusInv, BusTypeOK
<1>3. Missing(busCommitted[c])' \ Missing(busCommitted[c]) = {}
  BY <1>1, <1>2 DEF Missing
<1>4. Cardinality({}) = 0
  BY FS_EmptySet
<1> QED
  BY <1>1, <1>3, <1>4

\* A publish counts for a consumer exactly the evictions above its position: the other
\* records it removes are below it, and the record it adds is retained.
LEMMA PublishCounts ==
    ASSUME BusInv, BusInv', NEW cls, NEW size, NEW n \in {busNext, busNext + 1},
           NEW c \in DOMAIN busCommitted, busNext' = n, busCommitted' = busCommitted,
           CountDrops(LeftForRoom(cls, size).gone),
           DOMAIN busRecords' = DOMAIN LeftForRoom(cls, size).records \cup (busNext..n - 1)
    PROVE  GapsCounted(c)
<1> DEFINE left == LeftForRoom(cls, size)
<1>1. /\ DOMAIN left.records \subseteq DOMAIN busRecords
      /\ left.gone \subseteq DOMAIN busRecords \ DOMAIN left.records
      /\ \A o \in DOMAIN busRecords \ (DOMAIN left.records \cup left.gone) :
            \A d \in DOMAIN busCommitted : o <= busCommitted[d]
  BY LeftIsSafe
<1>2. DOMAIN busRecords' = DOMAIN left.records \cup (busNext..n - 1) /\ CountDrops(left.gone)
  OBVIOUS
<1> HIDE DEF left
<1>3. busDropped'[c] - busDropped[c] = Cardinality({o \in left.gone : busCommitted[c] < o})
  BY <1>1, <1>2, DropsStayCounts
<1>4. /\ busCommitted[c] \in Nat /\ busNext \in Nat /\ BusEnd = busNext - 1 /\ BusEnd' = n - 1
      /\ DOMAIN busRecords \subseteq 1..busNext - 1
  BY BusFacts DEF BusEnd
<1>5. Missing(busCommitted[c])' \ Missing(busCommitted[c]) = {o \in left.gone : busCommitted[c] < o}
  <2>1. ASSUME NEW o \in left.gone, busCommitted[c] < o
        PROVE  o \in Missing(busCommitted[c])' \ Missing(busCommitted[c])
    BY <1>1, <1>2, <1>4, <2>1 DEF Missing
  <2>2. ASSUME NEW o \in Missing(busCommitted[c])' \ Missing(busCommitted[c])
        PROVE  o \in left.gone /\ busCommitted[c] < o
    <3>1. o \in busCommitted[c] + 1..n - 1 /\ o \notin DOMAIN busRecords' /\ o \in Int
      BY <1>4 DEF Missing
    <3>2. o <= busNext - 1
      BY <1>2, <1>4, <3>1
    <3>3. o \in DOMAIN busRecords
      BY <1>4, <3>1, <3>2 DEF Missing
    <3> QED
      BY <1>1, <1>2, <1>4, <3>1, <3>3
  <2> QED
    BY <2>1, <2>2
<1> QED
  BY <1>3, <1>5 DEF GapsCounted

\* In every step, every consumer that stays registered is told of its new gaps.
LEMMA BusStepCounts ==
    ASSUME BusInv, BusInv', [BusNext]_busVars, NEW c \in DOMAIN busCommitted \cap DOMAIN busCommitted'
    PROVE  GapsCounted(c)
<1>1. ASSUME NEW d \in Consumer, NEW o \in 0..MaxOffset, Register(d, o) PROVE GapsCounted(c)
  <2>1. busNext' = busNext /\ busRecords' = busRecords
    BY <1>1 DEF Register
  <2>2. c \in DOMAIN busDropped
    BY BusFacts
  <2>3. busDropped'[c] = busDropped[c]
    BY <1>1, <2>2 DEF Register
  <2> QED
    BY <2>1, <2>3, NoGapNoCount
<1>2. ASSUME NEW d \in Consumer, NEW o \in 0..MaxOffset, Commit(d, o) PROVE GapsCounted(c)
  <2>1. \A p \in DOMAIN busRecords \ DOMAIN busRecords' : p <= busCommitted'[c]
    BY <1>2, CommitKeepsInv
  <2>2. busNext' = busNext /\ busDropped' = busDropped
    BY <1>2 DEF Commit
  <2> QED
    BY <2>1, <2>2, NoGapNoCount
<1>3. ASSUME NEW cls \in Class, NEW size \in Sizes, Publish(cls, size) PROVE GapsCounted(c)
  <2>1. /\ busNext' = busNext + 1 /\ busCommitted' = busCommitted
        /\ CountDrops(LeftForRoom(cls, size).gone)
    BY <1>3 DEF Publish
  <2>2. DOMAIN busRecords' = DOMAIN LeftForRoom(cls, size).records \cup {busNext}
    BY <1>3 DEF Publish, Retain
  <2>3. busNext..(busNext + 1) - 1 = {busNext}
    BY BusFacts
  <2> QED
    BY <2>1, <2>2, <2>3, PublishCounts
<1>4. ASSUME NEW cls \in Class, NEW size \in Sizes, PublishRefused(cls, size) PROVE GapsCounted(c)
  <2>1. /\ busNext' = busNext /\ busCommitted' = busCommitted
        /\ CountDrops(LeftForRoom(cls, size).gone)
    BY <1>4 DEF PublishRefused
  <2>2. DOMAIN busRecords' = DOMAIN LeftForRoom(cls, size).records
    BY <1>4 DEF PublishRefused, Retain
  <2>3. busNext..busNext - 1 = {}
    BY BusFacts
  <2> QED
    BY <2>1, <2>2, <2>3, PublishCounts
<1>5. ASSUME NEW now \in 0..MaxTick, AdvanceBusTick(now) PROVE GapsCounted(c)
  <2>1. \A p \in DOMAIN busRecords \ DOMAIN busRecords' : p <= busCommitted'[c]
    BY <1>5, TickKeepsInv
  <2>2. busNext' = busNext /\ busDropped' = busDropped
    BY <1>5 DEF AdvanceBusTick
  <2> QED
    BY <2>1, <2>2, NoGapNoCount
<1>6. CASE UNCHANGED busVars
  BY <1>6, NoGapNoCount DEF busVars
<1> QED
  BY <1>1, <1>2, <1>3, <1>4, <1>5, <1>6 DEF BusNext

\* For any consumers and however evictions, commits and compactions interleave: a
\* consumer that stays registered is told of every record it will not get, exactly once.
THEOREM BusCountsGaps == BusSpec => BusGapsAreCounted
<1>1. BusInv /\ BusInv' /\ [BusNext]_busVars =>
        [\A c \in DOMAIN busCommitted \cap DOMAIN busCommitted' :
            busCommitted'[c] >= busCommitted[c] =>
                busDropped'[c] - busDropped[c] =
                    Cardinality(Missing(busCommitted[c])' \ Missing(busCommitted[c]))]_busVars
  BY BusStepCounts DEF GapsCounted
<1> QED
  BY <1>1, BusInitInv, BusStepInv, PTL DEF BusSpec, BusGapsAreCounted

-----------------------------------------------------------------------------
(* FileEventLog *)

\* Where power may be lost, the process is not killed, a rollback does not fail and
\* a directory sync does not fail: each of these leaves an entry or a frame that is
\* not durable and that open takes for granted (README, known divergences).
FaultsApart ==
    \A s \in Settings : "power" \in s.faults => s.faults \cap {"kill", "rollback", "dir_sync"} = {}

\* A power loss may happen, a call is under way or the log is open, a publish is
\* under way.
Powered == "power" \in setting.faults
Running == pc # "down"
Publishing == pc \in {"room", "roll", "create", "enter", "write", "sync", "discard"}
                \/ (pc = "compact" /\ call.name = "publish")

\* The files a power loss may leave: those of the directory and the unlinked ones.
Whole == [f \in DOMAIN gone \cup DOMAIN segs |-> FileAt(f)]
\* The offset after the last frame of a file of directory d.
After(d, f) == f + Len(d[f].frames)

\* A directory as it should be: every file but the newest is complete and holds a
\* frame, and the next file starts where it ends.
IsFile(s) == s \in SegmentFile /\ s.synced <= Len(s.frames)
Newest(d, n) == n \in DOMAIN d /\ \A f \in DOMAIN d : f <= n
Sealed(d) ==
    \A f, g \in DOMAIN d : f < g =>
        d[f].frames # <<>> /\ ~d[f].torn /\ After(d, f) <= g /\ After(d, f) \in DOMAIN d
IsDir(d) ==
    /\ DOMAIN d \subseteq Nat \ {0}
    /\ \A f \in DOMAIN d : IsFile(d[f])
    /\ DOMAIN d = {} \/ \E n \in DOMAIN d : Newest(d, n)
    /\ Sealed(d)

\* An acknowledged publish is found in d, or lies below all that is left.
Found(d, a) == \E f \in DOMAIN d : f <= a[1] /\ a[1] < After(d, f) /\ d[f].frames[a[1] - f + 1].call = a[2]
Readable(d, A) == \A a \in A : Found(d, a) \/ (DOMAIN d # {} /\ \A f \in DOMAIN d : a[1] < f)

\* The record of a call under way.
CallOf(name) ==
    CASE name = "publish" -> [name : {name}, removed : BOOLEAN, id : {calls}]
      [] name = "host" -> [name : {name}, removed : BOOLEAN]
      [] name = "register" -> [name : {name}, c : Consumer, previous : {Unregistered} \cup Nat]
      [] name = "commit" -> [name : {name}, c : Consumer, previous : {Unregistered} \cup Nat, removed : BOOLEAN]

\* The files and the unlinked files, which are older, are one directory.
DirInv ==
    /\ IsDir(Whole)
    /\ \A f \in DOMAIN gone : \A g \in DOMAIN segs : f < g
    /\ DOMAIN gone # {} => DOMAIN segs # {}

\* The call under way fits where the writer is.
CallInv ==
    /\ setting \in Settings /\ calls \in 0..MaxCalls /\ tick \in 0..MaxTick
    /\ pc = "compact" => call \in CallOf("publish") \cup CallOf("host") \cup CallOf("commit")
    /\ pc \in {"replace", "offsets_sync"} => call \in CallOf("register") \cup CallOf("commit")
    /\ Publishing => call \in CallOf("publish") /\ calls # 0 /\ ~poisoned

\* A frame written and not yet counted. Apart from these no frame is of the publish
\* under way, and none is of a refused one.
Pending(f, i) == pc \in {"sync", "discard"} /\ f = Current /\ i > mem[f].count

IdInv ==
    /\ refused \subseteq 1..calls
    /\ Publishing => calls \notin refused
    /\ \A f \in DOMAIN Whole : \A i \in 1..Len(Whole[f].frames) :
          /\ Whole[f].frames[i].call \in 1..calls
          /\ Whole[f].frames[i].call \notin refused
          /\ Publishing /\ ~Pending(f, i) => Whole[f].frames[i].call # calls

\* What was acknowledged is readable, and below the next offset.
AckInv ==
    /\ acked \subseteq (Nat \ {0}) \X Nat
    /\ Readable(Whole, acked)
    /\ Running => \A a \in acked : a[1] < next

\* The writer's table describes the files, but for the tail of the last segment
\* after a failure, and for a file that could not be entered.
Settled == ~poisoned /\ pc \notin {"sync", "discard"}
Stray == next \in DOMAIN segs \ DOMAIN mem

TableInv ==
    Running =>
      /\ DOMAIN mem \subseteq DOMAIN segs /\ DOMAIN segs \subseteq DOMAIN mem \cup {next}
      /\ active \in BOOLEAN /\ poisoned \in BOOLEAN
      /\ \A f \in DOMAIN mem : mem[f].count \in Nat /\ mem[f].count <= Len(segs[f].frames)
      /\ IF DOMAIN mem = {} THEN next = 1 /\ ~active
         ELSE Newest(mem, Current) /\ next = Current + mem[Current].count
      /\ \A f \in DOMAIN mem :
            f < Current \/ Settled => mem[f].count = Len(segs[f].frames) /\ ~segs[f].torn
      /\ Stray => segs[next].frames = <<>> /\ ~segs[next].torn /\ NeedsRoll /\ ~active

\* What each step of a publish relies on.
StepInv ==
    /\ pc \in {"roll", "create", "enter"} => NeedsRoll
    /\ pc \in {"create", "enter"} => ~active
    /\ pc = "enter" => Stray
    /\ pc \in {"write", "sync", "discard"} => active /\ ~NeedsRoll
    /\ pc = "sync" => /\ Len(segs[Current].frames) = mem[Current].count + 1
                      /\ segs[Current].frames[mem[Current].count + 1].call = calls
                      /\ ~segs[Current].torn

\* Where power may be lost, what the writer has counted is synced, and the only entry
\* that is not is that of a segment being created.
PowerInv ==
    Powered =>
      /\ Running => ~poisoned
      /\ IF Running THEN \A f \in DOMAIN mem : mem[f].count <= segs[f].synced
         ELSE \A f \in DOMAIN segs : segs[f].synced = Len(segs[f].frames)
      /\ loose = IF pc = "enter" THEN {next} ELSE {}
      /\ Running /\ Stray => pc = "enter"
      /\ \A f \in DOMAIN gone : gone[f].synced = Len(gone[f].frames)

\* Every consumer of o is neither below the directory's first offset nor beyond its
\* last.
Served(o) ==
    \A c \in Consumer : o[c] # Unregistered =>
       /\ DOMAIN segs = {} \/ \E f \in DOMAIN segs : f <= o[c] + 1
       /\ IF Running THEN o[c] < next
          ELSE IF DOMAIN segs = {} THEN o[c] = 0 ELSE \E f \in DOMAIN segs : o[c] < After(segs, f)

\* The offsets in memory, in the file and in what a power loss leaves of it.
OffsetInv ==
    /\ {offsets, shadow, committed} \subseteq Offsets
    /\ "dir_sync" \notin setting.faults =>
         /\ Served(offsets) /\ (Powered => Served(shadow)) /\ (Running => Served(committed))
         /\ pc = "replace" => offsets = [committed EXCEPT ![call.c] = call.previous]
         /\ Running /\ pc # "replace" => offsets = committed
         /\ Powered /\ pc # "offsets_sync" => shadow = offsets

\* The inductive invariant of the file log.
LogInv == DirInv /\ CallInv /\ IdInv /\ AckInv /\ TableInv /\ StepInv /\ PowerInv /\ OffsetInv


-----------------------------------------------------------------------------
(* Directories *)

\* The upper part of a directory is one, and what was readable in the whole is
\* readable in it or lies below it.
LEMMA UpperPart ==
    ASSUME NEW d, IsDir(d), NEW e, DOMAIN e \subseteq DOMAIN d, DOMAIN e # {} \/ DOMAIN d = {},
           \A f \in DOMAIN e : e[f] = d[f],
           \A f \in DOMAIN e, g \in DOMAIN d : f < g => g \in DOMAIN e,
           NEW A, A \subseteq (Nat \ {0}) \X Nat, Readable(d, A)
    PROVE  IsDir(e) /\ Readable(e, A)
<1>0. DOMAIN d \subseteq Nat \ {0} /\ \A f \in DOMAIN d : Len(d[f].frames) \in Nat
  BY DEF IsDir, IsFile, SegmentFile
<1>1. DOMAIN e = {} \/ \E n \in DOMAIN e : Newest(e, n)
  <2>1. SUFFICES ASSUME DOMAIN e # {} PROVE \E n \in DOMAIN e : Newest(e, n)
    OBVIOUS
  <2>2. PICK n \in DOMAIN d : \A f \in DOMAIN d : f <= n
    BY <2>1 DEF IsDir, Newest
  <2>3. PICK m \in DOMAIN e : TRUE
    BY <2>1
  <2>4. n \in DOMAIN e
    <3>1. m \in Nat /\ n \in Nat /\ m <= n
      BY <1>0, <2>2
    <3>2. m < n \/ m = n
      BY <3>1
    <3> QED
      BY <3>2
  <2> QED
    BY <2>2, <2>4 DEF Newest
<1>2. Sealed(e)
  <2>1. SUFFICES ASSUME NEW f \in DOMAIN e, NEW g \in DOMAIN e, f < g
                 PROVE  /\ e[f].frames # <<>> /\ ~e[f].torn
                        /\ After(e, f) <= g /\ After(e, f) \in DOMAIN e
    BY DEF Sealed
  <2>2. d[f].frames # <<>> /\ ~d[f].torn /\ After(d, f) <= g /\ After(d, f) \in DOMAIN d
    BY <2>1 DEF IsDir, Sealed
  <2>3. After(e, f) = After(d, f) /\ e[f].frames = d[f].frames /\ e[f].torn = d[f].torn
    BY DEF After
  <2>4. f < After(d, f)
    <3>1. Len(d[f].frames) # 0
      BY <2>2, EmptySeq DEF IsDir, IsFile, SegmentFile
    <3> QED
      BY <1>0, <3>1 DEF After
  <2> QED
    BY <2>2, <2>3, <2>4
<1>3. IsDir(e)
  BY <1>0, <1>1, <1>2 DEF IsDir
<1>4. ASSUME NEW a \in A PROVE Found(e, a) \/ (DOMAIN e # {} /\ \A f \in DOMAIN e : a[1] < f)
  <2>0. a[1] \in Nat
    OBVIOUS
  <2>1. CASE Found(d, a)
    <3>1. PICK f \in DOMAIN d : f <= a[1] /\ a[1] < After(d, f) /\ d[f].frames[a[1] - f + 1].call = a[2]
      BY <2>1 DEF Found
    <3>2. CASE f \in DOMAIN e
      <4>1. After(e, f) = After(d, f) /\ e[f].frames = d[f].frames
        BY <3>2 DEF After
      <4> QED
        BY <3>1, <3>2, <4>1 DEF Found
    <3>3. CASE f \notin DOMAIN e
      <4>1. ASSUME NEW g \in DOMAIN e PROVE a[1] < g
        <5>1. f < g
          BY <3>3, <1>0
        <5>2. After(d, f) <= g
          BY <5>1 DEF IsDir, Sealed
        <5> QED
          BY <5>2, <3>1, <1>0, <2>0 DEF After
      <4> QED
        BY <4>1, <3>3
    <3> QED
      BY <3>2, <3>3
  <2>2. CASE DOMAIN d # {} /\ \A f \in DOMAIN d : a[1] < f
    BY <2>2
  <2> QED
    BY <2>1, <2>2 DEF Readable
<1> QED
  BY <1>3, <1>4 DEF Readable

\* Only the newest file may change, except for what is synced; whatever was readable
\* stays so as long as the newest file keeps its first k frames and nothing readable
\* lies beyond them.
LEMMA NewestChanges ==
    ASSUME NEW d, IsDir(d), NEW e, DOMAIN e = DOMAIN d, NEW n \in DOMAIN d, Newest(d, n),
           \A f \in DOMAIN e : IsFile(e[f]),
           \A f \in DOMAIN e : f # n => e[f].frames = d[f].frames /\ ~e[f].torn
    PROVE  IsDir(e)
<1>0. DOMAIN d \subseteq Nat \ {0}
  BY DEF IsDir
<1>1. Newest(e, n)
  BY DEF Newest
<1>2. Sealed(e)
  <2>1. SUFFICES ASSUME NEW f \in DOMAIN e, NEW g \in DOMAIN e, f < g
                 PROVE  /\ e[f].frames # <<>> /\ ~e[f].torn
                        /\ After(e, f) <= g /\ After(e, f) \in DOMAIN e
    BY DEF Sealed
  <2>2. d[f].frames # <<>> /\ After(d, f) <= g /\ After(d, f) \in DOMAIN d
    BY <2>1 DEF IsDir, Sealed
  <2>3. f # n
    BY <2>1, <1>0 DEF Newest
  <2> QED
    BY <2>2, <2>3 DEF After
<1> QED
  BY <1>0, <1>1, <1>2 DEF IsDir

\* As above, for what is readable.
LEMMA NewestKeepsReadable ==
    ASSUME NEW d, IsDir(d), NEW e, DOMAIN e = DOMAIN d, NEW n \in DOMAIN d,
           \A f \in DOMAIN e : IsFile(e[f]),
           \A f \in DOMAIN e : f # n => e[f].frames = d[f].frames,
           NEW k \in Nat, k <= Len(e[n].frames), k <= Len(d[n].frames),
           \A i \in 1..k : e[n].frames[i] = d[n].frames[i],
           NEW A, A \subseteq (Nat \ {0}) \X Nat, Readable(d, A),
           k = Len(d[n].frames) \/ \A a \in A : a[1] < n + k
    PROVE  Readable(e, A)
<1>0. DOMAIN d \subseteq Nat \ {0} /\ \A f \in DOMAIN d : Len(d[f].frames) \in Nat /\ Len(e[f].frames) \in Nat
  <2>1. DOMAIN d \subseteq Nat \ {0} /\ \A f \in DOMAIN d : IsFile(d[f]) /\ IsFile(e[f])
    BY DEF IsDir
  <2>2. \A s : IsFile(s) => Len(s.frames) \in Nat
    BY DEF IsFile, SegmentFile
  <2> QED
    BY <2>1, <2>2
<1>1. SUFFICES ASSUME NEW a \in A, Found(d, a) PROVE Found(e, a)
  BY DEF Readable
<1>2. PICK f \in DOMAIN d : f <= a[1] /\ a[1] < After(d, f) /\ d[f].frames[a[1] - f + 1].call = a[2]
  BY <1>1 DEF Found
<1>3. CASE f # n
  BY <1>2, <1>3 DEF Found, After
<1>4. CASE f = n
  <2>0. a[1] \in Nat
    OBVIOUS
  <2>1. a[1] < n + k
    BY <1>2, <1>4 DEF After
  <2>2. a[1] - n + 1 \in 1..k /\ a[1] < After(e, n)
    BY <2>0, <2>1, <1>0, <1>2, <1>4 DEF After
  <2> QED
    BY <1>2, <1>4, <2>2 DEF Found
<1> QED
  BY <1>3, <1>4

\* A file may be added at the offset after the newest frame.
LEMMA NewFile ==
    ASSUME NEW d, IsDir(d), NEW e, NEW n \in Nat \ {0}, n \notin DOMAIN d, DOMAIN e = DOMAIN d \cup {n},
           \A f \in DOMAIN d : f < n /\ e[f] = d[f], IsFile(e[n]),
           \A f \in DOMAIN d : Newest(d, f) => d[f].frames # <<>> /\ ~d[f].torn /\ After(d, f) = n,
           NEW A, A \subseteq (Nat \ {0}) \X Nat, Readable(d, A)
    PROVE  IsDir(e) /\ Readable(e, A)
<1>0. DOMAIN d \subseteq Nat \ {0}
  BY DEF IsDir
<1>1. Newest(e, n)
  BY <1>0 DEF Newest
<1>2. Sealed(e)
  <2>1. SUFFICES ASSUME NEW f \in DOMAIN e, NEW g \in DOMAIN e, f < g
                 PROVE  /\ e[f].frames # <<>> /\ ~e[f].torn
                        /\ After(e, f) <= g /\ After(e, f) \in DOMAIN e
    BY DEF Sealed
  <2>2. f \in DOMAIN d /\ e[f] = d[f] /\ After(e, f) = After(d, f)
    BY <2>1, <1>0 DEF After
  <2>3. CASE Newest(d, f)
    <3>1. g = n
      BY <2>1, <2>3, <1>0 DEF Newest
    <3> QED
      BY <2>2, <2>3, <3>1
  <2>4. CASE ~Newest(d, f)
    <3>1. PICK h \in DOMAIN d : ~(h <= f)
      BY <2>2, <2>4 DEF Newest
    <3>2. PICK m \in DOMAIN d : Newest(d, m)
      BY <2>2 DEF IsDir
    <3>3. f < m
      BY <3>1, <3>2, <2>2, <1>0 DEF Newest
    <3>4. d[f].frames # <<>> /\ ~d[f].torn /\ After(d, f) <= m /\ After(d, f) \in DOMAIN d
      BY <3>3, <2>2 DEF IsDir, Sealed
    <3>5. CASE g = n
      BY <3>4, <2>2, <1>0, <3>5
    <3>6. CASE g \in DOMAIN d
      <4>1. After(d, f) <= g
        BY <3>6, <2>1, <2>2 DEF IsDir, Sealed
      <4> QED
        BY <3>4, <4>1, <2>2
    <3> QED
      BY <3>5, <3>6
  <2> QED
    BY <2>3, <2>4
<1>3. IsDir(e)
  BY <1>0, <1>1, <1>2 DEF IsDir
<1>4. ASSUME NEW a \in A PROVE Found(e, a) \/ (DOMAIN e # {} /\ \A f \in DOMAIN e : a[1] < f)
  <2>1. CASE Found(d, a)
    BY <2>1 DEF Found, After
  <2>2. CASE DOMAIN d # {} /\ \A f \in DOMAIN d : a[1] < f
    <3>1. PICK m \in DOMAIN d : Newest(d, m)
      BY <2>2 DEF IsDir
    <3>2. a[1] \in Nat /\ a[1] < m /\ m < n /\ m \in Nat
      BY <2>2, <3>1, <1>0
    <3>3. a[1] < n
      BY <3>2
    <3> QED
      BY <2>2, <3>3
  <2> QED
    BY <2>1, <2>2 DEF Readable
<1> QED
  BY <1>3, <1>4 DEF Readable

\* The newest file may go when it holds no frame.
LEMMA NewestGoes ==
    ASSUME NEW d, IsDir(d), NEW e, NEW n \in DOMAIN d, Newest(d, n), d[n].frames = <<>>,
           DOMAIN e = DOMAIN d \ {n}, \A f \in DOMAIN e : e[f] = d[f],
           \A f \in DOMAIN e : \E m \in DOMAIN e : Newest(e, m),
           NEW A, A \subseteq (Nat \ {0}) \X Nat, Readable(d, A),
           DOMAIN e # {} \/ A = {}
    PROVE  IsDir(e) /\ Readable(e, A)
<1>0. DOMAIN d \subseteq Nat \ {0}
  BY DEF IsDir
<1>1. \A f \in DOMAIN d : Len(d[f].frames) \in Nat
  BY DEF IsDir, IsFile, SegmentFile
<1>2. Sealed(e)
  <2>1. SUFFICES ASSUME NEW f \in DOMAIN e, NEW g \in DOMAIN e, f < g
                 PROVE  /\ e[f].frames # <<>> /\ ~e[f].torn
                        /\ After(e, f) <= g /\ After(e, f) \in DOMAIN e
    BY DEF Sealed
  <2>2. d[f].frames # <<>> /\ ~d[f].torn /\ After(d, f) <= g /\ After(d, f) \in DOMAIN d
    BY <2>1 DEF IsDir, Sealed
  <2>3. g # n /\ g <= n /\ After(d, f) # n
    BY <2>2, <1>0 DEF Newest
  <2> QED
    BY <2>2, <2>3 DEF After
<1>3. IsDir(e)
  BY <1>0, <1>2 DEF IsDir
<1>4. ASSUME NEW a \in A PROVE Found(e, a) \/ (DOMAIN e # {} /\ \A f \in DOMAIN e : a[1] < f)
  <2>1. CASE Found(d, a)
    <3>1. PICK f \in DOMAIN d : f <= a[1] /\ a[1] < After(d, f) /\ d[f].frames[a[1] - f + 1].call = a[2]
      BY <2>1 DEF Found
    <3>2. f # n
      <4>1. Len(d[n].frames) = 0 /\ n \in Nat /\ a[1] \in Nat
        BY <1>0
      <4> QED
        BY <3>1, <4>1 DEF After
    <3> QED
      BY <3>1, <3>2 DEF Found, After
  <2> QED
    BY <2>1 DEF Readable
<1> QED
  BY <1>3, <1>4 DEF Readable

-----------------------------------------------------------------------------
(* Facts of the invariant *)

\* The files a power loss may leave are those of the directory and the unlinked ones.
LEMMA WholeFiles ==
    ASSUME DirInv
    PROVE  /\ DOMAIN Whole = DOMAIN gone \cup DOMAIN segs
           /\ \A f \in DOMAIN segs : Whole[f] = segs[f]
           /\ \A f \in DOMAIN gone : Whole[f] = gone[f] /\ f \notin DOMAIN segs
           /\ DOMAIN segs \subseteq Nat \ {0} /\ DOMAIN gone \subseteq Nat \ {0}
           /\ \A f \in DOMAIN segs : IsFile(segs[f])
<1>1. DOMAIN Whole = DOMAIN gone \cup DOMAIN segs
  BY DEF Whole
<1>2. \A f \in DOMAIN segs : Whole[f] = segs[f]
  BY DEF Whole, FileAt
<1>3. DOMAIN segs \subseteq Nat \ {0} /\ DOMAIN gone \subseteq Nat \ {0}
  BY <1>1 DEF DirInv, IsDir
<1>4. \A f \in DOMAIN gone : f \notin DOMAIN segs
  <2>1. SUFFICES ASSUME NEW f \in DOMAIN gone, f \in DOMAIN segs PROVE FALSE
    OBVIOUS
  <2>2. f < f
    BY <2>1 DEF DirInv
  <2> QED
    BY <2>2, <1>3
<1>5. \A f \in DOMAIN gone : Whole[f] = gone[f]
  BY <1>4 DEF Whole, FileAt
<1>6. \A f \in DOMAIN segs : IsFile(segs[f])
  BY <1>1, <1>2 DEF DirInv, IsDir
<1> QED
  BY <1>1, <1>2, <1>3, <1>4, <1>5, <1>6

\* The files of the directory are themselves a directory that holds what was
\* acknowledged.
LEMMA SegsAreADir ==
    ASSUME DirInv, AckInv
    PROVE  IsDir(segs) /\ Readable(segs, acked)
<1>1. \A f \in DOMAIN segs, g \in DOMAIN Whole : f < g => g \in DOMAIN segs
  <2>1. SUFFICES ASSUME NEW f \in DOMAIN segs, NEW g \in DOMAIN gone, f < g PROVE FALSE
    BY WholeFiles
  <2>2. g < f
    BY DEF DirInv
  <2> QED
    BY <2>1, <2>2, WholeFiles
<1>2. DOMAIN segs # {} \/ DOMAIN Whole = {}
  BY WholeFiles DEF DirInv
<1> QED
  BY <1>1, <1>2, WholeFiles, UpperPart DEF DirInv, AckInv

\* A set of naturals with a largest element has it as its Max.
LEMMA MaxIsLargest ==
    ASSUME NEW S, S \subseteq Nat, NEW n \in S, \A x \in S : x <= n
    PROVE  Max(S) = n
<1>1. Max(S) \in S /\ \A x \in S : x <= Max(S)
  <2>1. \E y \in S : \A x \in S : y >= x
    OBVIOUS
  <2> QED
    BY <2>1 DEF Max
<1>2. Max(S) \in Nat /\ n \in Nat /\ n <= Max(S) /\ Max(S) <= n
  BY <1>1
<1> QED
  BY <1>2

\* Steps that leave the files, the table and the history alone.
LEMMA FilesStayDir ==
    ASSUME DirInv, AckInv, UNCHANGED <<segs, gone>>
    PROVE  /\ DirInv' /\ Whole' = Whole
           /\ UNCHANGED acked /\ (Running' => Running /\ next' = next) => AckInv'
<1>1. Whole' = Whole
  BY DEF Whole, FileAt
<1>2. DirInv'
  BY <1>1 DEF DirInv
<1>3. ASSUME UNCHANGED acked, Running' => Running /\ next' = next PROVE AckInv'
  BY <1>1, <1>3 DEF AckInv
<1> QED
  BY <1>1, <1>2, <1>3

-----------------------------------------------------------------------------
(* Calls that begin, end or move on *)

\* publish begins.
LEMMA PublishCallKeeps ==
    ASSUME LogInv, PublishCall, UNCHANGED setting
    PROVE  LogInv'
<1> USE DEF LogInv, PublishCall, disk, writer
<1>0. calls \in Nat /\ calls' = calls + 1 /\ calls' \in 0..MaxCalls /\ pc = "idle" /\ pc' = "compact"
  BY LogAssumption DEF CallInv
<1>1. DirInv' /\ Whole' = Whole /\ AckInv'
  BY FilesStayDir DEF Running
<1>2. CallInv'
  BY <1>0 DEF CallInv, CallOf, Publishing
<1>3. IdInv'
  BY <1>0, <1>1 DEF IdInv, Publishing
<1>4. TableInv'
  BY <1>0 DEF TableInv, Running, Settled, Stray, Current, NeedsRoll
<1>5. StepInv'
  BY <1>0 DEF StepInv
<1>6. PowerInv'
  BY <1>0 DEF PowerInv, Powered, Running, Stray
<1>7. OffsetInv'
  BY <1>0 DEF OffsetInv, Powered, Running, Served, After
<1> QED
  BY <1>1, <1>2, <1>3, <1>4, <1>5, <1>6, <1>7

\* publish finds no room below max_unacked_records.
LEMMA PublishFullKeeps ==
    ASSUME LogInv, PublishFull, UNCHANGED setting
    PROVE  LogInv'
<1> USE DEF LogInv, PublishFull, disk, writer
<1>0. pc = "room" /\ pc' = "idle" /\ Publishing /\ ~Publishing' /\ call.id = calls
  BY DEF CallInv, CallOf, Publishing
<1>1. DirInv' /\ Whole' = Whole /\ AckInv'
  BY FilesStayDir DEF Running
<1>2. CallInv'
  BY <1>0 DEF CallInv, CallOf, Publishing
<1>3. IdInv'
  BY <1>0, <1>1 DEF IdInv, Pending, CallInv
<1>4. TableInv'
  BY <1>0 DEF TableInv, Running, Settled, Stray, Current, NeedsRoll
<1>5. StepInv'
  BY <1>0 DEF StepInv
<1>6. PowerInv'
  BY <1>0 DEF PowerInv, Powered, Running, Stray
<1>7. OffsetInv'
  BY <1>0 DEF OffsetInv, Powered, Running, Served, After
<1> QED
  BY <1>1, <1>2, <1>3, <1>4, <1>5, <1>6, <1>7

\* publish cannot create or open the segment it appends to.
LEMMA OpenFailsKeeps ==
    ASSUME LogInv, OpenFails, UNCHANGED setting
    PROVE  LogInv'
<1> USE DEF LogInv, OpenFails, disk, writer
<1>0. /\ pc \in {"create", "room"} /\ pc' = "idle" /\ Publishing /\ ~Publishing' /\ call.id = calls
      /\ Running /\ Running'
  BY DEF CallInv, CallOf, Publishing, Running
<1>1. DirInv' /\ Whole' = Whole /\ AckInv'
  BY <1>0, FilesStayDir
<1>2. CallInv'
  BY <1>0 DEF CallInv, CallOf, Publishing
<1>3. IdInv'
  BY <1>0, <1>1 DEF IdInv, Pending, CallInv
<1>4. TableInv'
  BY <1>0 DEF TableInv, Running, Settled, Stray, Current, NeedsRoll
<1>5. StepInv'
  BY <1>0 DEF StepInv
<1>6. PowerInv'
  BY <1>0 DEF PowerInv, Powered, Running, Stray
<1>7. OffsetInv'
  BY <1>0 DEF OffsetInv, Powered, Running, Served, After
<1> QED
  BY <1>1, <1>2, <1>3, <1>4, <1>5, <1>6, <1>7

\* publish goes on to the segment it appends to.
LEMMA PublishRoomKeeps ==
    ASSUME LogInv, PublishRoom, UNCHANGED setting
    PROVE  LogInv'
<1> USE DEF LogInv, PublishRoom, disk, ghosts
<1>0. pc = "room" /\ pc' \in {"roll", "write"} /\ Publishing /\ Publishing' /\ UNCHANGED <<call, calls>>
  BY DEF Publishing
<1>1. DirInv' /\ Whole' = Whole /\ AckInv'
  BY FilesStayDir DEF Running
<1>2. CallInv'
  BY <1>0 DEF CallInv, CallOf, Publishing
<1>3. IdInv'
  BY <1>0, <1>1 DEF IdInv, Pending
<1>4. TableInv'
  BY <1>0 DEF TableInv, Running, Settled, Stray, Current, NeedsRoll, CallInv
<1>5. StepInv'
  BY <1>0 DEF StepInv, NeedsRoll, Current
<1>6. PowerInv'
  BY <1>0 DEF PowerInv, Powered, Running, Stray
<1>7. OffsetInv'
  BY <1>0 DEF OffsetInv, Powered, Running, Served, After
<1> QED
  BY <1>1, <1>2, <1>3, <1>4, <1>5, <1>6, <1>7

\* advance_tick or compact begins.
LEMMA AdvanceTickKeeps ==
    ASSUME LogInv, NEW now \in Clock, AdvanceTick(now), UNCHANGED setting
    PROVE  LogInv'
<1> USE DEF LogInv, AdvanceTick, disk, ghosts
<1>0. pc = "idle" /\ pc' = "compact" /\ ~Publishing' /\ tick' \in 0..MaxTick
  BY DEF Publishing, Clock, CallInv
<1>1. DirInv' /\ Whole' = Whole /\ AckInv'
  BY FilesStayDir DEF Running
<1>2. CallInv'
  BY <1>0 DEF CallInv, CallOf, Publishing
<1>3. IdInv'
  BY <1>0, <1>1 DEF IdInv
<1>4. TableInv'
  BY <1>0 DEF TableInv, Running, Settled, Stray, Current, NeedsRoll
<1>5. StepInv'
  BY <1>0 DEF StepInv
<1>6. PowerInv'
  BY <1>0 DEF PowerInv, Powered, Running, Stray
<1>7. OffsetInv'
  BY <1>0 DEF OffsetInv, Powered, Running, Served, After
<1> QED
  BY <1>1, <1>2, <1>3, <1>4, <1>5, <1>6, <1>7

\* Every registered consumer of o is within what d holds: not below its first
\* offset, not beyond its last.
Within(o, d) ==
    \A c \in Consumer : o[c] # Unregistered =>
       /\ DOMAIN d = {} \/ \E f \in DOMAIN d : f <= o[c] + 1
       /\ IF DOMAIN d = {} THEN o[c] = 0 ELSE \E f \in DOMAIN d : o[c] < After(d, f)

\* What the writer serves is within the files it leaves.
LEMMA ServedIsWithin ==
    ASSUME LogInv, Running, NEW o \in Offsets, Served(o)
    PROVE  Within(o, segs)
<1>1. SUFFICES ASSUME NEW c \in Consumer, o[c] # Unregistered
               PROVE  IF DOMAIN segs = {} THEN o[c] = 0 ELSE \E f \in DOMAIN segs : o[c] < After(segs, f)
  BY DEF Served, Within
<1>2. o[c] \in Nat /\ o[c] < next
  BY <1>1 DEF Served, Offsets
<1>3. \A f \in DOMAIN segs : f \in Nat /\ Len(segs[f].frames) \in Nat
  BY WholeFiles DEF LogInv, IsFile, SegmentFile
<1>4. CASE DOMAIN mem = {}
  <2>1. next = 1 /\ o[c] = 0 /\ DOMAIN segs \subseteq {1}
    BY <1>4, <1>2 DEF LogInv, TableInv
  <2> QED
    BY <2>1, <1>3 DEF After
<1>5. CASE DOMAIN mem # {}
  <2>1. /\ Current \in DOMAIN segs /\ next = Current + mem[Current].count
        /\ mem[Current].count \in Nat /\ mem[Current].count <= Len(segs[Current].frames)
    BY <1>5 DEF LogInv, TableInv, Newest
  <2>2. o[c] < After(segs, Current)
    BY <2>1, <1>2, <1>3 DEF After
  <2> QED
    BY <2>1, <2>2
<1> QED
  BY <1>4, <1>5

\* The log is closed.
LEMMA CloseKeeps ==
    ASSUME LogInv, Close, UNCHANGED setting
    PROVE  LogInv'
<1> USE DEF LogInv, Close, disk, writer, ghosts
<1>0. pc = "idle" /\ pc' = "down" /\ ~Publishing' /\ ~Running'
  BY DEF Publishing, NoCall, Running
<1>1. DirInv' /\ Whole' = Whole /\ AckInv'
  BY FilesStayDir DEF Running
<1>2. CallInv'
  BY <1>0 DEF CallInv, CallOf, Publishing
<1>3. IdInv'
  BY <1>0, <1>1 DEF IdInv
<1>4. TableInv'
  BY <1>0 DEF TableInv, Running, Settled, Stray, Current, NeedsRoll
<1>5. StepInv'
  BY <1>0 DEF StepInv
<1>6. PowerInv'
  <2>1. ASSUME Powered, NEW f \in DOMAIN segs PROVE segs[f].synced = Len(segs[f].frames)
    <3>1. f \in DOMAIN mem /\ ~poisoned
      BY <1>0, <2>1 DEF TableInv, PowerInv, Stray, Running
    <3>2. mem[f].count = Len(segs[f].frames) /\ mem[f].count <= segs[f].synced
      BY <1>0, <2>1, <3>1 DEF TableInv, PowerInv, Running, Settled
    <3> QED
      BY <3>2, WholeFiles DEF IsFile, SegmentFile
  <2> QED
    BY <1>0, <2>1 DEF PowerInv, Powered, Running
<1>7. OffsetInv'
  <2>1. Running
    BY <1>0 DEF Running
  <2>2. \A o \in Offsets : Served(o) => Within(o, segs)
    BY <2>1, ServedIsWithin
  <2>3. \A o : Served(o)' <=> Within(o, segs)
    BY <1>0 DEF Served, Within, After
  <2> QED
    BY <1>0, <2>1, <2>2, <2>3 DEF OffsetInv, Powered
<1> QED
  BY <1>1, <1>2, <1>3, <1>4, <1>5, <1>6, <1>7

\* An unlink or the directory sync fails.
LEMMA CompactionFailsKeeps ==
    ASSUME LogInv, CompactionFails, UNCHANGED setting
    PROVE  LogInv'
<1> USE DEF LogInv, CompactionFails, disk, writer
<1>0. pc = "compact" /\ pc' = "idle" /\ ~Publishing' /\ UNCHANGED <<call, calls>>
  BY DEF Publishing
<1>1. DirInv' /\ Whole' = Whole /\ AckInv'
  BY FilesStayDir DEF Running
<1>2. CallInv'
  BY <1>0 DEF CallInv, CallOf, Publishing
<1>3. IdInv'
  BY <1>0, <1>1 DEF IdInv, Publishing, Pending, CallInv, CallOf
<1>4. TableInv'
  BY <1>0 DEF TableInv, Running, Settled, Stray, Current, NeedsRoll
<1>5. StepInv'
  BY <1>0 DEF StepInv
<1>6. PowerInv'
  BY <1>0 DEF PowerInv, Powered, Running, Stray
<1>7. OffsetInv'
  BY <1>0 DEF OffsetInv, Powered, Running, Served, After
<1> QED
  BY <1>1, <1>2, <1>3, <1>4, <1>5, <1>6, <1>7

\* The sync of a frame fails.
LEMMA SyncFailsKeeps ==
    ASSUME LogInv, SyncFails, UNCHANGED setting
    PROVE  LogInv'
<1> USE DEF LogInv, SyncFails, disk
<1>0. pc = "sync" /\ pc' = "discard" /\ Publishing /\ Publishing' /\ UNCHANGED <<call, calls>>
  BY DEF Publishing
<1>1. DirInv' /\ Whole' = Whole /\ AckInv'
  BY FilesStayDir DEF Running
<1>2. CallInv'
  BY <1>0 DEF CallInv, CallOf, Publishing
<1>3. IdInv'
  BY <1>0, <1>1 DEF IdInv, Pending, Current
<1>4. TableInv'
  BY <1>0 DEF TableInv, Running, Settled, Stray, Current, NeedsRoll
<1>5. StepInv'
  BY <1>0 DEF StepInv, NeedsRoll, Current
<1>6. PowerInv'
  BY <1>0 DEF PowerInv, Powered, Running, Stray
<1>7. OffsetInv'
  BY <1>0 DEF OffsetInv, Powered, Running, Served, After
<1> QED
  BY <1>1, <1>2, <1>3, <1>4, <1>5, <1>6, <1>7

-----------------------------------------------------------------------------
(* Calls that change the newest segment *)

\* The directory after a step that put s in the place of the writer's last segment.
Replaced(s) ==
    /\ gone' = gone /\ DOMAIN segs' = DOMAIN segs /\ segs'[Current] = s
    /\ \A f \in DOMAIN segs : f # Current => segs'[f] = segs[f]

\* The writer's last segment is the newest file, unless a file was left behind by a
\* segment that could not be started.
LEMMA CurrentIsNewest ==
    ASSUME LogInv, Running, DOMAIN mem # {}, ~Stray
    PROVE  /\ Current \in DOMAIN segs /\ Newest(Whole, Current) /\ Current \in Nat \ {0}
           /\ mem[Current].count \in Nat /\ next = Current + mem[Current].count
           /\ mem[Current].count <= Len(segs[Current].frames)
           /\ IsFile(segs[Current]) /\ Len(segs[Current].frames) \in Nat
           /\ DOMAIN segs = DOMAIN mem
<1>1. DOMAIN segs = DOMAIN mem /\ Newest(mem, Current) /\ next = Current + mem[Current].count
  BY DEF LogInv, TableInv, Stray
<1>2. Current \in DOMAIN segs /\ \A f \in DOMAIN segs : f <= Current
  BY <1>1 DEF Newest
<1>3. Newest(Whole, Current)
  <2>1. \A f \in DOMAIN gone : f < Current
    BY <1>2 DEF LogInv, DirInv
  <2> QED
    BY <2>1, <1>2, WholeFiles DEF LogInv, Newest
<1>4. IsFile(segs[Current]) /\ Current \in Nat \ {0}
  BY <1>2, WholeFiles DEF LogInv
<1>5. Len(segs[Current].frames) \in Nat
  BY <1>4 DEF IsFile, SegmentFile
<1> QED
  BY <1>1, <1>2, <1>3, <1>4, <1>5 DEF LogInv, TableInv

\* The directory stays one, and keeps what was acknowledged, as long as the segment
\* keeps the frames the writer has counted.
LEMMA CurrentChanges ==
    ASSUME LogInv, Running, DOMAIN mem # {}, ~Stray, NEW s, IsFile(s), Replaced(s),
           mem[Current].count <= Len(s.frames),
           \A i \in 1..mem[Current].count : s.frames[i] = segs[Current].frames[i]
    PROVE  /\ DirInv' /\ Readable(Whole', acked)
           /\ DOMAIN Whole' = DOMAIN Whole /\ Whole'[Current] = s /\ Whole[Current] = segs[Current]
           /\ \A f \in DOMAIN Whole : f # Current => Whole'[f] = Whole[f]
<1> DEFINE n == Current
           k == mem[Current].count
<1>0. DirInv /\ AckInv
  BY DEF LogInv
<1>1. /\ n \in DOMAIN segs /\ Newest(Whole, n) /\ n \in Nat \ {0} /\ k \in Nat
      /\ next = n + k /\ k <= Len(segs[n].frames)
  BY CurrentIsNewest
<1>2. DOMAIN Whole = DOMAIN gone \cup DOMAIN segs /\ DOMAIN Whole' = DOMAIN Whole
  BY DEF Whole, Replaced
<1>3. Whole'[n] = s /\ Whole[n] = segs[n]
  BY <1>1 DEF Whole, FileAt, Replaced
<1>4. \A f \in DOMAIN Whole : f # n => Whole'[f] = Whole[f]
  BY <1>2 DEF Whole, FileAt, Replaced
<1> HIDE DEF n, k
<1>5. IsDir(Whole) /\ n \in DOMAIN Whole
  BY <1>0, <1>1, <1>2 DEF DirInv
<1>6. \A f \in DOMAIN Whole' : IsFile(Whole'[f])
  BY <1>2, <1>3, <1>4, <1>5 DEF IsDir
<1>7. \A f \in DOMAIN Whole' : f # n => Whole'[f].frames = Whole[f].frames /\ ~Whole'[f].torn
  <2>1. SUFFICES ASSUME NEW f \in DOMAIN Whole, f # n PROVE ~Whole[f].torn
    BY <1>2, <1>4
  <2>2. f < n
    BY <2>1, <1>1, <1>5 DEF Newest, IsDir
  <2> QED
    BY <2>2, <1>5 DEF IsDir, Sealed
<1>8. IsDir(Whole')
  BY <1>1, <1>2, <1>5, <1>6, <1>7, NewestChanges
<1>9. DirInv'
  BY <1>8, <1>0 DEF DirInv, Replaced
<1>10. Readable(Whole', acked)
  <2>1. \A a \in acked : a[1] < n + k
    BY <1>0, <1>1 DEF AckInv
  <2>2. \A i \in 1..k : Whole'[n].frames[i] = Whole[n].frames[i]
    BY <1>3 DEF n, k
  <2>3. k <= Len(Whole'[n].frames) /\ k <= Len(Whole[n].frames)
    BY <1>1, <1>3 DEF n, k
  <2>4. acked \subseteq (Nat \ {0}) \X Nat /\ Readable(Whole, acked)
    BY <1>0 DEF AckInv
  <2> QED
    BY <1>1, <1>2, <1>5, <1>6, <1>7, <2>1, <2>2, <2>3, <2>4, NewestKeepsReadable
<1> QED
  BY <1>2, <1>3, <1>4, <1>9, <1>10 DEF n

\* The three ways a segment file is rewritten in place.
LEMMA FileSynced ==
    ASSUME NEW s, IsFile(s)
    PROVE  LET t == [s EXCEPT !.synced = Len(s.frames)]
           IN IsFile(t) /\ t.frames = s.frames /\ t.torn = s.torn /\ t.synced = Len(s.frames)
BY DEF IsFile, SegmentFile

\* As above.
LEMMA FileTorn ==
    ASSUME NEW s, IsFile(s)
    PROVE  LET t == [s EXCEPT !.torn = TRUE]
           IN IsFile(t) /\ t.frames = s.frames /\ t.synced = s.synced
BY DEF IsFile, SegmentFile

\* As above.
LEMMA FileAppended ==
    ASSUME NEW s, IsFile(s), NEW r \in Frame
    PROVE  LET t == [s EXCEPT !.frames = Append(@, r)]
           IN /\ IsFile(t) /\ t.frames = Append(s.frames, r) /\ t.synced = s.synced /\ t.torn = s.torn
              /\ Len(t.frames) = Len(s.frames) + 1 /\ t.frames[Len(s.frames) + 1] = r
              /\ \A i \in 1..Len(s.frames) : t.frames[i] = s.frames[i]
<1> DEFINE t == [s EXCEPT !.frames = Append(@, r)]
<1>1. t.frames = Append(s.frames, r) /\ t.synced = s.synced /\ t.torn = s.torn
  BY DEF IsFile, SegmentFile
<1>2. t = [frames |-> Append(s.frames, r), synced |-> s.synced, torn |-> s.torn]
  <2>1. s \in SegmentFile
    BY DEF IsFile
  <2>2. s = [frames |-> s.frames, synced |-> s.synced, torn |-> s.torn]
    BY <2>1 DEF SegmentFile
  <2> QED
    BY <2>2
<1>3. s.frames \in Seq(Frame)
  BY DEF IsFile, SegmentFile
<1>4. Append(s.frames, r) \in Seq(Frame) /\ Len(Append(s.frames, r)) = Len(s.frames) + 1
  BY <1>3
<1>5. IsFile(t)
  BY <1>2, <1>4, <1>3 DEF IsFile, SegmentFile
<1> HIDE DEF t
<1>6. t.frames[Len(s.frames) + 1] = r /\ \A i \in 1..Len(s.frames) : t.frames[i] = s.frames[i]
  BY <1>1, <1>3
<1> QED
  BY <1>1, <1>4, <1>5, <1>6 DEF t

\* What a sync of the open handle leaves: the same frames, all of the last segment
\* durable.
AllSynced ==
    /\ DOMAIN segs' = DOMAIN segs /\ gone' = gone
    /\ segs'[Current].synced = Len(segs[Current].frames)
    /\ \A f \in DOMAIN segs : /\ segs'[f].frames = segs[f].frames /\ segs'[f].torn = segs[f].torn
                              /\ f # Current => segs'[f] = segs[f]
    /\ DOMAIN Whole' = DOMAIN Whole
    /\ \A f \in DOMAIN Whole : Whole'[f].frames = Whole[f].frames

\* It keeps the directory.
LEMMA SyncKeepsFiles ==
    ASSUME LogInv, Running, DOMAIN mem # {}, ~Stray, segs' = SyncedLast, gone' = gone
    PROVE  DirInv' /\ Readable(Whole', acked) /\ AllSynced /\ Current \in DOMAIN segs
<1>1. /\ Current \in DOMAIN segs /\ IsFile(segs[Current])
      /\ mem[Current].count <= Len(segs[Current].frames)
  BY CurrentIsNewest
<1>2. PICK s : s = [segs[Current] EXCEPT !.synced = Len(segs[Current].frames)]
  OBVIOUS
<1>3. /\ IsFile(s) /\ s.frames = segs[Current].frames /\ s.torn = segs[Current].torn
      /\ s.synced = Len(segs[Current].frames)
  BY <1>1, <1>2, FileSynced
<1>4. Replaced(s)
  BY <1>1, <1>2 DEF Replaced, SyncedLast
<1>5. /\ DirInv' /\ Readable(Whole', acked)
      /\ DOMAIN Whole' = DOMAIN Whole /\ Whole'[Current] = s /\ Whole[Current] = segs[Current]
      /\ \A f \in DOMAIN Whole : f # Current => Whole'[f] = Whole[f]
  BY <1>1, <1>3, <1>4, CurrentChanges
<1> QED
  BY <1>1, <1>3, <1>4, <1>5 DEF AllSynced, Replaced

\* sync, called by the host.
LEMMA SyncKeeps ==
    ASSUME LogInv, Sync, UNCHANGED setting
    PROVE  LogInv'
<1> USE DEF LogInv, Sync, ghosts
<1>0. pc = "idle" /\ Running /\ Running' /\ ~Publishing'
  BY DEF Running, Publishing
<1>1. CASE ~active
  <2>1. DirInv' /\ Whole' = Whole /\ AckInv'
    BY <1>0, <1>1, FilesStayDir
  <2>2. CallInv'
    BY <1>0 DEF CallInv, CallOf, Publishing
  <2>3. IdInv'
    BY <1>0, <2>1 DEF IdInv, Pending, Current
  <2>4. TableInv'
    BY <1>0, <1>1 DEF TableInv, Running, Settled, Stray, Current, NeedsRoll
  <2>5. StepInv' /\ PowerInv'
    BY <1>0, <1>1 DEF StepInv, PowerInv, Powered, Running, Stray
  <2>6. OffsetInv'
    BY <1>0, <1>1 DEF OffsetInv, Powered, Running, Served, After
  <2> QED
    BY <2>1, <2>2, <2>3, <2>4, <2>5, <2>6
<1>2. CASE active
  <2>0. DOMAIN mem # {} /\ ~Stray /\ segs' = SyncedLast
    BY <1>0, <1>2 DEF TableInv
  <2>1. DirInv' /\ Readable(Whole', acked) /\ AllSynced /\ Current \in DOMAIN segs
    BY <1>0, <2>0, SyncKeepsFiles
  <2>2. CallInv'
    BY <1>0 DEF CallInv, CallOf, Publishing
  <2>3. IdInv'
    BY <1>0, <2>1 DEF IdInv, AllSynced
  <2>4. AckInv'
    BY <1>0, <2>1 DEF AckInv
  <2>5. TableInv'
    BY <1>0, <2>0, <2>1 DEF TableInv, Running, Settled, Stray, Current, NeedsRoll, AllSynced
  <2>6. StepInv'
    BY <1>0 DEF StepInv
  <2>7. PowerInv'
    BY <1>0, <2>0, <2>1 DEF PowerInv, Powered, Running, Stray, AllSynced, TableInv, Current
  <2>8. OffsetInv'
    BY <1>0, <2>1 DEF OffsetInv, Powered, Running, Served, AllSynced
  <2> QED
    BY <2>1, <2>2, <2>3, <2>4, <2>5, <2>6, <2>7, <2>8
<1> QED
  BY <1>0, <1>1, <1>2 DEF TableInv

\* start_segment closes the segment before it, or cannot sync it.
LEMMA SyncClosedKeeps ==
    ASSUME LogInv, SyncClosed, UNCHANGED setting
    PROVE  LogInv'
<1> USE DEF LogInv, SyncClosed
<1>0. pc = "roll" /\ Running /\ Running' /\ Publishing /\ pc' \in {"create", "idle"} /\ active' = FALSE
      /\ UNCHANGED <<call, calls, gone, loose, mem, next, poisoned, acked>> /\ call.id = calls
  BY DEF Running, Publishing, CallInv, CallOf
<1>1. CASE segs' = segs
  <2>1. DirInv' /\ Whole' = Whole /\ AckInv'
    BY <1>0, <1>1, FilesStayDir
  <2>2. CallInv'
    BY <1>0 DEF CallInv, CallOf, Publishing
  <2>3. IdInv'
    <3>1. CASE pc' = "create" /\ refused' = refused
      BY <1>0, <2>1, <3>1 DEF IdInv, Pending, Publishing
    <3>2. CASE pc' = "idle" /\ refused' = refused \cup {calls}
      <4>1. calls \in 1..calls
        BY <1>0 DEF CallInv
      <4> QED
        BY <1>0, <2>1, <3>2, <4>1 DEF IdInv, Pending, Publishing
    <3> QED
      BY <1>0, <1>1, <3>1, <3>2
  <2>4. TableInv'
    <3>1. /\ Current' = Current /\ (Settled' => Settled) /\ (Stray' => Stray)
          /\ (NeedsRoll => NeedsRoll')
      BY <1>0, <1>1 DEF Current, Settled, Stray, NeedsRoll
    <3> QED
      BY <1>0, <1>1, <3>1 DEF TableInv
  <2>5. StepInv'
    BY <1>0, <1>1 DEF StepInv, NeedsRoll, Current
  <2>6. PowerInv'
    BY <1>0, <1>1 DEF PowerInv, Powered, Running, Stray
  <2>7. OffsetInv'
    BY <1>0, <1>1 DEF OffsetInv, Powered, Running, Served, After
  <2> QED
    BY <2>1, <2>2, <2>3, <2>4, <2>5, <2>6, <2>7
<1>2. CASE active /\ segs' = SyncedLast /\ pc' = "create" /\ UNCHANGED <<refused, faults>>
  <2>0. DOMAIN mem # {} /\ ~Stray /\ segs' = SyncedLast
    BY <1>0, <1>2 DEF TableInv
  <2>1. DirInv' /\ Readable(Whole', acked) /\ AllSynced /\ Current \in DOMAIN segs
    BY <1>0, <2>0, SyncKeepsFiles
  <2>2. CallInv'
    BY <1>0 DEF CallInv, CallOf, Publishing
  <2>3. IdInv'
    BY <1>0, <1>2, <2>1 DEF IdInv, AllSynced, Pending
  <2>4. AckInv'
    BY <1>0, <2>1 DEF AckInv
  <2>5. TableInv'
    <3>1. /\ Current' = Current /\ (Settled' => Settled) /\ ~Stray'
      BY <1>0, <2>0, <2>1 DEF Current, Settled, Stray, AllSynced
    <3> QED
      BY <1>0, <2>0, <2>1, <3>1 DEF TableInv, AllSynced
  <2>6. StepInv'
    BY <1>0, <1>2 DEF StepInv, NeedsRoll, Current
  <2>7. PowerInv'
    BY <1>0, <1>2, <2>0, <2>1 DEF PowerInv, Powered, Running, Stray, AllSynced, TableInv, Current
  <2>8. OffsetInv'
    BY <1>0, <1>2, <2>1 DEF OffsetInv, Powered, Running, Served, AllSynced
  <2> QED
    BY <2>1, <2>2, <2>3, <2>4, <2>5, <2>6, <2>7, <2>8
<1> QED
  BY <1>0, <1>1, <1>2

\* A frame is written.
LEMMA WriteFrameKeeps ==
    ASSUME LogInv, WriteFrame, UNCHANGED setting
    PROVE  LogInv'
<1> USE DEF LogInv, WriteFrame, writer, ghosts
<1>0. /\ pc = "write" /\ pc' = "sync" /\ Running /\ Running' /\ Publishing /\ Publishing'
      /\ UNCHANGED <<call, calls, gone, loose, mem, next, poisoned, acked, refused>> /\ call.id = calls
      /\ calls \in 1..MaxCalls /\ tick \in 0..MaxTick
  BY LogAssumption DEF Running, Publishing, CallInv, CallOf
<1>1. DOMAIN mem # {} /\ ~Stray /\ active /\ ~NeedsRoll /\ Settled
  BY <1>0 DEF StepInv, NeedsRoll, TableInv, Settled, CallInv
<1>2. /\ Current \in DOMAIN segs /\ IsFile(segs[Current]) /\ mem[Current].count \in Nat
      /\ Len(segs[Current].frames) \in Nat /\ DOMAIN mem = DOMAIN segs /\ Current \in Nat
  BY <1>0, <1>1, CurrentIsNewest
<1>3. mem[Current].count = Len(segs[Current].frames) /\ ~segs[Current].torn
  BY <1>0, <1>1, <1>2 DEF TableInv
<1>4. PICK r : r = [call |-> call.id, tick |-> tick]
  OBVIOUS
<1>5. r \in Frame /\ r.call = calls
  BY <1>0, <1>4 DEF Frame
<1>6. PICK s : s = [segs[Current] EXCEPT !.frames = Append(@, r)]
  OBVIOUS
<1>7. /\ IsFile(s) /\ s.synced = segs[Current].synced /\ s.torn = segs[Current].torn
      /\ Len(s.frames) = Len(segs[Current].frames) + 1 /\ s.frames[Len(segs[Current].frames) + 1] = r
      /\ \A i \in 1..Len(segs[Current].frames) : s.frames[i] = segs[Current].frames[i]
  BY <1>2, <1>5, <1>6, FileAppended
<1>8. Replaced(s)
  BY <1>2, <1>4, <1>6 DEF Replaced
<1>9. /\ DirInv' /\ Readable(Whole', acked)
      /\ DOMAIN Whole' = DOMAIN Whole /\ Whole'[Current] = s /\ Whole[Current] = segs[Current]
      /\ \A f \in DOMAIN Whole : f # Current => Whole'[f] = Whole[f]
  BY <1>0, <1>1, <1>2, <1>3, <1>7, <1>8, CurrentChanges
<1>10. CallInv'
  BY <1>0 DEF CallInv, CallOf, Publishing
<1>11. IdInv'
  <2>1. Current' = Current
    BY DEF Current
  <2>2. ASSUME NEW f \in DOMAIN Whole, NEW i \in 1..Len(Whole'[f].frames)
        PROVE  /\ Whole'[f].frames[i].call \in 1..calls
               /\ Whole'[f].frames[i].call \notin refused
               /\ ~Pending(f, i)' => Whole'[f].frames[i].call # calls
    <3>1. CASE f # Current
      BY <1>0, <1>9, <2>2, <3>1 DEF IdInv, Pending
    <3>2. CASE f = Current /\ i <= Len(segs[Current].frames)
      <4>1. i \in 1..Len(Whole[f].frames) /\ Whole'[f].frames[i] = Whole[f].frames[i]
        BY <1>2, <1>7, <1>9, <2>2, <3>2
      <4> QED
        BY <1>0, <4>1 DEF IdInv, Pending
    <3>3. CASE f = Current /\ ~(i <= Len(segs[Current].frames))
      <4>1. i = Len(segs[Current].frames) + 1
        BY <1>2, <1>7, <1>9, <2>2, <3>3
      <4>2. Whole'[f].frames[i] = r /\ i > mem[Current].count
        BY <4>1, <3>3, <1>2, <1>3, <1>7, <1>9
      <4> QED
        BY <4>2, <3>3, <1>0, <1>5, <2>1 DEF IdInv, Pending
    <3> QED
      BY <3>1, <3>2, <3>3
  <2> QED
    BY <1>0, <1>9, <2>2 DEF IdInv
<1>12. AckInv'
  BY <1>0, <1>9 DEF AckInv
<1>13. TableInv'
  BY <1>0, <1>1, <1>2, <1>3, <1>7, <1>8 DEF TableInv, Replaced, Settled, Stray, Current, Newest
<1>14. StepInv'
  BY <1>0, <1>1, <1>2, <1>3, <1>5, <1>7, <1>8 DEF StepInv, Replaced, NeedsRoll, Current
<1>15. PowerInv'
  BY <1>0, <1>1, <1>2, <1>7, <1>8 DEF PowerInv, Powered, Stray, Replaced, TableInv
<1>16. OffsetInv'
  BY <1>0, <1>8 DEF OffsetInv, Powered, Running, Served, Replaced
<1> QED
  BY <1>9, <1>10, <1>11, <1>12, <1>13, <1>14, <1>15, <1>16

\* While a frame is written, synced or discarded, the writer's last segment is the
\* newest file.
LEMMA WritingCurrent ==
    ASSUME LogInv, pc \in {"write", "sync", "discard"}
    PROVE  /\ Running /\ Publishing /\ DOMAIN mem # {} /\ ~Stray /\ active /\ ~NeedsRoll /\ ~poisoned
           /\ call.id = calls /\ calls \in 1..MaxCalls
           /\ Current \in DOMAIN segs /\ IsFile(segs[Current]) /\ mem[Current].count \in Nat
           /\ Len(segs[Current].frames) \in Nat /\ DOMAIN mem = DOMAIN segs /\ Current \in Nat \ {0}
           /\ mem[Current].count <= Len(segs[Current].frames) /\ next = Current + mem[Current].count
<1> USE DEF LogInv
<1>1. Running /\ Publishing
  BY DEF Running, Publishing
<1>2. call.id = calls /\ calls \in 1..MaxCalls /\ ~poisoned
  BY <1>1, LogAssumption DEF CallInv, CallOf
<1>3. DOMAIN mem # {} /\ ~Stray /\ active /\ ~NeedsRoll
  BY <1>1 DEF StepInv, NeedsRoll, TableInv
<1> QED
  BY <1>1, <1>2, <1>3, CurrentIsNewest

\* The write of a frame fails.
LEMMA WriteFailsKeeps ==
    ASSUME LogInv, WriteFails, UNCHANGED setting
    PROVE  LogInv'
<1> USE DEF LogInv, WriteFails, writer
<1>0. /\ pc = "write" /\ pc' = "discard" /\ Running' /\ Publishing'
      /\ UNCHANGED <<call, calls, gone, loose, mem, next, poisoned, acked, refused, active>>
  BY DEF Running, Publishing
<1>1. /\ Running /\ Publishing /\ DOMAIN mem # {} /\ ~Stray /\ active /\ ~NeedsRoll /\ ~poisoned
      /\ Current \in DOMAIN segs /\ IsFile(segs[Current]) /\ mem[Current].count \in Nat
      /\ Len(segs[Current].frames) \in Nat /\ DOMAIN mem = DOMAIN segs /\ Current \in Nat
      /\ mem[Current].count <= Len(segs[Current].frames)
  BY <1>0, WritingCurrent
<1>3. mem[Current].count = Len(segs[Current].frames)
  BY <1>0, <1>1 DEF TableInv, Settled
<1>6. PICK s : s = [segs[Current] EXCEPT !.torn = TRUE]
  OBVIOUS
<1>7. IsFile(s) /\ s.synced = segs[Current].synced /\ s.frames = segs[Current].frames
  BY <1>1, <1>6, FileTorn
<1>8. Replaced(s)
  BY <1>1, <1>6 DEF Replaced
<1>9. /\ DirInv' /\ Readable(Whole', acked)
      /\ DOMAIN Whole' = DOMAIN Whole /\ Whole'[Current] = s /\ Whole[Current] = segs[Current]
      /\ \A f \in DOMAIN Whole : f # Current => Whole'[f] = Whole[f]
  BY <1>1, <1>3, <1>7, <1>8, CurrentChanges
<1>10. CallInv'
  BY <1>0 DEF CallInv, CallOf, Publishing
<1>11. IdInv'
  <2>1. \A f \in DOMAIN Whole : Whole'[f].frames = Whole[f].frames
    BY <1>7, <1>9
  <2> QED
    BY <1>0, <1>1, <1>9, <2>1 DEF IdInv, Pending
<1>12. AckInv'
  BY <1>0, <1>1, <1>9 DEF AckInv
<1>13. TableInv'
  BY <1>0, <1>1, <1>3, <1>7, <1>8 DEF TableInv, Replaced, Settled, Stray, Current, Newest
<1>14. StepInv'
  BY <1>0, <1>1 DEF StepInv, NeedsRoll, Current
<1>15. PowerInv'
  BY <1>0, <1>1, <1>7, <1>8 DEF PowerInv, Powered, Stray, Replaced
<1>16. OffsetInv'
  BY <1>0, <1>1, <1>8 DEF OffsetInv, Powered, Running, Served, Replaced
<1> QED
  BY <1>9, <1>10, <1>11, <1>12, <1>13, <1>14, <1>15, <1>16

\* The frame is counted: synced, where the policy says so, and acknowledged.
LEMMA SyncFrameKeeps ==
    ASSUME LogInv, SyncFrame, UNCHANGED setting
    PROVE  LogInv'
<1> USE DEF LogInv, SyncFrame
<1> DEFINE k == mem[Current].count
<1>0. /\ pc = "sync" /\ pc' = "idle" /\ Running' /\ ~Publishing'
      /\ UNCHANGED <<call, calls, gone, loose, poisoned, refused, active, committed, offsets, shadow>>
      /\ next' = next + 1
  BY DEF Running, Publishing
<1>1. /\ Running /\ Publishing /\ DOMAIN mem # {} /\ ~Stray /\ active /\ ~NeedsRoll /\ ~poisoned
      /\ Current \in DOMAIN segs /\ IsFile(segs[Current]) /\ k \in Nat /\ next = Current + k
      /\ DOMAIN mem = DOMAIN segs /\ Current \in Nat \ {0} /\ call.id = calls /\ calls \in Nat
  BY <1>0, WritingCurrent
<1>2. /\ Len(segs[Current].frames) = k + 1 /\ segs[Current].frames[k + 1].call = calls
      /\ ~segs[Current].torn
  BY <1>0 DEF StepInv
<1>3. /\ DirInv' /\ Readable(Whole', acked) /\ DOMAIN segs' = DOMAIN segs
      /\ \A f \in DOMAIN segs : /\ segs'[f].frames = segs[f].frames /\ segs'[f].torn = segs[f].torn
                                /\ f # Current => segs'[f] = segs[f]
      /\ DOMAIN Whole' = DOMAIN Whole
      /\ \A f \in DOMAIN Whole : Whole'[f].frames = Whole[f].frames
      /\ SyncDue => segs'[Current].synced = k + 1
  <2>1. CASE SyncDue
    <3>1. DirInv' /\ Readable(Whole', acked) /\ AllSynced
      BY <1>0, <1>1, <2>1, SyncKeepsFiles
    <3> QED
      BY <3>1, <1>2 DEF AllSynced
  <2>2. CASE ~SyncDue
    <3>1. DirInv' /\ Whole' = Whole /\ segs' = segs
      BY <1>0, <2>2, FilesStayDir
    <3> QED
      BY <3>1, <2>2 DEF AckInv
  <2> QED
    BY <2>1, <2>2
<1>4. /\ DOMAIN mem' = DOMAIN mem /\ mem'[Current].count = k + 1 /\ Current' = Current
      /\ \A f \in DOMAIN mem : f # Current => mem'[f] = mem[f]
  BY <1>1 DEF Current
<1> HIDE DEF k
<1>10. CallInv'
  BY <1>0 DEF CallInv
<1>11. IdInv'
  BY <1>0, <1>3 DEF IdInv
<1>12. AckInv'
  <2>1. acked' = acked \cup {<<next, calls>>}
    BY <1>1
  <2>2. Found(Whole', <<next, calls>>)
    <3>1. Whole'[Current].frames = segs[Current].frames /\ Current \in DOMAIN Whole'
      BY <1>1, <1>3, WholeFiles
    <3>2. /\ Current <= next /\ next < After(Whole', Current) /\ next - Current + 1 = k + 1
      BY <1>1, <1>2, <3>1 DEF After
    <3> QED
      BY <1>2, <3>1, <3>2 DEF Found
  <2>3. Readable(Whole', acked')
    BY <2>1, <2>2, <1>3 DEF Readable
  <2>4. next \in Nat \ {0}
    BY <1>1
  <2>5. \A a \in acked' : a \in (Nat \ {0}) \X Nat /\ a[1] < next'
    BY <2>1, <2>4, <1>0, <1>1 DEF AckInv
  <2> QED
    BY <2>3, <2>5 DEF AckInv
<1>13. TableInv'
  <2>1. ~Stray' /\ ~poisoned'
    BY <1>0, <1>1, <1>3, <1>4 DEF Stray
  <2>2. \A f \in DOMAIN mem' : /\ mem'[f].count \in Nat /\ mem'[f].count <= Len(segs'[f].frames)
                               /\ mem'[f].count = Len(segs'[f].frames) /\ ~segs'[f].torn
    <3>1. SUFFICES ASSUME NEW f \in DOMAIN mem
                   PROVE  mem'[f].count \in Nat /\ mem'[f].count = Len(segs'[f].frames) /\ ~segs'[f].torn
      BY <1>4
    <3>2. CASE f = Current
      BY <3>2, <1>1, <1>2, <1>3, <1>4
    <3>3. CASE f # Current
      <4>1. f < Current
        BY <3>3, <1>1, WholeFiles DEF TableInv, Newest
      <4>2. mem[f].count \in Nat /\ mem[f].count = Len(segs[f].frames) /\ ~segs[f].torn
        BY <4>1, <1>1 DEF TableInv
      <4> QED
        BY <4>2, <3>3, <1>1, <1>3, <1>4
    <3> QED
      BY <3>2, <3>3
  <2>3. Newest(mem', Current') /\ next' = Current' + mem'[Current'].count /\ DOMAIN mem' # {}
    BY <1>0, <1>1, <1>4 DEF TableInv, Newest
  <2> QED
    BY <1>0, <1>1, <1>3, <1>4, <2>1, <2>2, <2>3 DEF TableInv
<1>14. StepInv'
  BY <1>0 DEF StepInv
<1>15. PowerInv'
  <2>1. ASSUME Powered PROVE SyncDue
    BY <2>1, LogAssumption DEF CallInv, Powered, SyncDue, SyncEvery
  <2>2. ~Stray'
    BY <1>1, <1>3, <1>4 DEF Stray
  <2>3. ASSUME Powered, NEW f \in DOMAIN mem PROVE mem'[f].count <= segs'[f].synced
    <3>1. CASE f = Current
      BY <3>1, <2>1, <2>3, <1>1, <1>3, <1>4
    <3>2. CASE f # Current
      BY <3>2, <2>3, <1>1, <1>3, <1>4 DEF PowerInv
    <3> QED
      BY <3>1, <3>2
  <2> QED
    BY <1>0, <1>1, <1>4, <2>2, <2>3 DEF PowerInv, Powered
<1>16. OffsetInv'
  <2>1. ASSUME NEW o \in Offsets, Served(o) PROVE Served(o)'
    BY <2>1, <1>0, <1>1, <1>3 DEF Served, Offsets
  <2> QED
    BY <1>0, <1>1, <2>1 DEF OffsetInv, Powered
<1> QED
  BY <1>3, <1>10, <1>11, <1>12, <1>13, <1>14, <1>15, <1>16

\* discard_tail: the files after the last segment is cut back.
LEMMA CutKeepsFiles ==
    ASSUME LogInv, pc = "discard", segs' = Cut, gone' = gone
    PROVE  \E s : /\ IsFile(s) /\ Replaced(s) /\ Len(s.frames) = mem[Current].count /\ ~s.torn
                  /\ Syncs => s.synced = mem[Current].count
                  /\ DirInv' /\ Readable(Whole', acked)
                  /\ DOMAIN Whole' = DOMAIN Whole /\ Whole'[Current] = s /\ Whole[Current] = segs[Current]
                  /\ \A f \in DOMAIN Whole : f # Current => Whole'[f] = Whole[f]
                  /\ \A i \in 1..mem[Current].count : s.frames[i] = segs[Current].frames[i]
<1>1. /\ Running /\ DOMAIN mem # {} /\ ~Stray
      /\ Current \in DOMAIN segs /\ IsFile(segs[Current]) /\ mem[Current].count \in Nat
      /\ mem[Current].count <= Len(segs[Current].frames)
  BY WritingCurrent
<1>2. PICK k : k = mem[Current].count
  OBVIOUS
<1>3. PICK old : old = segs[Current]
  OBVIOUS
<1>4. old.frames \in Seq(Frame) /\ old.synced \in Nat /\ k \in Nat /\ k <= Len(old.frames)
  BY <1>1, <1>2, <1>3 DEF IsFile, SegmentFile
<1>5. PICK y : y = IF Syncs THEN k ELSE Min({old.synced, k})
  OBVIOUS
<1>6. y \in Nat /\ y <= k
  <2>1. {old.synced, k} \subseteq Nat
    BY <1>4
  <2>2. Min({old.synced, k}) \in {old.synced, k} /\ \A z \in {old.synced, k} : Min({old.synced, k}) <= z
    BY <2>1, NatMin
  <2> QED
    BY <2>2, <1>4, <1>5
<1>7. PICK s : s = [frames |-> SubSeq(old.frames, 1, k), torn |-> FALSE, synced |-> y]
  OBVIOUS
<1>8. /\ SubSeq(old.frames, 1, k) \in Seq(Frame) /\ Len(SubSeq(old.frames, 1, k)) = k
      /\ \A i \in 1..k : SubSeq(old.frames, 1, k)[i] = old.frames[i]
  BY <1>4
<1>9. s.frames = SubSeq(old.frames, 1, k) /\ s.torn = FALSE /\ s.synced = y
  BY <1>7
<1>10. IsFile(s) /\ Len(s.frames) = k /\ \A i \in 1..k : s.frames[i] = old.frames[i]
  BY <1>6, <1>7, <1>8, <1>9 DEF IsFile, SegmentFile
<1>11. Replaced(s)
  BY <1>1, <1>2, <1>3, <1>5, <1>7 DEF Replaced, Cut
<1>12. /\ DirInv' /\ Readable(Whole', acked)
       /\ DOMAIN Whole' = DOMAIN Whole /\ Whole'[Current] = s /\ Whole[Current] = segs[Current]
       /\ \A f \in DOMAIN Whole : f # Current => Whole'[f] = Whole[f]
  <2>1. mem[Current].count <= Len(s.frames)
    BY <1>2, <1>4, <1>10
  <2>2. \A i \in 1..mem[Current].count : s.frames[i] = segs[Current].frames[i]
    BY <1>2, <1>3, <1>10
  <2> QED
    BY <1>1, <1>10, <1>11, <2>1, <2>2, CurrentChanges
<1>13. Syncs => s.synced = mem[Current].count
  BY <1>2, <1>5, <1>9
<1>14. Len(s.frames) = mem[Current].count /\ \A i \in 1..mem[Current].count : s.frames[i] = segs[Current].frames[i]
  BY <1>2, <1>3, <1>10
<1>15. ~s.torn
  BY <1>9
<1> QED
  BY <1>10, <1>11, <1>12, <1>13, <1>14, <1>15, Zenon

\* A failed write or sync is rolled back.
LEMMA DiscardTailKeeps ==
    ASSUME LogInv, DiscardTail, UNCHANGED setting
    PROVE  LogInv'
<1> USE DEF LogInv, DiscardTail
<1>0. /\ pc = "discard" /\ pc' = "idle" /\ Running' /\ ~Publishing' /\ active' = FALSE
      /\ UNCHANGED <<call, calls, gone, loose, poisoned, mem, next, acked, committed, offsets, shadow>>
  BY DEF Running, Publishing
<1>1. /\ Running /\ Publishing /\ DOMAIN mem # {} /\ ~Stray /\ ~poisoned
      /\ Current \in DOMAIN segs /\ mem[Current].count \in Nat
      /\ mem[Current].count <= Len(segs[Current].frames) /\ Len(segs[Current].frames) \in Nat
      /\ DOMAIN mem = DOMAIN segs /\ Current \in Nat \ {0} /\ call.id = calls /\ calls \in 1..MaxCalls
  BY <1>0, WritingCurrent
<1>2. PICK s : /\ IsFile(s) /\ Replaced(s) /\ Len(s.frames) = mem[Current].count /\ ~s.torn
               /\ Syncs => s.synced = mem[Current].count
               /\ DirInv' /\ Readable(Whole', acked)
               /\ DOMAIN Whole' = DOMAIN Whole /\ Whole'[Current] = s /\ Whole[Current] = segs[Current]
               /\ \A f \in DOMAIN Whole : f # Current => Whole'[f] = Whole[f]
               /\ \A i \in 1..mem[Current].count : s.frames[i] = segs[Current].frames[i]
  BY <1>0, CutKeepsFiles
<1>3. /\ DOMAIN segs' = DOMAIN segs /\ segs'[Current] = s
      /\ \A f \in DOMAIN segs : f # Current => segs'[f] = segs[f]
  BY <1>2 DEF Replaced
<1>4. Current' = Current
  BY <1>0 DEF Current
<1>10. CallInv'
  BY <1>0 DEF CallInv
<1>11. IdInv'
  <2>1. refused' = refused \cup {calls} /\ calls \in 1..calls
    BY <1>1
  <2>2. ASSUME NEW f \in DOMAIN Whole, NEW i \in 1..Len(Whole'[f].frames)
        PROVE  i \in 1..Len(Whole[f].frames) /\ ~Pending(f, i) /\ Whole'[f].frames[i] = Whole[f].frames[i]
    BY <2>2, <1>1, <1>2 DEF Pending
  <2>3. \A f \in DOMAIN Whole : \A i \in 1..Len(Whole'[f].frames) :
            Whole'[f].frames[i].call \in 1..calls /\ Whole'[f].frames[i].call \notin refused \cup {calls}
    BY <1>1, <2>2 DEF IdInv
  <2> QED
    BY <1>0, <1>2, <2>1, <2>3 DEF IdInv
<1>12. AckInv'
  BY <1>0, <1>1, <1>2 DEF AckInv
<1>13. TableInv'
  <2>1. ~Stray'
    BY <1>0, <1>1, <1>3 DEF Stray
  <2>2. \A f \in DOMAIN mem : mem[f].count = Len(segs'[f].frames) /\ ~segs'[f].torn
    <3>1. ASSUME NEW f \in DOMAIN mem, f # Current PROVE f < Current
      BY <3>1, <1>1, WholeFiles DEF TableInv, Newest
    <3> QED
      BY <1>1, <1>2, <1>3, <3>1 DEF TableInv
  <2>3. /\ DOMAIN mem' \subseteq DOMAIN segs' /\ DOMAIN segs' \subseteq DOMAIN mem' \cup {next'}
        /\ active' \in BOOLEAN /\ poisoned' \in BOOLEAN
    BY <1>0, <1>1, <1>3 DEF TableInv
  <2>4. \A f \in DOMAIN mem' : mem'[f].count \in Nat /\ mem'[f].count <= Len(segs'[f].frames)
    BY <1>0, <1>1, <2>2 DEF TableInv
  <2>5. DOMAIN mem' # {} /\ Newest(mem', Current') /\ next' = Current' + mem'[Current'].count
    BY <1>0, <1>1, <1>4 DEF TableInv
  <2> QED
    BY <1>0, <2>1, <2>2, <2>3, <2>4, <2>5 DEF TableInv
<1>14. StepInv'
  BY <1>0 DEF StepInv
<1>15. PowerInv'
  <2>1. ASSUME Powered PROVE Syncs
    BY <2>1, LogAssumption DEF CallInv, Powered, Syncs, SyncEvery
  <2>2. ~Stray'
    BY <1>0, <1>1, <1>3 DEF Stray
  <2>3. ASSUME Powered, NEW f \in DOMAIN mem PROVE mem[f].count <= segs'[f].synced
    BY <2>1, <2>3, <1>1, <1>2, <1>3 DEF PowerInv
  <2> QED
    BY <1>0, <1>1, <2>2, <2>3 DEF PowerInv, Powered
<1>16. OffsetInv'
  BY <1>0, <1>1, <1>3 DEF OffsetInv, Powered, Served
<1> QED
  BY <1>2, <1>10, <1>11, <1>12, <1>13, <1>14, <1>15, <1>16

\* The rollback fails and the writer refuses to go on.
LEMMA DiscardFailsKeeps ==
    ASSUME FaultsApart, LogInv, DiscardFails, UNCHANGED setting
    PROVE  LogInv'
<1> USE DEF LogInv, DiscardFails
<1>0. /\ pc = "discard" /\ pc' = "idle" /\ Running' /\ ~Publishing' /\ active' = FALSE /\ poisoned' = TRUE
      /\ UNCHANGED <<call, calls, gone, loose, mem, next, acked, refused, committed, offsets, shadow>>
  BY DEF Running, Publishing
<1>1. /\ Running /\ Publishing /\ DOMAIN mem # {} /\ ~Stray /\ ~poisoned
      /\ Current \in DOMAIN segs /\ mem[Current].count \in Nat
      /\ mem[Current].count <= Len(segs[Current].frames) /\ Len(segs[Current].frames) \in Nat
      /\ DOMAIN mem = DOMAIN segs /\ Current \in Nat \ {0}
  BY <1>0, WritingCurrent
<1>2. /\ DirInv' /\ Readable(Whole', acked) /\ DOMAIN segs' = DOMAIN segs /\ DOMAIN Whole' = DOMAIN Whole
      /\ mem[Current].count <= Len(segs'[Current].frames)
      /\ \A f \in DOMAIN segs : f # Current => segs'[f] = segs[f]
      /\ \A f \in DOMAIN Whole : \A i \in 1..Len(Whole'[f].frames) :
            i \in 1..Len(Whole[f].frames) /\ Whole'[f].frames[i] = Whole[f].frames[i]
  <2>1. CASE segs' = segs
    <3>1. DirInv' /\ Whole' = Whole
      BY <1>0, <2>1, FilesStayDir
    <3> QED
      BY <3>1, <2>1, <1>1 DEF AckInv
  <2>2. CASE segs' = Cut
    <3>1. PICK s : /\ IsFile(s) /\ Replaced(s) /\ Len(s.frames) = mem[Current].count
                   /\ DirInv' /\ Readable(Whole', acked)
                   /\ DOMAIN Whole' = DOMAIN Whole /\ Whole'[Current] = s /\ Whole[Current] = segs[Current]
                   /\ \A f \in DOMAIN Whole : f # Current => Whole'[f] = Whole[f]
                   /\ \A i \in 1..mem[Current].count : s.frames[i] = segs[Current].frames[i]
      BY <1>0, <2>2, CutKeepsFiles
    <3>2. /\ DOMAIN segs' = DOMAIN segs /\ segs'[Current] = s
          /\ \A f \in DOMAIN segs : f # Current => segs'[f] = segs[f]
      BY <3>1 DEF Replaced
    <3>3. ASSUME NEW f \in DOMAIN Whole, NEW i \in 1..Len(Whole'[f].frames)
          PROVE  i \in 1..Len(Whole[f].frames) /\ Whole'[f].frames[i] = Whole[f].frames[i]
      BY <3>1, <3>3, <1>1
    <3> QED
      BY <1>1, <3>1, <3>2, <3>3
  <2> QED
    BY <2>1, <2>2
<1>4. Current' = Current
  BY <1>0 DEF Current
<1>10. CallInv'
  BY <1>0 DEF CallInv
<1>11. IdInv'
  BY <1>0, <1>2 DEF IdInv
<1>12. AckInv'
  BY <1>0, <1>1, <1>2 DEF AckInv
<1>13. TableInv'
  <2>1. ~Stray' /\ ~Settled'
    BY <1>0, <1>1, <1>2 DEF Stray, Settled
  <2>2. \A f \in DOMAIN mem : f < Current => f # Current
    BY <1>1, WholeFiles
  <2> QED
    BY <1>0, <1>1, <1>2, <1>4, <2>1, <2>2 DEF TableInv
<1>14. StepInv'
  BY <1>0 DEF StepInv
<1>15. PowerInv'
  BY DEF PowerInv, Powered, FaultsApart, CallInv, Fault
<1>16. OffsetInv'
  BY <1>0, <1>1, <1>2 DEF OffsetInv, Powered, Served, FaultsApart, CallInv, Fault
<1> QED
  BY <1>2, <1>10, <1>11, <1>12, <1>13, <1>14, <1>15, <1>16

\* The process dies in the middle of a call.
LEMMA KillKeeps ==
    ASSUME FaultsApart, LogInv, Kill, UNCHANGED setting
    PROVE  LogInv'
<1> USE DEF LogInv, Kill, writer
<1>0. /\ Running /\ pc' = "down" /\ ~Running' /\ ~Publishing' /\ ~Powered /\ ~Powered'
      /\ UNCHANGED <<calls, gone, acked, refused, offsets, shadow, committed>>
  BY DEF Running, Publishing, NoCall, Powered, FaultsApart, CallInv, Fault
<1>1. /\ DirInv' /\ Readable(Whole', acked) /\ DOMAIN segs' = DOMAIN segs /\ DOMAIN Whole' = DOMAIN Whole
      /\ \A f \in DOMAIN segs : segs'[f].frames = segs[f].frames
      /\ \A f \in DOMAIN Whole : Whole'[f].frames = Whole[f].frames
  <2>1. CASE segs' = segs
    <3>1. DirInv' /\ Whole' = Whole
      BY <1>0, <2>1, FilesStayDir
    <3> QED
      BY <3>1, <2>1 DEF AckInv
  <2>2. CASE pc = "write" /\ segs' = [segs EXCEPT ![Current].torn = TRUE]
    <3>1. /\ DOMAIN mem # {} /\ ~Stray /\ Current \in DOMAIN segs /\ IsFile(segs[Current])
          /\ mem[Current].count <= Len(segs[Current].frames)
      BY <2>2, WritingCurrent
    <3>2. PICK s : s = [segs[Current] EXCEPT !.torn = TRUE]
      OBVIOUS
    <3>3. IsFile(s) /\ s.frames = segs[Current].frames
      BY <3>1, <3>2, FileTorn
    <3>4. Replaced(s)
      BY <1>0, <2>2, <3>1, <3>2 DEF Replaced
    <3>5. /\ DirInv' /\ Readable(Whole', acked)
          /\ DOMAIN Whole' = DOMAIN Whole /\ Whole'[Current] = s /\ Whole[Current] = segs[Current]
          /\ \A f \in DOMAIN Whole : f # Current => Whole'[f] = Whole[f]
      BY <1>0, <3>1, <3>3, <3>4, CurrentChanges
    <3> QED
      BY <3>3, <3>4, <3>5 DEF Replaced
  <2> QED
    BY <2>1, <2>2
<1>2. CallInv'
  BY <1>0 DEF CallInv
<1>3. IdInv'
  BY <1>0, <1>1 DEF IdInv
<1>4. AckInv'
  BY <1>0, <1>1 DEF AckInv
<1>5. TableInv' /\ StepInv' /\ PowerInv'
  BY <1>0 DEF TableInv, StepInv, PowerInv
<1>6. OffsetInv'
  <2>1. ASSUME NEW o \in Offsets, Served(o) PROVE Served(o)'
    <3>1. Within(o, segs)
      BY <1>0, <2>1, ServedIsWithin
    <3> QED
      BY <1>0, <1>1, <3>1 DEF Within, Served, After
  <2> QED
    BY <1>0, <2>1 DEF OffsetInv
<1> QED
  BY <1>1, <1>2, <1>3, <1>4, <1>5, <1>6

-----------------------------------------------------------------------------
(* Calls that unlink and create segments *)

\* Once the directory is synced only its own files count.
LEMMA DirSyncKeepsFiles ==
    ASSUME LogInv, segs' = segs, gone' = <<>>
    PROVE  /\ DirInv' /\ Readable(Whole', acked)
           /\ DOMAIN gone' = {} /\ DOMAIN Whole' = DOMAIN segs
           /\ \A f \in DOMAIN segs : f \in DOMAIN Whole /\ Whole'[f] = Whole[f]
<1>1. DOMAIN gone' = {}
  OBVIOUS
<1>2. DOMAIN Whole' = DOMAIN segs /\ \A f \in DOMAIN segs : Whole'[f] = segs[f]
  BY <1>1 DEF Whole, FileAt
<1>3. IsDir(segs) /\ Readable(segs, acked)
  BY SegsAreADir DEF LogInv
<1>4. IsDir(Whole') /\ Readable(Whole', acked)
  BY <1>2, <1>3, UpperPart DEF LogInv, AckInv
<1> QED
  BY <1>1, <1>2, <1>4, WholeFiles DEF DirInv, LogInv

\* compact is done; what it unlinked is durable once the directory is synced.
LEMMA EndCompactionKeeps ==
    ASSUME LogInv, EndCompaction, UNCHANGED setting
    PROVE  LogInv'
<1> USE DEF LogInv, EndCompaction, writer, ghosts
<1>0. /\ pc = "compact" /\ pc' \in {"room", "idle"} /\ Running /\ Running'
      /\ Publishing' => Publishing
      /\ UNCHANGED <<segs, call, calls, acked, refused, next, mem, poisoned, active, offsets, committed>>
  BY DEF Running, Publishing, AfterCompaction
<1>1. CASE UNCHANGED <<gone, loose, shadow>>
  <2>1. DirInv' /\ Whole' = Whole /\ AckInv'
    BY <1>0, <1>1, FilesStayDir
  <2>2. CallInv'
    BY <1>0 DEF CallInv, CallOf, Publishing, AfterCompaction
  <2>3. IdInv'
    BY <1>0, <2>1 DEF IdInv, Pending
  <2>4. TableInv'
    BY <1>0 DEF TableInv, Running, Settled, Stray, Current, NeedsRoll
  <2>5. StepInv' /\ PowerInv'
    BY <1>0, <1>1 DEF StepInv, PowerInv, Powered, Running, Stray
  <2>6. OffsetInv'
    BY <1>0, <1>1 DEF OffsetInv, Powered, Running, Served, After
  <2> QED
    BY <2>1, <2>2, <2>3, <2>4, <2>5, <2>6
<1>2. CASE DirSynced
  <2>0. gone' = <<>> /\ loose' = {} /\ shadow' = offsets
    BY <1>2 DEF DirSynced
  <2>1. /\ DirInv' /\ Readable(Whole', acked) /\ DOMAIN gone' = {} /\ DOMAIN Whole' = DOMAIN segs
        /\ \A f \in DOMAIN segs : f \in DOMAIN Whole /\ Whole'[f] = Whole[f]
    BY <1>0, <2>0, DirSyncKeepsFiles
  <2>2. CallInv'
    BY <1>0 DEF CallInv, CallOf, Publishing, AfterCompaction
  <2>3. IdInv'
    BY <1>0, <2>1 DEF IdInv, Pending
  <2>4. TableInv' /\ AckInv'
    BY <1>0, <2>1 DEF TableInv, Running, Settled, Stray, Current, NeedsRoll, AckInv
  <2>5. StepInv' /\ PowerInv'
    BY <1>0, <2>0, <2>1 DEF StepInv, PowerInv, Powered, Running, Stray
  <2>6. OffsetInv'
    BY <1>0, <2>0 DEF OffsetInv, Powered, Running, Served, After
  <2> QED
    BY <2>1, <2>2, <2>3, <2>4, <2>5, <2>6
<1> QED
  BY <1>1, <1>2

\* The call record of a compaction, with the removal noted.
LEMMA RemovalNoted ==
    ASSUME CallInv, pc = "compact", call' = [call EXCEPT !.removed = TRUE], UNCHANGED <<calls, pc>>
    PROVE  /\ call'.name = call.name
           /\ call' \in CallOf("publish")' \cup CallOf("host")' \cup CallOf("commit")'
           /\ call \in CallOf("publish") => call' \in CallOf("publish")'
<1>1. CASE call \in CallOf("publish")
  <2>1. call \in [name : {"publish"}, removed : BOOLEAN, id : {calls}]
    BY <1>1 DEF CallOf
  <2>2. call' = [name |-> call.name, removed |-> TRUE, id |-> call.id]
    BY <2>1
  <2> QED
    BY <2>1, <2>2 DEF CallOf
<1>2. CASE call \in CallOf("host")
  <2>1. call \in [name : {"host"}, removed : BOOLEAN]
    BY <1>2 DEF CallOf
  <2>2. call' = [name |-> call.name, removed |-> TRUE]
    BY <2>1
  <2> QED
    BY <2>1, <2>2 DEF CallOf
<1>3. CASE call \in CallOf("commit")
  <2>1. call \in [name : {"commit"}, c : Consumer, previous : {Unregistered} \cup Nat, removed : BOOLEAN]
    BY <1>3 DEF CallOf
  <2>2. call' = [name |-> call.name, c |-> call.c, previous |-> call.previous, removed |-> TRUE]
    BY <2>1
  <2> QED
    BY <2>1, <2>2 DEF CallOf
<1> QED
  BY <1>1, <1>2, <1>3 DEF CallInv

\* The floor is at or below every registered consumer.
LEMMA LogFloorIsLowest ==
    ASSUME committed \in Offsets, NEW c \in Consumer, committed[c] # Unregistered
    PROVE  Floor \in Nat /\ Floor <= committed[c]
<1> DEFINE S == {committed[d] : d \in Registered(committed)}
<1>1. S \subseteq Nat /\ committed[c] \in S
  BY DEF Offsets, Registered
<1>2. Min(S) \in S /\ \A y \in S : Min(S) <= y
  BY <1>1, NatMin
<1>3. Floor = Min(S)
  BY <1>1 DEF Floor
<1> HIDE DEF S
<1> QED
  BY <1>1, <1>2, <1>3

\* compact unlinks the oldest segment: a reader has no more use for it, and a power
\* loss that brings it back finds the directory as it was.
LEMMA DeleteSegmentKeeps ==
    ASSUME LogInv, NEW f \in DOMAIN mem, DeleteSegment(f), UNCHANGED setting
    PROVE  LogInv'
<1> USE DEF LogInv, DeleteSegment, ghosts
<1>0. /\ pc = "compact" /\ pc' = "compact" /\ Running /\ Running' /\ Reclaimable(f)
      /\ UNCHANGED <<calls, acked, refused, next, poisoned, active, offsets, shadow, committed, loose, tick>>
  BY DEF Running
<1>1. /\ f \in DOMAIN segs /\ DOMAIN segs' = DOMAIN segs \ {f} /\ DOMAIN mem' = DOMAIN mem \ {f}
      /\ \A g \in DOMAIN segs : g # f => segs'[g] = segs[g]
      /\ \A g \in DOMAIN mem : g # f => mem'[g] = mem[g]
  BY <1>0 DEF Restrict, TableInv
<1>2. DOMAIN gone' = DOMAIN gone \cup {f} /\ gone'[f] = segs[f] /\ \A g \in DOMAIN gone : g # f => gone'[g] = gone[g]
  BY DEF With
<1>3. /\ \A g \in DOMAIN segs : g \in Nat \ {0}
      /\ \A g \in DOMAIN gone : g \in Nat \ {0} /\ g # f
  BY <1>1, WholeFiles
<1>4. PICK h \in DOMAIN mem : f < h
  BY <1>0 DEF Reclaimable
<1>5. /\ Current \in DOMAIN mem /\ f < Current /\ (\A g \in DOMAIN mem : g <= Current) /\ Current \in Nat
      /\ next = Current + mem[Current].count /\ mem[Current].count \in Nat
      /\ Current # f /\ Current \in DOMAIN segs' /\ Current \in DOMAIN mem' /\ mem'[Current] = mem[Current]
  <2>1. Newest(mem, Current) /\ next = Current + mem[Current].count /\ DOMAIN mem \subseteq DOMAIN segs
    BY <1>0, <1>4 DEF TableInv
  <2> QED
    <3>1. Current \in DOMAIN mem /\ Current \in DOMAIN segs /\ \A g \in DOMAIN mem : g <= Current
      BY <2>1 DEF Newest
    <3>2. f < Current /\ Current # f /\ Current \in Nat
      <4>1. f \in Nat /\ h \in Nat /\ Current \in Nat /\ h <= Current
        BY <1>1, <1>3, <2>1, <3>1
      <4> QED
        BY <1>4, <4>1
    <3>3. mem[Current].count \in Nat
      BY <1>0, <3>1 DEF TableInv
    <3> QED
      BY <1>1, <2>1, <3>1, <3>2, <3>3
<1>6. Current' = Current /\ DOMAIN mem' # {}
  <2>1. DOMAIN mem' \subseteq Nat /\ Current \in DOMAIN mem' /\ \A g \in DOMAIN mem' : g <= Current
    <3>1. DOMAIN mem' \subseteq DOMAIN segs /\ DOMAIN mem' \subseteq DOMAIN mem
      BY <1>0, <1>1 DEF TableInv
    <3> QED
      BY <1>3, <1>5, <3>1
  <2> QED
    BY <2>1, MaxIsLargest DEF Current
<1>7. \A g \in DOMAIN segs' : f < g
  <2>1. \A g \in DOMAIN mem : f <= g
    BY <1>0 DEF Reclaimable
  <2>2. f < next
    BY <1>1, <1>3, <1>5
  <2> QED
    BY <1>0, <1>1, <1>3, <2>1, <2>2 DEF TableInv
<1>8. mem[f].count = Len(segs[f].frames) /\ mem[f].count \in Nat
  BY <1>0, <1>5 DEF TableInv
<1>9. Whole' = Whole
  <2>1. DOMAIN gone' \cup DOMAIN segs' = DOMAIN gone \cup DOMAIN segs
    BY <1>1, <1>2
  <2>2. \A g \in DOMAIN gone \cup DOMAIN segs : FileAt(g)' = FileAt(g)
    BY <1>1, <1>2, <1>3 DEF FileAt
  <2> QED
    BY <2>1, <2>2 DEF Whole
<1>10. DirInv'
  <2>1. \A g \in DOMAIN gone' : \A i \in DOMAIN segs' : g < i
    BY <1>1, <1>2, <1>7 DEF DirInv
  <2>2. DOMAIN segs' # {}
    BY <1>5
  <2> QED
    BY <2>1, <2>2, <1>9 DEF DirInv
<1>11. CallInv' /\ (Publishing' => Publishing)
  <2>1. /\ call'.name = call.name
        /\ call' \in CallOf("publish")' \cup CallOf("host")' \cup CallOf("commit")'
        /\ call \in CallOf("publish") => call' \in CallOf("publish")'
    BY <1>0, RemovalNoted
  <2>2. Publishing' => Publishing
    BY <2>1, <1>0 DEF Publishing
  <2> QED
    BY <1>0, <2>1, <2>2 DEF CallInv
<1>12. IdInv'
  BY <1>0, <1>9, <1>11 DEF IdInv, Pending
<1>13. AckInv'
  BY <1>0, <1>9 DEF AckInv
<1>14. TableInv'
  <2>1. /\ (Settled' => Settled) /\ (Stray' => Stray)
        /\ (NeedsRoll => NeedsRoll')
    BY <1>0, <1>1, <1>5, <1>6, <1>7 DEF Settled, Stray, NeedsRoll
  <2>2. Newest(mem', Current') /\ next' = Current' + mem'[Current'].count
    BY <1>0, <1>1, <1>3, <1>5, <1>6 DEF Newest
  <2>3. Stray' => segs'[next'] = segs[next]
    BY <1>0, <1>1 DEF Stray
  <2>4. /\ DOMAIN mem' \subseteq DOMAIN segs' /\ DOMAIN segs' \subseteq DOMAIN mem' \cup {next'}
        /\ active' \in BOOLEAN /\ poisoned' \in BOOLEAN
    BY <1>0, <1>1 DEF TableInv
  <2>5. \A g \in DOMAIN mem' : g \in DOMAIN mem /\ mem'[g] = mem[g] /\ segs'[g] = segs[g]
    BY <1>0, <1>1 DEF TableInv
  <2>6. \A g \in DOMAIN mem' :
           /\ mem'[g].count \in Nat /\ mem'[g].count <= Len(segs'[g].frames)
           /\ g < Current' \/ Settled' => mem'[g].count = Len(segs'[g].frames) /\ ~segs'[g].torn
    BY <1>0, <1>6, <2>1, <2>5 DEF TableInv
  <2>7. Stray' => segs'[next'].frames = <<>> /\ ~segs'[next'].torn /\ NeedsRoll' /\ ~active'
    BY <1>0, <2>1, <2>3 DEF TableInv
  <2> QED
    BY <1>6, <2>2, <2>4, <2>6, <2>7 DEF TableInv
<1>15. StepInv'
  BY <1>0 DEF StepInv
<1>16. PowerInv'
  <2>1. ASSUME Powered PROVE segs[f].synced = Len(segs[f].frames)
    BY <1>0, <1>1, <1>8, <2>1, WholeFiles DEF PowerInv, IsFile, SegmentFile
  <2>2. (Stray' => Stray) /\ pc' = pc
    BY <1>0, <1>1, <1>5, <1>7 DEF Stray
  <2>3. \A g \in DOMAIN mem' : g \in DOMAIN mem /\ mem'[g] = mem[g] /\ segs'[g] = segs[g]
    BY <1>0, <1>1 DEF TableInv
  <2>4. ASSUME Powered, NEW g \in DOMAIN gone' PROVE gone'[g].synced = Len(gone'[g].frames)
    <3>1. CASE g = f
      BY <1>2, <2>1, <2>4, <3>1
    <3>2. CASE g # f
      BY <1>2, <2>4, <3>2 DEF PowerInv
    <3> QED
      BY <3>1, <3>2
  <2>5. ASSUME Powered PROVE ~poisoned' /\ loose' = {} /\ ~Stray'
    BY <1>0, <2>2, <2>5 DEF PowerInv
  <2>6. ASSUME Powered, NEW g \in DOMAIN mem' PROVE mem'[g].count <= segs'[g].synced
    BY <1>0, <2>3, <2>6 DEF PowerInv
  <2> QED
    BY <1>0, <2>4, <2>5, <2>6 DEF PowerInv, Powered
<1>17. OffsetInv'
  <2>1. SUFFICES ASSUME "dir_sync" \notin setting.faults PROVE OffsetInv'
    BY DEF OffsetInv
  <2>2. offsets = committed /\ committed \in Offsets /\ (Powered => shadow = offsets) /\ Served(committed)
    BY <1>0, <2>1 DEF OffsetInv
  <2>3. ASSUME NEW c \in Consumer, committed[c] # Unregistered
        PROVE  \E g \in DOMAIN segs' : g <= committed[c] + 1
    <3>1. Floor \in Nat /\ Floor <= committed[c] /\ committed[c] \in Nat
      BY <2>2, <2>3, LogFloorIsLowest DEF Offsets
    <3>2. f + mem[f].count - 1 <= Floor
      BY <1>0 DEF Reclaimable, LastOf
    <3>3. After(segs, f) \in DOMAIN segs /\ f # After(segs, f)
      <4>1. Current \in DOMAIN segs
        BY <1>0, <1>5 DEF TableInv
      <4>2. IsDir(segs)
        BY SegsAreADir
      <4>3. segs[f].frames # <<>> /\ After(segs, f) \in DOMAIN segs
        BY <1>1, <1>5, <4>1, <4>2 DEF IsDir, Sealed
      <4>4. mem[f].count # 0
        BY <1>0 DEF Reclaimable
      <4> QED
        BY <4>3, <4>4, <1>1, <1>3, <1>8 DEF After
    <3>4. After(segs, f) <= committed[c] + 1
      BY <1>1, <1>3, <1>8, <3>1, <3>2 DEF After
    <3> QED
      BY <1>1, <3>3, <3>4
  <2>4. Served(committed)'
    BY <1>0, <2>2, <2>3 DEF Served
  <2> QED
    BY <1>0, <2>2, <2>4 DEF OffsetInv, Powered, Served
<1> QED
  BY <1>10, <1>11, <1>12, <1>13, <1>14, <1>15, <1>16, <1>17

\* start_segment creates the file of the next offset, unless one is there.
LEMMA CreateSegmentKeeps ==
    ASSUME LogInv, CreateSegment, UNCHANGED setting
    PROVE  LogInv'
<1> USE DEF LogInv, CreateSegment, writer
<1>0. /\ pc = "create" /\ Running /\ Running' /\ Publishing /\ call.id = calls /\ calls \in 1..calls
      /\ UNCHANGED <<call, calls, gone, mem, next, poisoned, active, acked, offsets, shadow, committed, tick>>
      /\ NeedsRoll /\ ~active /\ ~poisoned /\ NeedsRoll'
  BY DEF Running, Publishing, CallInv, CallOf, StepInv, NeedsRoll, Current
<1>1. CASE next \in DOMAIN segs
  <2>0. pc' = "idle" /\ refused' = refused \cup {calls} /\ UNCHANGED <<segs, loose>> /\ ~Publishing'
    BY <1>0, <1>1 DEF Publishing
  <2>1. DirInv' /\ Whole' = Whole /\ AckInv'
    BY <1>0, <2>0, FilesStayDir
  <2>2. CallInv'
    BY <1>0, <2>0 DEF CallInv
  <2>3. IdInv'
    BY <1>0, <2>0, <2>1 DEF IdInv, Pending
  <2>4. TableInv'
    BY <1>0, <2>0 DEF TableInv, Running, Settled, Stray, Current, NeedsRoll
  <2>5. StepInv' /\ PowerInv'
    BY <1>0, <2>0 DEF StepInv, PowerInv, Powered, Stray
  <2>6. OffsetInv'
    BY <1>0, <2>0 DEF OffsetInv, Powered, Served, After
  <2> QED
    BY <2>1, <2>2, <2>3, <2>4, <2>5, <2>6
<1>2. CASE next \notin DOMAIN segs
  <2> DEFINE s == [frames |-> <<>>, synced |-> 0, torn |-> FALSE]
  <2>0. /\ pc' = "enter" /\ UNCHANGED <<refused, faults>> /\ Publishing' /\ loose' = loose \cup {next}
        /\ DOMAIN segs' = DOMAIN segs \cup {next} /\ segs'[next] = s
        /\ \A f \in DOMAIN segs : segs'[f] = segs[f]
    BY <1>2 DEF Publishing, With
  <2>1. IsFile(s) /\ s.frames = <<>> /\ ~s.torn /\ Len(s.frames) = 0
    BY DEF IsFile, SegmentFile
  <2> HIDE DEF s
  <2>2. DOMAIN segs = DOMAIN mem /\ \A f \in DOMAIN segs : f \in Nat \ {0}
    BY <1>0, <1>2, WholeFiles DEF TableInv
  <2>3. Stray'
    BY <1>0, <1>2, <2>0, <2>2 DEF Stray
  <2>4. \A f \in DOMAIN mem : /\ mem[f].count = Len(segs[f].frames) /\ ~segs[f].torn
                              /\ f <= Current /\ Current \in DOMAIN mem
                              /\ next = Current + mem[Current].count /\ mem[Current].count # 0
                              /\ mem[Current].count \in Nat
    <3>1. SUFFICES ASSUME NEW f \in DOMAIN mem
                   PROVE  /\ mem[f].count = Len(segs[f].frames) /\ ~segs[f].torn
                          /\ f <= Current /\ Current \in DOMAIN mem
                          /\ next = Current + mem[Current].count /\ mem[Current].count # 0
                          /\ mem[Current].count \in Nat
      OBVIOUS
    <3>2. Settled
      BY <1>0 DEF Settled
    <3>3. Newest(mem, Current) /\ next = Current + mem[Current].count
      BY <1>0, <3>1 DEF TableInv
    <3>4. mem[Current].count \in Nat /\ mem[Current].count > 0
      BY <1>0, <3>1, <3>3 DEF TableInv, Newest, NeedsRoll
    <3> QED
      BY <1>0, <3>2, <3>3, <3>4 DEF TableInv, Newest
  <2>5. next \in Nat \ {0} /\ \A f \in DOMAIN mem : f < next
    <3>1. CASE DOMAIN mem = {}
      BY <1>0, <3>1 DEF TableInv
    <3>2. CASE DOMAIN mem # {}
      BY <3>2, <2>2, <2>4
    <3> QED
      BY <3>1, <3>2
  <2>6. \A f \in DOMAIN Whole : f < next
    <3>1. SUFFICES ASSUME NEW f \in DOMAIN gone PROVE f < next
      BY <2>2, <2>5, WholeFiles
    <3>2. PICK g \in DOMAIN segs : f < g
      BY DEF DirInv
    <3> QED
      BY <3>2, <2>2, <2>5, WholeFiles
  <2>7. /\ DOMAIN Whole' = DOMAIN Whole \cup {next} /\ Whole'[next] = s
        /\ \A f \in DOMAIN Whole : Whole'[f] = Whole[f]
    <3>1. DOMAIN Whole' = DOMAIN Whole \cup {next}
      BY <1>0, <2>0 DEF Whole
    <3>2. Whole'[next] = s
      BY <2>0, <3>1 DEF Whole, FileAt
    <3>3. ASSUME NEW f \in DOMAIN Whole PROVE Whole'[f] = Whole[f]
      <4>1. f # next /\ f \in DOMAIN Whole'
        BY <2>5, <2>6, <3>1, <3>3 DEF DirInv, IsDir
      <4> QED
        BY <1>0, <2>0, <4>1 DEF Whole, FileAt
    <3> QED
      BY <3>1, <3>2, <3>3
  <2>8. next \notin DOMAIN Whole
    BY <2>5, <2>6 DEF DirInv, IsDir
  <2>9. ASSUME NEW f \in DOMAIN Whole, Newest(Whole, f)
        PROVE  Whole[f].frames # <<>> /\ ~Whole[f].torn /\ After(Whole, f) = next
    <3>1. PICK g \in DOMAIN segs : TRUE
      BY WholeFiles DEF DirInv
    <3>2. f \in DOMAIN segs
      <4>1. CASE f \in DOMAIN gone
        <5>1. f < g /\ g <= f
          BY <4>1, <2>9, WholeFiles DEF DirInv, Newest
        <5> QED
          BY <5>1, WholeFiles
      <4> QED
        BY <4>1, WholeFiles
    <3>3. f = Current
      <4>1. f <= Current /\ Current <= f /\ f \in Nat /\ Current \in Nat
        BY <2>2, <2>4, <2>9, <3>2, WholeFiles DEF Newest
      <4> QED
        BY <4>1
    <3>4. Whole[f] = segs[f] /\ mem[f].count = Len(segs[f].frames) /\ ~segs[f].torn /\ mem[f].count # 0
      BY <2>2, <2>4, <3>2, <3>3, WholeFiles
    <3> QED
      BY <3>2, <3>3, <3>4, <2>2, <2>4 DEF After
  <2>10. IsDir(Whole') /\ Readable(Whole', acked)
    <3>1. IsDir(Whole) /\ acked \subseteq (Nat \ {0}) \X Nat /\ Readable(Whole, acked)
      BY DEF DirInv, AckInv
    <3>2. IsFile(Whole'[next]) /\ \A f \in DOMAIN Whole : f < next /\ Whole'[f] = Whole[f]
      BY <2>1, <2>6, <2>7
    <3> QED
      BY <3>1, <3>2, <2>5, <2>7, <2>8, <2>9, NewFile
  <2>11. DirInv'
    <3>1. \A f \in DOMAIN gone : \A g \in DOMAIN segs' : f < g
      BY <2>0, <2>6, WholeFiles DEF DirInv
    <3> QED
      BY <1>0, <2>0, <2>10, <3>1 DEF DirInv
  <2>12. CallInv'
    BY <1>0, <2>0 DEF CallInv, CallOf, Publishing
  <2>13. IdInv'
    BY <1>0, <2>0, <2>1, <2>7 DEF IdInv, Pending
  <2>14. AckInv'
    BY <1>0, <2>10 DEF AckInv
  <2>15. TableInv'
    <3>1. Current' = Current /\ (DOMAIN mem = {} \/ Newest(mem, Current)) /\ (Settled' => Settled)
      BY <1>0, <2>0 DEF Current, TableInv, Settled
    <3>2. \A f \in DOMAIN mem : segs'[f] = segs[f]
      BY <2>0, <2>2
    <3> QED
      BY <1>0, <2>0, <2>1, <2>2, <3>1, <3>2 DEF TableInv
  <2>16. StepInv'
    BY <1>0, <2>0, <2>3 DEF StepInv
  <2>17. PowerInv'
    <3>1. \A f \in DOMAIN mem : segs'[f] = segs[f]
      BY <2>0, <2>2
    <3>2. ASSUME Powered PROVE loose' = {next'} /\ \A f \in DOMAIN mem : mem[f].count <= segs'[f].synced
      BY <1>0, <2>0, <3>1, <3>2 DEF PowerInv
    <3> QED
      BY <1>0, <2>0, <3>2 DEF PowerInv, Powered
  <2>18. OffsetInv'
    <3>1. ASSUME NEW o \in Offsets, Served(o) PROVE Served(o)'
      <4>1. SUFFICES ASSUME NEW c \in Consumer, o[c] # Unregistered
                     PROVE  o[c] < next /\ \E f \in DOMAIN segs' : f <= o[c] + 1
        BY <1>0 DEF Served
      <4>2. o[c] < next /\ (DOMAIN segs = {} \/ \E f \in DOMAIN segs : f <= o[c] + 1)
        BY <1>0, <3>1, <4>1 DEF Served
      <4>3. CASE DOMAIN segs = {}
        <5>1. next = 1 /\ o[c] \in Nat
          BY <1>0, <2>2, <4>1, <4>3 DEF TableInv, Offsets
        <5> QED
          BY <5>1, <4>2, <2>0
      <4> QED
        BY <4>2, <4>3, <2>0
    <3> QED
      BY <1>0, <2>0, <3>1 DEF OffsetInv, Powered
  <2> QED
    BY <2>11, <2>12, <2>13, <2>14, <2>15, <2>16, <2>17, <2>18
<1> QED
  BY <1>1, <1>2

\* The new segment becomes the writer's last one.
LEMMA EnterSegmentKeeps ==
    ASSUME LogInv, EnterSegment, UNCHANGED setting
    PROVE  LogInv'
<1> USE DEF LogInv, EnterSegment, ghosts
<1>0. /\ pc = "enter" /\ pc' = "write" /\ Running /\ Running' /\ Publishing /\ Publishing' /\ active' = TRUE
      /\ UNCHANGED <<segs, call, calls, next, poisoned, acked, refused, offsets, committed, tick>>
      /\ Stray /\ ~poisoned
  BY DEF Running, Publishing, CallInv, StepInv
<1>1. /\ DirInv' /\ Readable(Whole', acked)
      /\ \A f \in DOMAIN Whole' : f \in DOMAIN Whole /\ Whole'[f] = Whole[f]
      /\ \/ UNCHANGED <<gone, loose, shadow>> /\ ~Syncs
         \/ DOMAIN gone' = {} /\ loose' = {} /\ shadow' = offsets
  <2>1. CASE Syncs
    <3>1. gone' = <<>> /\ loose' = {} /\ shadow' = offsets
      BY <2>1 DEF DirSynced
    <3>2. /\ DirInv' /\ Readable(Whole', acked) /\ DOMAIN gone' = {} /\ DOMAIN Whole' = DOMAIN segs
          /\ \A f \in DOMAIN segs : f \in DOMAIN Whole /\ Whole'[f] = Whole[f]
      BY <1>0, <3>1, DirSyncKeepsFiles
    <3> QED
      BY <3>1, <3>2
  <2>2. CASE ~Syncs
    <3>1. UNCHANGED <<gone, loose, shadow>>
      BY <2>2
    <3>2. DirInv' /\ Whole' = Whole
      BY <1>0, <3>1, FilesStayDir
    <3> QED
      BY <3>1, <3>2, <2>2 DEF AckInv
  <2> QED
    BY <2>1, <2>2
<1>2. /\ DOMAIN mem' = DOMAIN mem \cup {next} /\ mem'[next].count = 0
      /\ \A f \in DOMAIN mem : mem'[f] = mem[f]
  BY <1>0 DEF With, Stray
<1>3. /\ next \in DOMAIN segs /\ next \notin DOMAIN mem /\ segs[next].frames = <<>> /\ ~segs[next].torn
      /\ DOMAIN segs = DOMAIN mem' /\ \A f \in DOMAIN segs : f \in Nat \ {0}
  <2>1. /\ next \in DOMAIN segs /\ next \notin DOMAIN mem
        /\ DOMAIN mem \subseteq DOMAIN segs /\ DOMAIN segs \subseteq DOMAIN mem \cup {next}
        /\ segs[next].frames = <<>> /\ ~segs[next].torn
    BY <1>0 DEF Stray, TableInv
  <2>2. DOMAIN segs = DOMAIN mem'
    BY <1>2, <2>1
  <2> QED
    BY <2>1, <2>2, WholeFiles
<1>4. \A f \in DOMAIN mem : f < next /\ mem[f].count = Len(segs[f].frames) /\ ~segs[f].torn
  <2>1. SUFFICES ASSUME NEW f \in DOMAIN mem
                 PROVE  f < next /\ mem[f].count = Len(segs[f].frames) /\ ~segs[f].torn
    OBVIOUS
  <2>2. Settled
    BY <1>0 DEF Settled
  <2>3. Newest(mem, Current) /\ next = Current + mem[Current].count /\ mem[Current].count \in Nat
    BY <1>0, <2>1 DEF TableInv, Newest
  <2>4. f <= next
    BY <2>3, <1>2, <1>3 DEF Newest
  <2>5. f < next
    BY <2>4, <1>2, <1>3
  <2> QED
    BY <1>0, <2>2, <2>5 DEF TableInv
<1>5. Current' = next
  <2>1. DOMAIN mem' \subseteq Nat /\ next \in DOMAIN mem' /\ \A f \in DOMAIN mem' : f <= next
    BY <1>2, <1>3, <1>4
  <2> QED
    BY <2>1, MaxIsLargest DEF Current
<1>6. CallInv'
  BY <1>0 DEF CallInv, CallOf, Publishing
<1>7. IdInv'
  BY <1>0, <1>1 DEF IdInv, Pending
<1>8. AckInv'
  BY <1>0, <1>1 DEF AckInv
<1>9. ~Stray' /\ ~NeedsRoll'
  BY <1>0, <1>2, <1>3, <1>5 DEF Stray, NeedsRoll
<1>10. TableInv'
  <2>1. \A f \in DOMAIN mem' : /\ mem'[f].count \in Nat /\ mem'[f].count = Len(segs'[f].frames)
                               /\ ~segs'[f].torn /\ f <= Current'
    <3>1. SUFFICES ASSUME NEW f \in DOMAIN mem'
                   PROVE  /\ mem'[f].count \in Nat /\ mem'[f].count = Len(segs[f].frames)
                          /\ ~segs[f].torn /\ f <= next
      BY <1>0, <1>5
    <3>2. CASE f = next
      BY <3>2, <1>2, <1>3
    <3>3. CASE f \in DOMAIN mem
      BY <3>3, <1>0, <1>2, <1>3, <1>4 DEF TableInv
    <3> QED
      BY <3>2, <3>3, <1>2
  <2>2. Newest(mem', Current') /\ next' = Current' + mem'[Current'].count /\ DOMAIN mem' # {}
    BY <1>0, <1>2, <1>3, <1>5, <2>1 DEF Newest
  <2>3. DOMAIN mem' = DOMAIN segs' /\ active' \in BOOLEAN /\ poisoned' \in BOOLEAN
    BY <1>0, <1>3 DEF TableInv
  <2> QED
    BY <1>9, <2>1, <2>2, <2>3 DEF TableInv
<1>11. StepInv'
  BY <1>0, <1>9 DEF StepInv
<1>12. PowerInv'
  <2>1. ASSUME Powered PROVE Syncs
    BY <2>1, LogAssumption DEF CallInv, Powered, Syncs, SyncEvery
  <2>2. ASSUME Powered, NEW f \in DOMAIN mem' PROVE mem'[f].count <= segs'[f].synced
    <3>1. CASE f = next
      <4>1. segs[next].synced \in Nat
        BY <1>3, WholeFiles DEF IsFile, SegmentFile
      <4> QED
        BY <3>1, <4>1, <1>0, <1>2
    <3>2. CASE f \in DOMAIN mem
      BY <3>2, <2>2, <1>0, <1>2 DEF PowerInv
    <3> QED
      BY <3>1, <3>2, <2>2, <1>2
  <2> QED
    BY <1>0, <1>1, <1>9, <2>1, <2>2 DEF PowerInv, Powered
<1>13. OffsetInv'
  <2>1. \A o : Served(o) => Served(o)'
    BY <1>0 DEF Served
  <2>2. ASSUME Powered PROVE Syncs
    BY <2>2, LogAssumption DEF CallInv, Powered, Syncs, SyncEvery
  <2> QED
    BY <1>0, <1>1, <2>1, <2>2 DEF OffsetInv, Powered
<1> QED
  BY <1>1, <1>6, <1>7, <1>8, <1>10, <1>11, <1>12, <1>13

\* Without the file of a segment that is not entered yet the directory is as it was.
LEMMA StrayGoes ==
    ASSUME LogInv, Running, Stray, NEW e, DOMAIN e = DOMAIN gone \cup DOMAIN mem,
           \A f \in DOMAIN e : e[f] = Whole[f]
    PROVE  IsDir(e) /\ Readable(e, acked) /\ (DOMAIN gone # {} => DOMAIN mem # {})
<1> USE DEF LogInv
<1>1. /\ next \in DOMAIN segs /\ next \notin DOMAIN mem
      /\ DOMAIN mem \subseteq DOMAIN segs /\ DOMAIN segs \subseteq DOMAIN mem \cup {next}
      /\ segs[next].frames = <<>> /\ (DOMAIN mem = {} => next = 1)
  BY DEF Stray, TableInv
<1>2. DOMAIN segs = DOMAIN mem \cup {next} /\ \A f \in DOMAIN segs : f \in Nat \ {0}
  <2>1. DOMAIN segs \subseteq Nat \ {0}
    BY WholeFiles
  <2>2. DOMAIN segs = DOMAIN mem \cup {next}
    BY <1>1, Zenon
  <2> QED
    BY <2>1, <2>2, Zenon
<1>3. \A f \in DOMAIN gone : f < next /\ f \notin DOMAIN segs /\ f \in Nat \ {0}
  BY <1>1, WholeFiles DEF DirInv
<1>4. ASSUME DOMAIN mem # {}
      PROVE  Newest(e, Current) /\ \A f \in DOMAIN mem : f <= next
  <2>1. Newest(mem, Current) /\ next = Current + mem[Current].count /\ mem[Current].count \in Nat
    BY <1>4 DEF TableInv, Newest
  <2>2. \A f \in DOMAIN gone : f < Current
    BY <1>1, <2>1 DEF Newest, DirInv
  <2>3. Current \in DOMAIN mem /\ \A f \in DOMAIN mem : f <= Current
    BY <2>1 DEF Newest
  <2> QED
    BY <1>2, <1>3, <2>1, <2>2, <2>3 DEF Newest
<1>5. DOMAIN gone # {} => DOMAIN mem # {}
  <2>1. SUFFICES ASSUME NEW f \in DOMAIN gone, DOMAIN mem = {} PROVE FALSE
    OBVIOUS
  <2>2. f < 1 /\ f \in Nat \ {0}
    BY <1>1, <1>3, <2>1
  <2> QED
    BY <2>2
<1>6. Newest(Whole, next) /\ Whole[next].frames = <<>> /\ next \in DOMAIN Whole
  BY <1>1, <1>2, <1>3, <1>4, WholeFiles DEF Newest
<1>7. DOMAIN e = DOMAIN Whole \ {next}
  <2>1. DOMAIN gone \cup DOMAIN mem = (DOMAIN gone \cup DOMAIN segs) \ {next}
    BY <1>1, <1>2, <1>3
  <2> QED
    BY <2>1, WholeFiles
<1>8. DOMAIN e # {} \/ acked = {}
  <2>1. ASSUME DOMAIN mem = {} PROVE acked = {}
    <3>1. \A a \in acked : a[1] \in Nat \ {0} /\ a[1] < 1
      BY <1>1, <2>1 DEF AckInv
    <3> QED
      BY <3>1
  <2> QED
    BY <2>1
<1>9. \A f \in DOMAIN e : \E m \in DOMAIN e : Newest(e, m)
  BY <1>4, <1>5 DEF Newest
<1>10. IsDir(Whole) /\ acked \subseteq (Nat \ {0}) \X Nat /\ Readable(Whole, acked)
  BY DEF DirInv, AckInv
<1> QED
  BY <1>5, <1>6, <1>7, <1>8, <1>9, <1>10, NewestGoes

\* The directory of the new segment cannot be synced, and its file goes, or stays
\* where it is.
LEMMA EnterSegmentFailsKeeps ==
    ASSUME FaultsApart, LogInv, EnterSegmentFails, UNCHANGED setting
    PROVE  LogInv'
<1> USE DEF LogInv, EnterSegmentFails, writer
<1>0. /\ pc = "enter" /\ pc' = "idle" /\ Running /\ Running' /\ Publishing /\ ~Publishing'
      /\ UNCHANGED <<gone, mem, active, call, calls, next, poisoned, acked, offsets, shadow, committed, tick>>
      /\ Stray /\ ~active /\ NeedsRoll /\ call.id = calls /\ calls \in 1..calls
      /\ refused' = refused \cup {calls} /\ NeedsRoll' /\ Current' = Current
  BY DEF Running, Publishing, CallInv, CallOf, StepInv, NeedsRoll, Current
<1>1. "dir_sync" \in setting.faults /\ ~Powered /\ ~Powered'
  BY DEF Fault, FaultsApart, CallInv, Powered
<1>7. /\ next \in DOMAIN segs /\ next \notin DOMAIN mem
      /\ DOMAIN mem \subseteq DOMAIN segs /\ DOMAIN segs \subseteq DOMAIN mem \cup {next}
      /\ segs[next].frames = <<>> /\ (DOMAIN mem = {} => next = 1)
  BY <1>0 DEF Stray, TableInv
<1>8. DOMAIN segs = DOMAIN mem \cup {next}
  BY <1>7
<1>2. CallInv'
  BY <1>0 DEF CallInv
<1>3. StepInv' /\ PowerInv' /\ OffsetInv'
  BY <1>0, <1>1 DEF StepInv, PowerInv, OffsetInv
<1>4. CASE segs' = segs
  <2>1. DirInv' /\ Whole' = Whole /\ AckInv'
    BY <1>0, <1>4, FilesStayDir
  <2>2. IdInv'
    BY <1>0, <2>1 DEF IdInv, Pending
  <2>3. TableInv'
    BY <1>0, <1>4 DEF TableInv, Settled, Stray
  <2> QED
    BY <1>2, <1>3, <2>1, <2>2, <2>3
<1>5. CASE segs' = Restrict(segs, DOMAIN segs \ {next})
  <2>1. DOMAIN segs' = DOMAIN mem /\ \A f \in DOMAIN mem : segs'[f] = segs[f]
    <3>1. DOMAIN segs \ {next} = DOMAIN mem
      BY <1>7, <1>8
    <3> QED
      BY <1>5, <3>1 DEF Restrict
  <2>2. DOMAIN Whole' = DOMAIN gone \cup DOMAIN mem /\ \A f \in DOMAIN Whole' : f \in DOMAIN Whole /\ Whole'[f] = Whole[f]
    <3>1. DOMAIN mem \subseteq DOMAIN segs /\ \A f \in DOMAIN gone : f \notin DOMAIN segs
      BY <1>0, WholeFiles DEF TableInv
    <3> QED
      BY <1>0, <2>1, <3>1 DEF Whole, FileAt
  <2>3. IsDir(Whole') /\ Readable(Whole', acked) /\ (DOMAIN gone # {} => DOMAIN mem # {})
    <3>1. PICK e : e = Whole'
      OBVIOUS
    <3>2. IsDir(e) /\ Readable(e, acked) /\ (DOMAIN gone # {} => DOMAIN mem # {})
      BY <1>0, <2>2, <3>1, StrayGoes
    <3> QED
      BY <3>1, <3>2
  <2>8. DirInv'
    <3>1. \A f \in DOMAIN gone : \A g \in DOMAIN segs' : f < g
      BY <1>7, <2>1 DEF DirInv
    <3> QED
      BY <1>0, <2>1, <2>3, <3>1 DEF DirInv
  <2>9. IdInv'
    BY <1>0, <2>2 DEF IdInv, Pending
  <2>10. AckInv'
    BY <1>0, <2>3 DEF AckInv
  <2>11. TableInv'
    <3>1. ~Stray' /\ (Settled' => Settled)
      BY <1>0, <2>1 DEF Stray, Settled
    <3> QED
      BY <1>0, <2>1, <3>1 DEF TableInv
  <2> QED
    BY <1>2, <1>3, <2>8, <2>9, <2>10, <2>11
<1> QED
  BY <1>4, <1>5

-----------------------------------------------------------------------------
(* Calls that change the consumers' offsets *)

\* register begins.
LEMMA RegisterCallKeeps ==
    ASSUME LogInv, NEW c \in Consumer, NEW from \in Nat, RegisterCall(c, from), UNCHANGED setting
    PROVE  LogInv'
<1> USE DEF LogInv, RegisterCall, disk
<1>0. /\ pc = "idle" /\ pc' = "replace" /\ Running /\ Running' /\ ~Publishing'
      /\ UNCHANGED <<segs, gone, loose, mem, active, next, poisoned, calls, acked, refused, offsets, shadow, tick>>
  BY DEF Running, Publishing
<1>1. DirInv' /\ Whole' = Whole /\ AckInv'
  BY <1>0, FilesStayDir
<1>2. /\ committed \in Offsets /\ committed' \in Offsets /\ committed'[c] = from
      /\ \A d \in Consumer : d # c => committed'[d] = committed[d]
  BY DEF OffsetInv, Offsets
<1>3. call'.name = "register" /\ call'.c = c /\ call'.previous = committed[c]
  OBVIOUS
<1>4. CallInv'
  <2>1. call' \in CallOf("register")'
    BY <1>2 DEF CallOf, Offsets
  <2> QED
    BY <1>0, <2>1 DEF CallInv
<1>5. IdInv'
  BY <1>0, <1>1 DEF IdInv
<1>6. TableInv'
  BY <1>0 DEF TableInv, Settled, Stray, Current, NeedsRoll
<1>7. StepInv' /\ PowerInv'
  BY <1>0 DEF StepInv, PowerInv, Powered, Stray
<1>8. from < next /\ (DOMAIN segs = {} \/ \E f \in DOMAIN segs : f <= from + 1)
  <2>1. CASE DOMAIN mem = {}
    <3>1. next = 1 /\ DOMAIN segs \subseteq {1} /\ from = 0
      BY <1>0, <2>1 DEF TableInv, LowWater, EndOffset
    <3>2. \A f \in DOMAIN segs : f = 1
      BY <3>1
    <3>3. from < next /\ 1 <= from + 1
      BY <3>1
    <3> QED
      BY <3>2, <3>3
  <2>2. CASE DOMAIN mem # {}
    <3>1. DOMAIN mem \subseteq Nat /\ DOMAIN mem \subseteq DOMAIN segs
      BY <1>0, WholeFiles DEF TableInv
    <3>2. Min(DOMAIN mem) \in DOMAIN mem
      BY <3>1, <2>2, NatMin
    <3>3. Current \in Nat /\ mem[Current].count \in Nat /\ next = Current + mem[Current].count
      BY <1>0, <2>2, <3>1 DEF TableInv, Newest
    <3>4. from \in Min(DOMAIN mem) - 1..next - 1
      BY <2>2 DEF LowWater, EndOffset
    <3> QED
      BY <3>1, <3>2, <3>3, <3>4
  <2> QED
    BY <2>1, <2>2
<1>9. Served(committed) => Served(committed)'
  <2>1. SUFFICES ASSUME Served(committed), NEW d \in Consumer, committed'[d] # Unregistered
                 PROVE  committed'[d] < next /\ (DOMAIN segs = {} \/ \E f \in DOMAIN segs : f <= committed'[d] + 1)
    BY <1>0 DEF Served
  <2>2. CASE d = c
    BY <2>2, <1>2, <1>8
  <2>3. CASE d # c
    BY <2>1, <2>3, <1>0, <1>2 DEF Served
  <2> QED
    BY <2>2, <2>3
<1>10. [committed' EXCEPT ![call'.c] = call'.previous] = committed
  BY <1>2, <1>3 DEF Offsets
<1>11. OffsetInv'
  <2>2. {offsets', shadow', committed'} \subseteq Offsets
    BY <1>0, <1>2 DEF OffsetInv
  <2>3. Served(offsets) => Served(offsets)'
    BY <1>0 DEF Served
  <2>4. Served(shadow) => Served(shadow)'
    BY <1>0 DEF Served
  <2> QED
    BY <1>0, <1>9, <1>10, <2>2, <2>3, <2>4 DEF OffsetInv, Powered
<1> QED
  BY <1>1, <1>4, <1>5, <1>6, <1>7, <1>11

\* commit begins.
LEMMA CommitCallKeeps ==
    ASSUME LogInv, NEW c \in Consumer, NEW upto \in Nat, CommitCall(c, upto), UNCHANGED setting
    PROVE  LogInv'
<1> USE DEF LogInv, CommitCall, disk
<1>0. /\ pc = "idle" /\ pc' \in {"replace", "compact"} /\ Running /\ Running' /\ ~Publishing'
      /\ UNCHANGED <<segs, gone, loose, mem, active, next, poisoned, calls, acked, refused, offsets, shadow, tick>>
  BY DEF Running, Publishing
<1>1. DirInv' /\ Whole' = Whole /\ AckInv'
  BY <1>0, FilesStayDir
<1>2. committed \in Offsets /\ committed[c] \in Nat
  BY DEF OffsetInv, Offsets
<1>3. call'.name = "commit" /\ call'.c = c /\ call'.previous = committed[c]
  OBVIOUS
<1>4. CallInv'
  <2>1. call' \in CallOf("commit")'
    BY <1>2 DEF CallOf
  <2> QED
    BY <1>0, <2>1 DEF CallInv
<1>5. IdInv'
  BY <1>0, <1>1 DEF IdInv
<1>6. TableInv'
  BY <1>0 DEF TableInv, Settled, Stray, Current, NeedsRoll
<1>7. StepInv' /\ PowerInv'
  BY <1>0 DEF StepInv, PowerInv, Powered, Stray
<1>8. (Served(offsets) => Served(offsets)') /\ (Served(shadow) => Served(shadow)')
  BY <1>0 DEF Served
<1>9. CASE upto > committed[c]
  <2>1. /\ pc' = "replace" /\ committed' \in Offsets /\ committed'[c] = upto
        /\ \A d \in Consumer : d # c => committed'[d] = committed[d]
    BY <1>2, <1>9 DEF Offsets
  <2>2. \A f \in DOMAIN segs : f \in Nat
    BY WholeFiles
  <2>3. next \in Nat
    <3>1. DOMAIN mem # {} => Current \in DOMAIN segs /\ mem[Current].count \in Nat /\ next = Current + mem[Current].count
      BY <1>0 DEF TableInv, Newest
    <3>2. DOMAIN mem = {} => next = 1
      BY <1>0 DEF TableInv
    <3>3. CASE DOMAIN mem = {}
      BY <3>2, <3>3
    <3>4. CASE DOMAIN mem # {}
      <4>1. Current \in Nat /\ mem[Current].count \in Nat
        BY <2>2, <3>1, <3>4
      <4> QED
        BY <3>1, <3>4, <4>1
    <3> QED
      BY <3>3, <3>4
  <2>4. Served(committed) => Served(committed)'
    <3>1. SUFFICES ASSUME Served(committed), NEW d \in Consumer, committed'[d] # Unregistered
                   PROVE  committed'[d] < next /\ (DOMAIN segs = {} \/ \E f \in DOMAIN segs : f <= committed'[d] + 1)
      BY <1>0 DEF Served
    <3>2. CASE d = c
      <4>1. upto < next
        BY <2>3 DEF EndOffset
      <4>2. DOMAIN segs = {} \/ \E f \in DOMAIN segs : f <= committed[c] + 1
        BY <3>1 DEF Served
      <4>3. \A f \in DOMAIN segs : f <= committed[c] + 1 => f <= upto + 1
        BY <1>2, <1>9, <2>2
      <4> QED
        BY <2>1, <3>2, <4>1, <4>2, <4>3
    <3>3. CASE d # c
      BY <3>1, <3>3, <1>0, <2>1 DEF Served
    <3> QED
      BY <3>2, <3>3
  <2>5. [committed' EXCEPT ![call'.c] = call'.previous] = committed
    BY <1>2, <1>3, <1>9 DEF Offsets
  <2>6. {offsets', shadow', committed'} \subseteq Offsets
    BY <1>0, <2>1 DEF OffsetInv
  <2>7. OffsetInv'
    BY <1>0, <1>8, <2>1, <2>4, <2>5, <2>6 DEF OffsetInv, Powered
  <2> QED
    BY <1>1, <1>4, <1>5, <1>6, <1>7, <2>7
<1>10. CASE ~(upto > committed[c])
  <2>1. pc' = "compact" /\ committed' = committed
    BY <1>10
  <2>2. Served(committed) => Served(committed)'
    BY <1>0, <2>1 DEF Served
  <2>3. OffsetInv'
    BY <1>0, <1>8, <2>1, <2>2 DEF OffsetInv, Powered
  <2> QED
    BY <1>1, <1>4, <1>5, <1>6, <1>7, <2>3
<1> QED
  BY <1>9, <1>10

\* offsets.bin is replaced.
LEMMA ReplaceOffsetsKeeps ==
    ASSUME LogInv, ReplaceOffsets, UNCHANGED setting
    PROVE  LogInv'
<1> USE DEF LogInv, ReplaceOffsets, writer
<1>0. /\ pc = "replace" /\ pc' \in {"offsets_sync", "compact", "idle"} /\ Running /\ Running'
      /\ UNCHANGED <<segs, gone, loose, call, mem, active, next, poisoned, calls, acked, refused, shadow,
                     committed, tick>>
      /\ offsets' = committed /\ (pc' # "offsets_sync" => ~Syncs)
      /\ pc' = "compact" => call.name = "commit"
  BY DEF Running, Persisted
<1>1. DirInv' /\ Whole' = Whole /\ AckInv'
  BY <1>0, FilesStayDir
<1>2. call \in CallOf("register") \cup CallOf("commit")
  BY <1>0 DEF CallInv
<1>3. /\ call.name = "commit" => call \in CallOf("commit")
      /\ call.name # "publish"
  BY <1>2 DEF CallOf
<1>4. ~Publishing'
  BY <1>0, <1>3 DEF Publishing
<1>5. CallInv'
  BY <1>0, <1>2, <1>3, <1>4 DEF CallInv, CallOf
<1>6. IdInv'
  BY <1>0, <1>1, <1>4 DEF IdInv
<1>7. TableInv'
  BY <1>0 DEF TableInv, Settled, Stray, Current, NeedsRoll
<1>8. StepInv' /\ PowerInv'
  BY <1>0 DEF StepInv, PowerInv, Powered, Stray
<1>9. (Served(committed) => Served(committed)' /\ Served(offsets)') /\ (Served(shadow) => Served(shadow)')
  BY <1>0 DEF Served
<1>10. OffsetInv'
  <2>1. ASSUME Powered PROVE Syncs
    BY <2>1, LogAssumption DEF CallInv, Powered, Syncs, SyncEvery
  <2> QED
    BY <1>0, <1>9, <2>1 DEF OffsetInv, Powered
<1> QED
  BY <1>1, <1>5, <1>6, <1>7, <1>8, <1>10

\* The directory is synced and with it the new offsets.bin.
LEMMA SyncOffsetsKeeps ==
    ASSUME LogInv, SyncOffsets, UNCHANGED setting
    PROVE  LogInv'
<1> USE DEF LogInv, SyncOffsets, writer
<1>0. /\ pc = "offsets_sync" /\ pc' \in {"compact", "idle"} /\ Running /\ Running'
      /\ UNCHANGED <<segs, call, mem, active, next, poisoned, calls, acked, refused, offsets,
                     committed, tick>>
      /\ gone' = <<>> /\ loose' = {} /\ shadow' = offsets
      /\ pc' = "compact" => call.name = "commit"
  BY DEF Running, Persisted, DirSynced
<1>1. /\ DirInv' /\ Readable(Whole', acked)
      /\ DOMAIN gone' = {} /\ DOMAIN Whole' = DOMAIN segs
      /\ \A f \in DOMAIN segs : f \in DOMAIN Whole /\ Whole'[f] = Whole[f]
  BY <1>0, DirSyncKeepsFiles
<1>2. call \in CallOf("register") \cup CallOf("commit")
  BY <1>0 DEF CallInv
<1>3. /\ call.name = "commit" => call \in CallOf("commit")
      /\ call.name # "publish"
  BY <1>2 DEF CallOf
<1>4. ~Publishing'
  BY <1>0, <1>3 DEF Publishing
<1>5. CallInv'
  BY <1>0, <1>2, <1>3, <1>4 DEF CallInv, CallOf
<1>6. IdInv'
  BY <1>0, <1>1, <1>4 DEF IdInv
<1>7. TableInv' /\ AckInv'
  BY <1>0, <1>1 DEF TableInv, Settled, Stray, Current, NeedsRoll, AckInv
<1>8. StepInv' /\ PowerInv'
  BY <1>0, <1>1 DEF StepInv, PowerInv, Powered, Stray
<1>9. (Served(committed) => Served(committed)') /\ (Served(offsets) => Served(offsets)' /\ Served(shadow)')
  BY <1>0 DEF Served
<1>10. OffsetInv'
  BY <1>0, <1>9 DEF OffsetInv, Powered
<1> QED
  BY <1>1, <1>5, <1>6, <1>7, <1>8, <1>10

\* write_atomic fails and the call takes back what it did in memory.
LEMMA PersistFailsKeeps ==
    ASSUME LogInv, PersistFails, UNCHANGED setting
    PROVE  LogInv'
<1> USE DEF LogInv, PersistFails, disk
<1>0. /\ pc \in {"replace", "offsets_sync"} /\ pc' = "idle" /\ Running /\ Running' /\ ~Publishing'
      /\ UNCHANGED <<segs, gone, loose, call, mem, active, next, poisoned, calls, acked, refused, shadow,
                     offsets, tick>>
      /\ pc = "replace" \/ "dir_sync" \in setting.faults
      /\ committed' = [committed EXCEPT ![call.c] = call.previous]
  BY DEF Running, Publishing, Fault
<1>1. DirInv' /\ Whole' = Whole /\ AckInv'
  BY <1>0, FilesStayDir
<1>2. call.c \in Consumer /\ call.previous \in {Unregistered} \cup Nat
  BY <1>0 DEF CallInv, CallOf
<1>3. committed' \in Offsets
  BY <1>0, <1>2 DEF OffsetInv, Offsets
<1>5. CallInv'
  BY <1>0 DEF CallInv
<1>6. IdInv'
  BY <1>0, <1>1 DEF IdInv
<1>7. TableInv'
  BY <1>0 DEF TableInv, Settled, Stray, Current, NeedsRoll
<1>8. StepInv' /\ PowerInv'
  BY <1>0 DEF StepInv, PowerInv, Powered, Stray
<1>9. (Served(offsets) => Served(offsets)') /\ (Served(shadow) => Served(shadow)')
  BY <1>0 DEF Served
<1>10. OffsetInv'
  <2>1. "dir_sync" \notin setting.faults => committed' = offsets
    BY <1>0 DEF OffsetInv
  <2>2. "dir_sync" \notin setting.faults => Served(committed)' /\ Served(offsets)'
    BY <1>0, <1>9, <2>1 DEF OffsetInv, Served
  <2> QED
    BY <1>0, <1>3, <1>9, <2>1, <2>2 DEF OffsetInv, Powered
<1> QED
  BY <1>1, <1>5, <1>6, <1>7, <1>8, <1>10

-----------------------------------------------------------------------------
(* open *)

\* A bounded nonempty set of naturals has its Max within the bound.
LEMMA MaxIsBounded ==
    ASSUME NEW m \in Nat, NEW S, S \subseteq 0..m, S # {}
    PROVE  Max(S) \in S
<1> DEFINE T == {m - x : x \in S}
<1>0. \A x \in S : x \in Nat /\ x <= m /\ m - x \in Nat
  OBVIOUS
<1>1. T \subseteq Nat /\ T # {}
  BY <1>0
<1>2. Min(T) \in T /\ \A y \in T : Min(T) <= y
  BY <1>1, NatMin
<1>3. PICK x \in S : Min(T) = m - x
  BY <1>2
<1>4. ASSUME NEW y \in S PROVE y <= x
  <2>1. m - y \in T
    OBVIOUS
  <2>2. m - x <= m - y
    BY <1>2, <1>3, <2>1
  <2> QED
    BY <2>2, <1>0
<1> HIDE DEF T
<1>5. S \subseteq Nat
  BY <1>0
<1>6. Max(S) = x
  BY <1>4, <1>5, MaxIsLargest
<1> QED
  BY <1>6

\* The newest frame of a file has a tick.
LEMMA TicksAreTicks ==
    ASSUME NEW s, IsFile(s)
    PROVE  NewestTick(s) \in 0..MaxTick
<1>1. s.frames \in Seq(Frame) /\ MaxTick \in Nat
  BY LogAssumption DEF IsFile, SegmentFile
<1>2. CASE s.frames = <<>>
  BY <1>1, <1>2 DEF NewestTick
<1>3. CASE s.frames # <<>>
  <2>1. s.frames[Len(s.frames)] \in Frame
    BY <1>1, <1>3
  <2> QED
    BY <1>3, <2>1 DEF NewestTick, Frame
<1> QED
  BY <1>2, <1>3

\* The largest offset of a nonempty directory is that of its newest file's last frame.
LEMMA EndIsNewest ==
    ASSUME IsDir(segs), DOMAIN segs # {}
    PROVE  \E n \in DOMAIN segs : /\ Newest(segs, n) /\ Max(DOMAIN segs) = n /\ DiskEnd = After(segs, n) - 1
                                  /\ n \in Nat \ {0} /\ Len(segs[n].frames) \in Nat
                                  /\ \A f \in DOMAIN segs : After(segs, f) <= After(segs, n)
<1>1. PICK n \in DOMAIN segs : Newest(segs, n)
  BY DEF IsDir
<1>2. DOMAIN segs \subseteq Nat \ {0} /\ \A f \in DOMAIN segs : Len(segs[f].frames) \in Nat
  BY DEF IsDir, IsFile, SegmentFile
<1>3. Max(DOMAIN segs) = n
  BY <1>1, <1>2, MaxIsLargest DEF Newest
<1>4. DiskEnd = After(segs, n) - 1
  <2>1. DiskEnd = n + Len(segs[n].frames) - 1
    BY <1>3 DEF DiskEnd, EndOf
  <2> QED
    BY <1>2, <2>1 DEF After
<1>5. ASSUME NEW f \in DOMAIN segs PROVE After(segs, f) <= After(segs, n)
  <2>1. CASE f = n
    BY <2>1, <1>2 DEF After
  <2>2. CASE f # n
    <3>1. f < n
      BY <2>2, <1>1, <1>2 DEF Newest
    <3>2. After(segs, f) <= n /\ After(segs, f) \in DOMAIN segs
      BY <3>1 DEF IsDir, Sealed
    <3> QED
      BY <3>2, <1>2 DEF After
  <2> QED
    BY <2>1, <2>2
<1> QED
  BY <1>1, <1>2, <1>3, <1>4, <1>5

\* open repairs the newest file and takes the directory as its table.
LEMMA OpenKeeps ==
    ASSUME LogInv, Open, UNCHANGED setting
    PROVE  LogInv'
<1> USE DEF LogInv, Open, ghosts
<1>0. /\ pc = "down" /\ pc' = "idle" /\ ~Running /\ Running' /\ ~Publishing'
      /\ UNCHANGED <<gone, loose, call, calls, acked, refused, offsets, shadow>> /\ committed' = offsets
      /\ active' = FALSE /\ poisoned' = FALSE /\ next' = DiskEnd + 1
  BY DEF Running, Publishing
<1>1. /\ DOMAIN segs' = DOMAIN segs /\ DOMAIN mem' = DOMAIN segs
      /\ \A f \in DOMAIN segs : segs'[f] = Repaired(segs[f]) /\ mem'[f].count = Len(segs[f].frames)
  OBVIOUS
<1>2. /\ IsDir(segs) /\ (\A f \in DOMAIN segs : IsFile(segs[f]) /\ f \in Nat \ {0})
      /\ \A f \in DOMAIN segs : Len(segs[f].frames) \in Nat
  BY SegsAreADir DEF IsDir, IsFile, SegmentFile
<1>3. \A f \in DOMAIN segs : /\ segs'[f].frames = segs[f].frames /\ ~segs'[f].torn /\ IsFile(segs'[f])
                             /\ segs[f].synced = Len(segs[f].frames) => segs'[f].synced = Len(segs[f].frames)
  <2>1. SUFFICES ASSUME NEW s, IsFile(s)
                 PROVE  /\ Repaired(s).frames = s.frames /\ ~Repaired(s).torn /\ IsFile(Repaired(s))
                        /\ s.synced = Len(s.frames) => Repaired(s).synced = Len(s.frames)
    BY <1>1, <1>2
  <2>2. s.frames \in Seq(Frame) /\ s.torn \in BOOLEAN
    BY <2>1 DEF IsFile, SegmentFile
  <2>3. CASE s.torn
    <3>1. Repaired(s) = [frames |-> s.frames, synced |-> Len(s.frames), torn |-> FALSE]
      BY <2>3 DEF Repaired
    <3> QED
      BY <2>2, <3>1 DEF IsFile, SegmentFile
  <2>4. CASE ~s.torn
    BY <2>1, <2>4 DEF Repaired
  <2> QED
    BY <2>3, <2>4
<1>4. /\ DOMAIN Whole' = DOMAIN Whole
      /\ \A f \in DOMAIN Whole : /\ Whole'[f].frames = Whole[f].frames
                                 /\ f \in DOMAIN segs => Whole'[f] = segs'[f]
                                 /\ f \notin DOMAIN segs => Whole'[f] = Whole[f]
  BY <1>0, <1>1, <1>3 DEF Whole, FileAt
<1>5. IsDir(Whole') /\ Readable(Whole', acked)
  <2>0. IsDir(Whole) /\ acked \subseteq (Nat \ {0}) \X Nat /\ Readable(Whole, acked)
    BY DEF DirInv, AckInv
  <2>1. CASE DOMAIN Whole = {}
    <3>1. IsDir(Whole')
      BY <1>4, <2>1 DEF IsDir, Sealed
    <3>2. acked = {}
      BY <2>0, <2>1 DEF Readable, Found
    <3> QED
      BY <3>1, <3>2 DEF Readable
  <2>2. CASE DOMAIN Whole # {}
    <3>1. PICK n \in DOMAIN Whole : Newest(Whole, n)
      BY <2>0, <2>2 DEF IsDir
    <3>2. \A f \in DOMAIN Whole' : IsFile(Whole'[f])
      BY <1>3, <1>4, <2>0 DEF IsDir
    <3>3. \A f \in DOMAIN Whole' : f # n => Whole'[f].frames = Whole[f].frames /\ ~Whole'[f].torn
      <4>1. SUFFICES ASSUME NEW f \in DOMAIN Whole, f # n PROVE ~Whole'[f].torn
        BY <1>4
      <4>2. CASE f \in DOMAIN segs
        BY <4>2, <1>3, <1>4
      <4>3. CASE f \notin DOMAIN segs
        <5>1. f < n
          BY <4>1, <3>1, <2>0 DEF Newest, IsDir
        <5>2. ~Whole[f].torn
          BY <5>1, <2>0 DEF IsDir, Sealed
        <5> QED
          BY <5>2, <4>3, <1>4
      <4> QED
        BY <4>2, <4>3
    <3>4. IsDir(Whole')
      BY <1>4, <2>0, <3>1, <3>2, <3>3, NewestChanges
    <3>5. Whole[n].frames \in Seq(Frame) /\ Whole'[n].frames = Whole[n].frames
      <4>1. IsFile(Whole[n])
        BY <2>0 DEF IsDir
      <4> QED
        BY <1>4, <4>1 DEF IsFile, SegmentFile
    <3>6. PICK k \in Nat : k = Len(Whole[n].frames) /\ k = Len(Whole'[n].frames)
      BY <3>5
    <3>7. \A i \in 1..k : Whole'[n].frames[i] = Whole[n].frames[i]
      BY <3>5
    <3>8. Readable(Whole', acked)
      <4>1. DOMAIN Whole' = DOMAIN Whole /\ n \in DOMAIN Whole /\ IsDir(Whole)
        BY <1>4, <2>0
      <4>2. k \in Nat /\ k <= Len(Whole'[n].frames) /\ k <= Len(Whole[n].frames) /\ k = Len(Whole[n].frames)
        BY <3>6
      <4> HIDE DEF Whole
      <4> QED
        BY <4>1, <4>2, <2>0, <3>2, <3>3, <3>7, NewestKeepsReadable
    <3> QED
      BY <3>4, <3>8
  <2> QED
    BY <2>1, <2>2
<1>6. DirInv'
  BY <1>0, <1>1, <1>5 DEF DirInv
<1>7. CallInv'
  <2>1. tick' \in 0..MaxTick
    <3> DEFINE T == {0} \cup {NewestTick(segs[f]) : f \in DOMAIN segs}
    <3>1. MaxTick \in Nat
      BY LogAssumption
    <3>2. T \subseteq 0..MaxTick /\ T # {}
      BY <1>2, <3>1, TicksAreTicks
    <3>3. tick' = Max(T)
      OBVIOUS
    <3> HIDE DEF T
    <3> QED
      BY <3>1, <3>2, <3>3, MaxIsBounded
  <2> QED
    BY <1>0, <2>1 DEF CallInv
<1>8. IdInv'
  BY <1>0, <1>4 DEF IdInv
<1>9. CASE DOMAIN segs = {}
  <2>1. next' = 1 /\ DOMAIN mem' = {} /\ DOMAIN segs' = {}
    BY <1>0, <1>1, <1>9 DEF DiskEnd
  <2>2. DOMAIN Whole' = {} /\ acked = {}
    <3>1. DOMAIN Whole' = {}
      BY <1>0, <1>4, <1>9, WholeFiles DEF DirInv
    <3> QED
      BY <3>1, <1>5 DEF Readable, Found
  <2>3. AckInv'
    BY <1>0, <1>5, <2>2 DEF AckInv
  <2>4. TableInv' /\ StepInv'
    BY <1>0, <2>1 DEF TableInv, StepInv, Stray
  <2>5. PowerInv'
    BY <1>0, <2>1 DEF PowerInv, Powered, Stray
  <2>6. \A o : Served(o) => Served(o)'
    BY <1>0, <1>9, <2>1 DEF Served
  <2>7. OffsetInv'
    BY <1>0, <2>6 DEF OffsetInv, Powered
  <2> QED
    BY <1>6, <1>7, <1>8, <2>3, <2>4, <2>5, <2>7
<1>10. CASE DOMAIN segs # {}
  <2>1. PICK n \in DOMAIN segs : /\ Newest(segs, n) /\ Max(DOMAIN segs) = n /\ DiskEnd = After(segs, n) - 1
                                 /\ n \in Nat \ {0} /\ Len(segs[n].frames) \in Nat
                                 /\ \A f \in DOMAIN segs : After(segs, f) <= After(segs, n)
    BY <1>2, <1>10, EndIsNewest
  <2>2. Current' = n /\ next' = After(segs, n) /\ next' = n + Len(segs[n].frames)
    BY <1>0, <1>1, <2>1 DEF Current, After
  <2>3. AckInv'
    <3>1. ASSUME NEW a \in acked PROVE a[1] < next'
      <4>0. a[1] \in Nat /\ Readable(segs, acked)
        BY SegsAreADir DEF AckInv
      <4>1. CASE Found(segs, a)
        <5>1. PICK f \in DOMAIN segs : a[1] < After(segs, f)
          BY <4>1 DEF Found
        <5>2. After(segs, f) \in Nat /\ After(segs, n) \in Nat
          BY <1>2 DEF After
        <5>3. After(segs, f) <= After(segs, n)
          BY <2>1
        <5> QED
          BY <4>0, <5>1, <5>2, <5>3, <2>2
      <4>2. CASE a[1] < n
        BY <4>0, <4>2, <2>1, <2>2
      <4> QED
        BY <4>0, <4>1, <4>2, <2>1 DEF Readable
    <3> QED
      BY <1>0, <1>5, <3>1 DEF AckInv
  <2>4. TableInv'
    <3>1. ~Stray'
      BY <1>1 DEF Stray
    <3>2. Newest(mem', Current') /\ next' = Current' + mem'[Current'].count /\ DOMAIN mem' # {}
      BY <1>1, <1>10, <2>1, <2>2 DEF Newest
    <3>3. \A f \in DOMAIN mem' : /\ mem'[f].count \in Nat /\ mem'[f].count = Len(segs'[f].frames)
                                 /\ ~segs'[f].torn
      BY <1>1, <1>2, <1>3
    <3>4. active' \in BOOLEAN /\ poisoned' \in BOOLEAN
      BY <1>0
    <3> QED
      BY <1>1, <3>1, <3>2, <3>3, <3>4 DEF TableInv
  <2>5. StepInv'
    BY <1>0 DEF StepInv
  <2>6. PowerInv'
    <3>1. ~Stray'
      BY <1>1 DEF Stray
    <3>2. ASSUME Powered, NEW f \in DOMAIN segs PROVE mem'[f].count <= segs'[f].synced
      BY <3>2, <1>0, <1>1, <1>2, <1>3 DEF PowerInv
    <3> QED
      BY <1>0, <1>1, <3>1, <3>2 DEF PowerInv, Powered
  <2>7. ASSUME NEW o \in Offsets, Served(o) PROVE Served(o)'
    <3>1. SUFFICES ASSUME NEW c \in Consumer, o[c] # Unregistered
                   PROVE  o[c] < next' /\ \E f \in DOMAIN segs' : f <= o[c] + 1
      BY <1>0 DEF Served
    <3>2. PICK f \in DOMAIN segs : o[c] < After(segs, f)
      BY <1>0, <1>10, <2>7, <3>1 DEF Served
    <3>3. After(segs, f) \in Nat /\ After(segs, n) \in Nat /\ o[c] \in Nat
      BY <1>2, <3>1 DEF After, Offsets
    <3>4. o[c] < next'
      <4>1. After(segs, f) <= After(segs, n)
        BY <2>1
      <4> QED
        BY <3>2, <3>3, <4>1, <2>2
    <3> QED
      BY <1>1, <1>10, <2>7, <3>1, <3>4 DEF Served
  <2>8. OffsetInv'
    BY <1>0, <2>7 DEF OffsetInv, Powered
  <2> QED
    BY <1>6, <1>7, <1>8, <2>3, <2>4, <2>5, <2>6, <2>8
<1> QED
  BY <1>9, <1>10

-----------------------------------------------------------------------------
(* Power loss *)

\* What a power loss leaves of a file: all of it where all of it was synced.
LEMMA RemainsOfFile ==
    ASSUME NEW s, IsFile(s), NEW r \in Remains(s)
    PROVE  /\ IsFile(r) /\ r.synced = Len(r.frames) /\ Len(r.frames) \in Nat
           /\ s.synced <= Len(r.frames) /\ Len(r.frames) <= Len(s.frames)
           /\ \A i \in 1..Len(r.frames) : r.frames[i] = s.frames[i]
           /\ s.synced = Len(s.frames) => r.frames = s.frames /\ (r.torn => s.torn)
<1>1. s.frames \in Seq(Frame) /\ s.synced \in Nat /\ Len(s.frames) \in Nat
  BY DEF IsFile, SegmentFile
<1>2. PICK n \in s.synced..Len(s.frames), t \in BOOLEAN :
         r = [frames |-> SubSeq(s.frames, 1, n), synced |-> n, torn |-> t]
  BY DEF Remains
<1>3. n \in Nat /\ n <= Len(s.frames) /\ s.synced <= n
  BY <1>1
<1>4. /\ SubSeq(s.frames, 1, n) \in Seq(Frame) /\ Len(SubSeq(s.frames, 1, n)) = n
      /\ \A i \in 1..n : SubSeq(s.frames, 1, n)[i] = s.frames[i]
  BY <1>1, <1>3
<1>5. r.frames = SubSeq(s.frames, 1, n) /\ r.synced = n /\ r.torn = t
  BY <1>2
<1>6. IsFile(r)
  BY <1>2, <1>3, <1>4, <1>5 DEF IsFile, SegmentFile
<1>7. ASSUME s.synced = Len(s.frames) PROVE r.frames = s.frames /\ (r.torn => s.torn)
  <2>1. n = Len(s.frames)
    BY <1>1, <1>3, <1>7
  <2>2. SubSeq(s.frames, 1, n) = s.frames
    BY <1>1, <2>1, <1>4, SeqEqual
  <2>3. r.torn => Len(r.frames) < Len(s.frames) \/ s.torn
    BY DEF Remains
  <2> QED
    BY <1>1, <1>5, <2>2, <2>3
<1> QED
  BY <1>3, <1>4, <1>5, <1>6, <1>7

\* Where a power loss may happen every file is synced, but for the frame that is
\* being written.
LEMMA WholeIsSynced ==
    ASSUME LogInv, Powered, NEW f \in DOMAIN Whole
    PROVE  \/ Whole[f].synced = Len(Whole[f].frames)
           \/ pc \in {"sync", "discard"} /\ f = Current /\ f \in DOMAIN segs
<1> USE DEF LogInv
<1>1. CASE f \in DOMAIN gone
  BY <1>1, WholeFiles DEF PowerInv
<1>2. CASE f \in DOMAIN segs /\ ~Running
  BY <1>2, WholeFiles DEF PowerInv
<1>3. CASE f \in DOMAIN segs /\ Running
  <2>1. Whole[f] = segs[f] /\ IsFile(segs[f]) /\ f \in Nat
    BY <1>3, WholeFiles
  <2>2. segs[f].synced \in Nat /\ segs[f].synced <= Len(segs[f].frames) /\ Len(segs[f].frames) \in Nat
    BY <2>1 DEF IsFile, SegmentFile
  <2>3. CASE f \in DOMAIN mem
    <3>1. mem[f].count <= segs[f].synced /\ mem[f].count \in Nat /\ ~poisoned
      BY <1>3, <2>3 DEF PowerInv, TableInv
    <3>2. f < Current \/ f = Current
      <4>1. Newest(mem, Current) /\ Current \in Nat
        BY <1>3, <2>3, WholeFiles DEF TableInv, Newest
      <4> QED
        BY <2>1, <2>3, <4>1 DEF Newest
    <3>3. CASE mem[f].count = Len(segs[f].frames)
      BY <3>1, <3>3, <2>1, <2>2
    <3>4. CASE mem[f].count # Len(segs[f].frames)
      <4>1. ~(f < Current) /\ ~Settled
        BY <1>3, <2>3, <3>4 DEF TableInv
      <4> QED
        BY <1>3, <3>1, <3>2, <4>1 DEF Settled
    <3> QED
      BY <3>3, <3>4
  <2>4. CASE f \notin DOMAIN mem
    <3>1. f = next /\ Stray
      BY <1>3, <2>4 DEF TableInv, Stray
    <3>2. segs[f].frames = <<>>
      BY <1>3, <3>1 DEF TableInv
    <3> QED
      BY <2>1, <2>2, <3>2
  <2> QED
    BY <2>3, <2>4
<1> QED
  BY <1>1, <1>2, <1>3, WholeFiles

\* The files a power loss leaves: the entries of the directory but for one not yet
\* synced, and the newest of the unlinked files.
Survivors(left) ==
    /\ left \subseteq DOMAIN gone \cup DOMAIN segs
    /\ \A f \in left : \A g \in DOMAIN gone : f < g => g \in left
    /\ \/ DOMAIN segs \subseteq left
       \/ /\ Running /\ Stray /\ DOMAIN mem \subseteq left /\ next \notin left
          /\ DOMAIN segs \subseteq left \cup {next}

\* Their names make a directory.
LEMMA SurvivorsAreADir ==
    ASSUME LogInv, NEW left, Survivors(left), NEW e, DOMAIN e = left, \A f \in left : e[f] = Whole[f]
    PROVE  IsDir(e) /\ Readable(e, acked)
<1> USE DEF LogInv
<1>0. /\ DOMAIN Whole = DOMAIN gone \cup DOMAIN segs
      /\ DOMAIN segs \subseteq Nat \ {0} /\ DOMAIN gone \subseteq Nat \ {0}
      /\ \A f \in DOMAIN gone : f \notin DOMAIN segs
  BY WholeFiles
<1>1. IsDir(Whole) /\ acked \subseteq (Nat \ {0}) \X Nat /\ Readable(Whole, acked)
  BY DEF DirInv, AckInv
<1>2. CASE DOMAIN segs \subseteq left
  <2>1. \A f \in left, g \in DOMAIN Whole : f < g => g \in left
    BY <1>0, <1>2 DEF Survivors
  <2>2. left # {} \/ DOMAIN Whole = {}
    BY <1>0, <1>2 DEF DirInv
  <2>3. left \subseteq DOMAIN Whole
    BY <1>0 DEF Survivors
  <2> QED
    BY <1>1, <2>1, <2>2, <2>3, UpperPart
<1>3. CASE /\ Running /\ Stray /\ DOMAIN mem \subseteq left /\ next \notin left
           /\ DOMAIN segs \subseteq left \cup {next}
  <2>1. PICK d : d = [f \in DOMAIN gone \cup DOMAIN mem |-> Whole[f]]
    OBVIOUS
  <2>2. DOMAIN d = DOMAIN gone \cup DOMAIN mem /\ \A f \in DOMAIN d : d[f] = Whole[f]
    BY <2>1
  <2>3. IsDir(d) /\ Readable(d, acked) /\ (DOMAIN gone # {} => DOMAIN mem # {})
    BY <1>3, <2>2, StrayGoes
  <2>4. left \subseteq DOMAIN d
    BY <1>3, <2>2 DEF Survivors, TableInv
  <2>5. \A f \in left, g \in DOMAIN d : f < g => g \in left
    BY <1>3, <2>2 DEF Survivors
  <2>6. left # {} \/ DOMAIN d = {}
    BY <1>3, <2>2, <2>3
  <2>7. \A f \in DOMAIN e : e[f] = d[f]
    BY <2>2, <2>4
  <2> QED
    BY <1>1, <2>3, <2>4, <2>5, <2>6, <2>7, UpperPart
<1> QED
  BY <1>2, <1>3 DEF Survivors

\* What is left of their contents makes one too, and holds what was acknowledged.
LEMMA RemainsAreADir ==
    ASSUME LogInv, Powered, NEW left, Survivors(left), NEW dir, DOMAIN dir = left,
           \A f \in left : dir[f] \in Remains(Whole[f])
    PROVE  /\ IsDir(dir) /\ Readable(dir, acked)
           /\ \A f \in left : /\ dir[f].synced = Len(dir[f].frames)
                              /\ Len(dir[f].frames) \in Nat /\ Len(dir[f].frames) <= Len(Whole[f].frames)
                              /\ Whole[f].synced <= Len(dir[f].frames)
                              /\ \A i \in 1..Len(dir[f].frames) : dir[f].frames[i] = Whole[f].frames[i]
<1> USE DEF LogInv
<1>0. PICK d : d = [f \in left |-> Whole[f]]
  OBVIOUS
<1>1. DOMAIN d = left /\ \A f \in left : d[f] = Whole[f]
  BY <1>0
<1>2. IsDir(d) /\ Readable(d, acked)
  BY <1>1, SurvivorsAreADir
<1>3. left \subseteq DOMAIN Whole
  BY WholeFiles DEF Survivors
<1>4. \A f \in left : /\ IsFile(dir[f]) /\ dir[f].synced = Len(dir[f].frames) /\ Len(dir[f].frames) \in Nat
                      /\ Whole[f].synced <= Len(dir[f].frames) /\ Len(dir[f].frames) <= Len(Whole[f].frames)
                      /\ \A i \in 1..Len(dir[f].frames) : dir[f].frames[i] = Whole[f].frames[i]
                      /\ Whole[f].synced = Len(Whole[f].frames)
                           => dir[f].frames = Whole[f].frames /\ (dir[f].torn => Whole[f].torn)
  <2>1. \A f \in left : IsFile(Whole[f])
    BY <1>3 DEF DirInv, IsDir
  <2> QED
    BY <2>1, RemainsOfFile
<1>5. acked \subseteq (Nat \ {0}) \X Nat
  BY DEF AckInv
<1>6. CASE left = {}
  <2>1. IsDir(dir)
    BY <1>6 DEF IsDir, Sealed
  <2>2. acked = {}
    BY <1>1, <1>2, <1>6 DEF Readable, Found
  <2> QED
    BY <1>6, <2>1, <2>2 DEF Readable
<1>7. CASE left # {}
  <2>1. PICK n \in left : Newest(d, n)
    BY <1>1, <1>2, <1>7 DEF IsDir
  <2>2. ASSUME NEW f \in left, f # n PROVE dir[f].frames = d[f].frames /\ ~dir[f].torn
    <3>1. f < n /\ ~d[f].torn
      <4>1. f < n
        BY <1>1, <1>2, <2>1, <2>2 DEF Newest, IsDir
      <4> QED
        BY <4>1, <1>1, <1>2 DEF IsDir, Sealed
    <3>2. ~(pc \in {"sync", "discard"} /\ f = Current)
      <4>1. SUFFICES ASSUME pc \in {"sync", "discard"}, f = Current PROVE FALSE
        OBVIOUS
      <4>2. Newest(Whole, Current) /\ Current \in Nat
        BY <4>1, WritingCurrent, CurrentIsNewest
      <4>3. n <= f /\ n \in Nat
        BY <4>1, <4>2, <1>1, <1>2, <1>3 DEF Newest, IsDir
      <4> QED
        BY <3>1, <4>1, <4>2, <4>3
    <3>3. Whole[f].synced = Len(Whole[f].frames)
      BY <1>3, <3>2, WholeIsSynced
    <3> QED
      BY <1>1, <1>4, <3>1, <3>3
  <2>3. IsDir(dir)
    BY <1>1, <1>2, <1>4, <2>1, <2>2, NewestChanges
  <2>4. \E k \in Nat : /\ k <= Len(dir[n].frames) /\ k <= Len(d[n].frames)
                       /\ \A i \in 1..k : dir[n].frames[i] = d[n].frames[i]
                       /\ k = Len(d[n].frames) \/ \A a \in acked : a[1] < n + k
    <3>1. Len(d[n].frames) \in Nat
      BY <1>1, <1>2 DEF IsDir, IsFile, SegmentFile
    <3>2. CASE Whole[n].synced = Len(Whole[n].frames)
      <4>1. dir[n].frames = d[n].frames
        BY <1>1, <1>4, <3>2
      <4> QED
        BY <3>1, <4>1
    <3>3. CASE pc \in {"sync", "discard"} /\ n = Current /\ n \in DOMAIN segs
      <4>1. /\ mem[n].count \in Nat /\ next = n + mem[n].count /\ Running /\ n \in DOMAIN mem
            /\ mem[n].count <= Len(segs[n].frames)
        BY <3>3, WritingCurrent
      <4>2. mem[n].count <= segs[n].synced /\ segs[n].synced \in Nat /\ Whole[n] = segs[n]
        BY <3>3, <4>1, WholeFiles DEF PowerInv, IsFile, SegmentFile
      <4>3. mem[n].count <= Len(dir[n].frames) /\ mem[n].count <= Len(d[n].frames)
        BY <1>1, <1>4, <4>1, <4>2
      <4>4. \A i \in 1..mem[n].count : dir[n].frames[i] = d[n].frames[i]
        BY <1>1, <1>4, <4>1, <4>3
      <4>5. \A a \in acked : a[1] < n + mem[n].count
        BY <4>1 DEF AckInv
      <4> QED
        BY <4>1, <4>3, <4>4, <4>5
    <3> QED
      BY <1>3, <3>2, <3>3, WholeIsSynced
  <2>5. PICK k \in Nat : /\ k <= Len(dir[n].frames) /\ k <= Len(d[n].frames)
                         /\ \A i \in 1..k : dir[n].frames[i] = d[n].frames[i]
                         /\ k = Len(d[n].frames) \/ \A a \in acked : a[1] < n + k
    BY <2>4
  <2>6. Readable(dir, acked)
    BY <1>1, <1>2, <1>4, <1>5, <2>2, <2>5, NewestKeepsReadable
  <2> QED
    BY <1>4, <2>3, <2>6
<1> QED
  BY <1>6, <1>7

\* Consumers stay within what is left: their offsets were served by it.
LEMMA ServedByRemains ==
    ASSUME LogInv, Powered, NEW left, Survivors(left), NEW dir, DOMAIN dir = left,
           \A f \in left : dir[f] \in Remains(Whole[f]), NEW o \in Offsets, Served(o)
    PROVE  Within(o, dir)
<1> USE DEF LogInv
<1>1. SUFFICES ASSUME NEW c \in Consumer, o[c] # Unregistered
               PROVE  /\ left = {} \/ \E f \in left : f <= o[c] + 1
                      /\ IF left = {} THEN o[c] = 0 ELSE \E f \in left : o[c] < After(dir, f)
  BY DEF Within
<1>2. \A f \in left : Len(dir[f].frames) \in Nat /\ Whole[f].synced <= Len(dir[f].frames)
  BY RemainsAreADir
<1>3. o[c] \in Nat
  BY <1>1 DEF Offsets
<1>4. /\ \A f \in DOMAIN segs : f \in Nat \ {0} /\ Whole[f] = segs[f]
      /\ \A f \in DOMAIN gone : f \in Nat \ {0}
  BY WholeFiles
<1>5. CASE Running /\ DOMAIN mem = {}
  <2>1. next = 1 /\ DOMAIN segs \subseteq {1} /\ o[c] = 0
    BY <1>1, <1>3, <1>5 DEF TableInv, Served
  <2>2. DOMAIN gone = {}
    <3>1. SUFFICES ASSUME NEW f \in DOMAIN gone PROVE FALSE
      OBVIOUS
    <3>2. 1 \in DOMAIN segs
      BY <2>1 DEF DirInv
    <3>3. f < 1 /\ f \in Nat \ {0}
      BY <1>4, <3>2 DEF DirInv
    <3> QED
      BY <3>3
  <2>3. \A f \in left : f = 1
    BY <2>1, <2>2 DEF Survivors
  <2>4. \A f \in left : o[c] < After(dir, f) /\ f <= o[c] + 1
    BY <1>2, <2>1, <2>3 DEF After
  <2> QED
    BY <2>1, <2>4
<1>6. CASE Running /\ DOMAIN mem # {}
  <2>1. /\ Current \in DOMAIN mem /\ Current \in DOMAIN segs /\ mem[Current].count \in Nat
        /\ next = Current + mem[Current].count /\ mem[Current].count <= segs[Current].synced
    BY <1>6 DEF TableInv, Newest, PowerInv
  <2>2. Current \in left
    BY <2>1 DEF Survivors
  <2>3. o[c] < next /\ (DOMAIN segs = {} \/ \E f \in DOMAIN segs : f <= o[c] + 1)
    BY <1>1, <1>6 DEF Served
  <2>4. o[c] < After(dir, Current)
    <3>1. segs[Current].synced \in Nat
      BY <2>1, WholeFiles DEF IsFile, SegmentFile
    <3>2. mem[Current].count <= Len(dir[Current].frames) /\ Len(dir[Current].frames) \in Nat
      BY <1>2, <1>4, <2>1, <2>2, <3>1
    <3> QED
      BY <1>3, <1>4, <2>1, <2>3, <3>2 DEF After
  <2>5. PICK f \in DOMAIN segs : f <= o[c] + 1
    BY <2>1, <2>3
  <2>6. CASE f \in left
    BY <2>2, <2>4, <2>5, <2>6
  <2>7. CASE f \notin left
    <3>1. f = next
      BY <2>7 DEF Survivors
    <3>2. Current <= o[c] + 1
      BY <1>3, <1>4, <2>1, <2>5, <3>1
    <3> QED
      BY <2>2, <2>4, <3>2
  <2> QED
    BY <2>6, <2>7
<1>7. CASE ~Running
  <2>1. DOMAIN segs \subseteq left
    BY <1>7 DEF Survivors
  <2>2. CASE DOMAIN segs = {}
    <3>1. left = {}
      BY <2>2 DEF Survivors, DirInv
    <3>2. o[c] = 0
      BY <1>1, <1>7, <2>2 DEF Served
    <3> QED
      BY <3>1, <3>2
  <2>3. CASE DOMAIN segs # {}
    <3>1. PICK f \in DOMAIN segs : f <= o[c] + 1
      BY <1>1, <2>3 DEF Served
    <3>2. PICK g \in DOMAIN segs : o[c] < After(segs, g)
      BY <1>1, <1>7, <2>3 DEF Served
    <3>3. segs[g].synced = Len(segs[g].frames) /\ segs[g].synced \in Nat
      BY <1>7, WholeFiles DEF PowerInv, IsFile, SegmentFile
    <3>4. o[c] < After(dir, g)
      BY <1>2, <1>3, <1>4, <2>1, <3>2, <3>3 DEF After
    <3> QED
      BY <2>1, <3>1, <3>4
  <2> QED
    BY <2>2, <2>3
<1> QED
  BY <1>5, <1>6, <1>7

\* The machine loses power.
LEMMA PowerLossKeeps ==
    ASSUME FaultsApart, LogInv, PowerLoss, UNCHANGED setting
    PROVE  LogInv'
<1> USE DEF LogInv, PowerLoss, writer
<1>0. /\ pc' = "down" /\ ~Running' /\ ~Publishing' /\ Powered /\ Powered'
      /\ UNCHANGED <<calls, acked, refused, mem, committed, tick>> /\ gone' = <<>> /\ loose' = {}
      /\ offsets' \in {offsets, shadow} /\ shadow' = offsets' /\ "dir_sync" \notin setting.faults
  BY DEF Running, Publishing, NoCall, Powered, FaultsApart, CallInv, Fault
<1>1. PICK back \in SUBSET DOMAIN gone, lost \in SUBSET loose :
         /\ \A f \in back, g \in DOMAIN gone : f < g => g \in back
         /\ LET left == back \cup (DOMAIN segs \ lost)
            IN  segs' \in {dir \in [left -> UNION {Remains(FileAt(f)) : f \in left}] :
                             \A f \in left : dir[f] \in Remains(FileAt(f))}
  BY Zenon
<1>2. PICK left : left = back \cup (DOMAIN segs \ lost)
  OBVIOUS
<1>3. DOMAIN segs' = left /\ \A f \in left : segs'[f] \in Remains(FileAt(f))
  BY <1>1, <1>2
<1>4. left \subseteq DOMAIN Whole /\ \A f \in left : FileAt(f) = Whole[f]
  BY <1>2 DEF Whole
<1>5. Survivors(left)
  <2>0. /\ \A f \in DOMAIN segs : f \in Nat \ {0}
        /\ \A f \in DOMAIN gone : f \in Nat \ {0} /\ f \notin DOMAIN segs
    BY WholeFiles
  <2>1. left \subseteq DOMAIN gone \cup DOMAIN segs
    BY <1>2
  <2>2. \A f \in left : \A g \in DOMAIN gone : f < g => g \in left
    <3>1. SUFFICES ASSUME NEW f \in left, NEW g \in DOMAIN gone, f < g PROVE g \in left
      OBVIOUS
    <3>2. CASE f \in back
      BY <1>1, <1>2, <3>1, <3>2
    <3>3. CASE f \in DOMAIN segs
      <4>1. g < f
        BY <3>3 DEF DirInv
      <4> QED
        BY <2>0, <3>1, <3>3, <4>1
    <3> QED
      BY <1>2, <3>2, <3>3
  <2>3. CASE lost = {}
    BY <1>2, <2>1, <2>2, <2>3 DEF Survivors
  <2>4. CASE lost # {}
    <3>1. pc = "enter" /\ lost = {next}
      BY <1>0, <2>4 DEF PowerInv
    <3>2. Running /\ Stray
      BY <3>1 DEF Running, StepInv
    <3>3. DOMAIN mem \subseteq DOMAIN segs /\ next \notin DOMAIN mem /\ next \in DOMAIN segs
      BY <3>2 DEF TableInv, Stray
    <3>4. next \notin back
      BY <2>0, <3>3
    <3> QED
      BY <1>2, <2>1, <2>2, <3>1, <3>2, <3>3, <3>4 DEF Survivors
  <2> QED
    BY <2>3, <2>4
<1>6. PICK dir : dir = segs'
  OBVIOUS
<1>7. DOMAIN dir = left /\ \A f \in left : dir[f] \in Remains(Whole[f])
  BY <1>3, <1>4, <1>6
<1>8. /\ IsDir(dir) /\ Readable(dir, acked)
      /\ \A f \in left : /\ dir[f].synced = Len(dir[f].frames)
                         /\ Len(dir[f].frames) \in Nat /\ Len(dir[f].frames) <= Len(Whole[f].frames)
                         /\ \A i \in 1..Len(dir[f].frames) : dir[f].frames[i] = Whole[f].frames[i]
  BY <1>0, <1>5, <1>7, RemainsAreADir
<1>9. DOMAIN gone' = {}
  BY <1>0
<1>10. DOMAIN Whole' = left /\ \A f \in left : Whole'[f] = dir[f]
  BY <1>3, <1>6, <1>9 DEF Whole, FileAt
<1>11. IsDir(Whole') /\ Readable(Whole', acked)
  <2>1. acked \subseteq (Nat \ {0}) \X Nat
    BY DEF AckInv
  <2> QED
    BY <1>7, <1>8, <1>10, <2>1, UpperPart
<1>12. DirInv'
  BY <1>9, <1>11 DEF DirInv
<1>13. CallInv'
  BY <1>0 DEF CallInv
<1>14. IdInv'
  <2>1. ASSUME NEW f \in left, NEW i \in 1..Len(dir[f].frames)
        PROVE  dir[f].frames[i].call \in 1..calls /\ dir[f].frames[i].call \notin refused
    <3>1. i \in 1..Len(Whole[f].frames) /\ dir[f].frames[i] = Whole[f].frames[i]
      <4>1. Len(Whole[f].frames) \in Nat
        BY <1>4 DEF DirInv, IsDir, IsFile, SegmentFile
      <4> QED
        BY <1>8, <2>1, <4>1
    <3> QED
      BY <1>4, <3>1 DEF IdInv
  <2> QED
    BY <1>0, <1>10, <2>1 DEF IdInv
<1>15. AckInv'
  BY <1>0, <1>11 DEF AckInv
<1>16. TableInv' /\ StepInv'
  BY <1>0 DEF TableInv, StepInv
<1>17. PowerInv'
  BY <1>0, <1>3, <1>6, <1>8, <1>9 DEF PowerInv
<1>18. OffsetInv'
  <2>1. PICK o : o = offsets'
    OBVIOUS
  <2>2. o \in Offsets /\ Served(o)
    BY <1>0, <2>1 DEF OffsetInv
  <2>3. Within(o, dir)
    BY <1>0, <1>5, <1>7, <2>2, ServedByRemains
  <2>4. Within(offsets', segs')
    BY <2>1, <2>3, <1>6
  <2>5. Served(offsets)' /\ Served(shadow)'
    BY <1>0, <2>4 DEF Within, Served
  <2>6. {offsets', shadow', committed'} \subseteq Offsets
    BY <1>0 DEF OffsetInv
  <2> QED
    BY <1>0, <2>5, <2>6 DEF OffsetInv
<1> QED
  BY <1>12, <1>13, <1>14, <1>15, <1>16, <1>17, <1>18

-----------------------------------------------------------------------------
(* Theorems about FileEventLog *)

\* A log that was never opened satisfies the invariant.
LEMMA LogInitInv == Init => LogInv
<1> SUFFICES ASSUME Init PROVE LogInv
  OBVIOUS
<1> USE DEF Init
<1>0. /\ DOMAIN segs = {} /\ DOMAIN gone = {} /\ ~Running /\ ~Publishing
      /\ MaxCalls \in Nat /\ MaxTick \in Nat
  BY LogAssumption DEF Running, Publishing, NoCall
<1>1. DOMAIN Whole = {}
  BY <1>0 DEF Whole
<1>2. DirInv
  BY <1>0, <1>1 DEF DirInv, IsDir, Sealed
<1>3. CallInv
  BY <1>0 DEF CallInv
<1>4. IdInv
  BY <1>0, <1>1 DEF IdInv
<1>5. AckInv
  BY <1>0 DEF AckInv, Readable
<1>6. TableInv /\ StepInv /\ PowerInv
  BY <1>0 DEF TableInv, StepInv, PowerInv
<1>7. OffsetInv
  <2>1. Nobody \in Offsets /\ Served(Nobody)
    BY DEF Nobody, Offsets, Served
  <2> QED
    BY <1>0, <2>1 DEF OffsetInv
<1> QED
  BY <1>2, <1>3, <1>4, <1>5, <1>6, <1>7 DEF LogInv

\* Every step preserves it.
LEMMA LogStepInv ==
    ASSUME FaultsApart, LogInv, [Next]_vars
    PROVE  LogInv'
<1>1. CASE UNCHANGED vars
  <2> USE <1>1 DEF LogInv, vars
  <2>1. DirInv' /\ Whole' = Whole /\ AckInv'
    BY FilesStayDir DEF Running
  <2>2. CallInv'
    BY DEF CallInv, CallOf, Publishing
  <2>3. IdInv'
    BY <2>1 DEF IdInv, Publishing, Pending, Current
  <2>4. TableInv' /\ StepInv'
    BY DEF TableInv, StepInv, Running, Settled, Stray, Current, NeedsRoll, Newest
  <2>5. PowerInv'
    BY DEF PowerInv, Powered, Running, Stray
  <2>6. OffsetInv'
    BY DEF OffsetInv, Powered, Running, Served, After
  <2> QED
    BY <2>1, <2>2, <2>3, <2>4, <2>5, <2>6
<1>2. ASSUME Step, UNCHANGED setting PROVE LogInv'
  <2>1. CASE Open
    BY <1>2, <2>1, OpenKeeps
  <2>2. CASE Close
    BY <1>2, <2>2, CloseKeeps
  <2>3. CASE Kill
    BY <1>2, <2>3, KillKeeps
  <2>4. CASE PowerLoss
    BY <1>2, <2>4, PowerLossKeeps
  <2>5. CASE PublishCall
    BY <1>2, <2>5, PublishCallKeeps
  <2>6. CASE PublishFull
    BY <1>2, <2>6, PublishFullKeeps
  <2>7. CASE PublishRoom
    BY <1>2, <2>7, PublishRoomKeeps
  <2>8. CASE SyncClosed
    BY <1>2, <2>8, SyncClosedKeeps
  <2>9. CASE CreateSegment
    BY <1>2, <2>9, CreateSegmentKeeps
  <2>10. CASE EnterSegment
    BY <1>2, <2>10, EnterSegmentKeeps
  <2>11. CASE EnterSegmentFails
    BY <1>2, <2>11, EnterSegmentFailsKeeps
  <2>12. CASE WriteFrame
    BY <1>2, <2>12, WriteFrameKeeps
  <2>13. CASE WriteFails
    BY <1>2, <2>13, WriteFailsKeeps
  <2>14. CASE SyncFrame
    BY <1>2, <2>14, SyncFrameKeeps
  <2>15. CASE SyncFails
    BY <1>2, <2>15, SyncFailsKeeps
  <2>16. CASE DiscardTail
    BY <1>2, <2>16, DiscardTailKeeps
  <2>17. CASE DiscardFails
    BY <1>2, <2>17, DiscardFailsKeeps
  <2>18. CASE \E f \in DOMAIN mem : DeleteSegment(f)
    BY <1>2, <2>18, DeleteSegmentKeeps
  <2>19. CASE EndCompaction
    BY <1>2, <2>19, EndCompactionKeeps
  <2>20. CASE CompactionFails
    BY <1>2, <2>20, CompactionFailsKeeps
  <2>21. CASE \E now \in Clock : AdvanceTick(now)
    BY <1>2, <2>21, AdvanceTickKeeps
  <2>22. ASSUME NEW c \in Consumer, NEW offset \in 0..MaxCalls, RegisterCall(c, offset) \/ CommitCall(c, offset)
         PROVE  LogInv'
    <3>1. offset \in Nat
      BY LogAssumption
    <3> QED
      BY <1>2, <2>22, <3>1, RegisterCallKeeps, CommitCallKeeps
  <2>23. CASE ReplaceOffsets
    BY <1>2, <2>23, ReplaceOffsetsKeeps
  <2>24. CASE SyncOffsets
    BY <1>2, <2>24, SyncOffsetsKeeps
  <2>25. CASE PersistFails
    BY <1>2, <2>25, PersistFailsKeeps
  <2>26. CASE Sync
    BY <1>2, <2>26, SyncKeeps
  <2>27. CASE OpenFails
    BY <1>2, <2>27, OpenFailsKeeps
  <2> QED
    BY <1>2, <2>1, <2>2, <2>3, <2>4, <2>5, <2>6, <2>7, <2>8, <2>9, <2>10, <2>11, <2>12, <2>13, <2>14,
       <2>15, <2>16, <2>17, <2>18, <2>19, <2>20, <2>21, <2>22, <2>23, <2>24, <2>25, <2>26, <2>27 DEF Step
<1> QED
  BY <1>1, <1>2 DEF Next

\* The invariant holds throughout, where no setting combines power losses with kills,
\* failing rollbacks or failing directory syncs.
LEMMA LogAlwaysInv ==
    ASSUME FaultsApart
    PROVE  Spec => []LogInv
<1>1. LogInv /\ [Next]_vars => LogInv'
  BY LogStepInv
<1> QED
  BY <1>1, LogInitInv, PTL DEF Spec

\* The least offset of a directory is where reading starts.
LEMMA LowIsOldest ==
    ASSUME IsDir(segs), DOMAIN segs # {}
    PROVE  Min(DOMAIN segs) \in DOMAIN segs /\ DiskLow = Min(DOMAIN segs) - 1 /\ Min(DOMAIN segs) \in Nat
           /\ \A f \in DOMAIN segs : Min(DOMAIN segs) <= f
<1>1. DOMAIN segs \subseteq Nat
  BY DEF IsDir
<1> QED
  BY <1>1, NatMin DEF DiskLow

\* What the invariant says of acknowledged publishes.
LEMMA InvGivesReadable == LogInv => AckedIsReadable
<1> SUFFICES ASSUME LogInv, NEW a \in acked, a[1] > DiskLow PROVE OnDisk(a[1], a[2])
  BY DEF AckedIsReadable
<1>1. IsDir(segs) /\ Readable(segs, acked) /\ a[1] \in Nat
  BY SegsAreADir DEF LogInv, AckInv
<1>2. CASE Found(segs, a)
  <2>1. PICK f \in DOMAIN segs : f <= a[1] /\ a[1] < After(segs, f) /\ segs[f].frames[a[1] - f + 1].call = a[2]
    BY <1>2 DEF Found
  <2>2. f \in Nat /\ Len(segs[f].frames) \in Nat
    BY <1>1 DEF IsDir, IsFile, SegmentFile
  <2>3. a[1] \in f..EndOf(f)
    BY <1>1, <2>1, <2>2 DEF After, EndOf
  <2> QED
    BY <2>1, <2>3 DEF OnDisk
<1>3. CASE DOMAIN segs # {} /\ \A f \in DOMAIN segs : a[1] < f
  <2>1. a[1] < Min(DOMAIN segs) /\ DiskLow = Min(DOMAIN segs) - 1 /\ Min(DOMAIN segs) \in Nat
    BY <1>1, <1>3, LowIsOldest
  <2> QED
    BY <1>1, <2>1
<1> QED
  BY <1>1, <1>2, <1>3 DEF Readable

\* What it says of the directory a restart finds.
LEMMA InvGivesReopen == LogInv => ReopenSucceeds
<1> SUFFICES ASSUME LogInv, pc = "down", "dir_sync" \notin setting.faults PROVE OpenRefusal = "None"
  BY DEF ReopenSucceeds
<1>1. IsDir(segs) /\ ~Running
  BY SegsAreADir DEF LogInv, Running
<1>2. offsets \in Offsets /\ Served(offsets)
  BY DEF LogInv, OffsetInv
<1>3. ~(\E f, g \in DOMAIN segs : f < g /\ segs[f].torn)
  BY <1>1 DEF IsDir, Sealed
<1>4. ~(\E f, g \in DOMAIN segs : Follows(f, g) /\ g # EndOf(f) + 1)
  <2>1. SUFFICES ASSUME NEW f \in DOMAIN segs, NEW g \in DOMAIN segs, Follows(f, g) PROVE g = EndOf(f) + 1
    OBVIOUS
  <2>2. segs[f].frames # <<>> /\ After(segs, f) <= g /\ After(segs, f) \in DOMAIN segs
    BY <1>1, <2>1 DEF IsDir, Sealed, Follows
  <2>3. f \in Nat /\ g \in Nat /\ segs[f].frames \in Seq(Frame) /\ Len(segs[f].frames) \in Nat
    BY <1>1 DEF IsDir, IsFile, SegmentFile
  <2>4. Len(segs[f].frames) # 0
    BY <2>2, <2>3, EmptySeq
  <2>5. g <= After(segs, f)
    BY <2>1, <2>2, <2>3, <2>4 DEF Follows, After
  <2> QED
    BY <2>2, <2>3, <2>5 DEF After, EndOf
<1>5. ASSUME NEW c \in Registered(offsets) PROVE ~(offsets[c] > DiskEnd) /\ ~(offsets[c] < DiskLow)
  <2>1. c \in Consumer /\ offsets[c] # Unregistered /\ offsets[c] \in Nat
    BY <1>2, <1>5 DEF Registered, Offsets
  <2>2. CASE DOMAIN segs = {}
    <3>1. offsets[c] = 0 /\ DiskEnd = 0 /\ DiskLow = 0
      BY <1>1, <1>2, <2>1, <2>2 DEF Served, DiskEnd, DiskLow
    <3> QED
      BY <3>1
  <2>3. CASE DOMAIN segs # {}
    <3>1. PICK f \in DOMAIN segs : f <= offsets[c] + 1
      BY <1>2, <2>1, <2>3 DEF Served
    <3>2. PICK g \in DOMAIN segs : offsets[c] < After(segs, g)
      BY <1>1, <1>2, <2>1, <2>3 DEF Served
    <3>3. PICK n \in DOMAIN segs : /\ DiskEnd = After(segs, n) - 1 /\ After(segs, g) <= After(segs, n)
      BY <1>1, <2>3, EndIsNewest
    <3>4. f \in Nat /\ After(segs, g) \in Nat /\ After(segs, n) \in Nat
      <4>1. f \in Nat /\ g \in Nat /\ n \in Nat /\ IsFile(segs[g]) /\ IsFile(segs[n])
        BY <1>1 DEF IsDir
      <4>2. Len(segs[g].frames) \in Nat /\ Len(segs[n].frames) \in Nat
        BY <4>1 DEF IsFile, SegmentFile
      <4>3. After(segs, g) = g + Len(segs[g].frames) /\ After(segs, n) = n + Len(segs[n].frames)
        BY Zenon DEF After
      <4> QED
        BY <4>1, <4>2, <4>3, SMTT(30)
    <3>5. DiskLow = Min(DOMAIN segs) - 1 /\ Min(DOMAIN segs) <= f /\ Min(DOMAIN segs) \in Nat
      BY <1>1, <2>3, LowIsOldest
    <3> QED
      BY <2>1, <3>1, <3>2, <3>3, <3>4, <3>5
  <2> QED
    BY <2>2, <2>3
<1> QED
  BY <1>3, <1>4, <1>5, Zenon DEF OpenRefusal

\* What it says of refused publishes.
LEMMA InvGivesRefused == LogInv => RefusedIsNotResurrected
<1> SUFFICES ASSUME LogInv, NEW id \in refused, NEW offset \in 1..MaxCalls, OnDisk(offset, id) PROVE FALSE
  BY DEF RefusedIsNotResurrected
<1>1. PICK f \in DOMAIN segs : offset \in f..EndOf(f) /\ segs[f].frames[offset - f + 1].call = id
  BY DEF OnDisk
<1>2. f \in DOMAIN Whole /\ Whole[f] = segs[f] /\ f \in Nat /\ IsFile(segs[f])
  BY WholeFiles DEF LogInv
<1>3. Len(segs[f].frames) \in Nat
  BY <1>2 DEF IsFile, SegmentFile
<1>4. offset - f + 1 \in 1..Len(segs[f].frames)
  BY <1>1, <1>2, <1>3 DEF EndOf
<1> QED
  BY <1>1, <1>2, <1>4 DEF LogInv, IdInv

\* Every publish that returned its offset is found there, whatever failed since,
\* unless compaction has passed it.
THEOREM LogKeepsAcked ==
    ASSUME FaultsApart
    PROVE  Spec => []AckedIsReadable
BY LogAlwaysInv, InvGivesReadable, PTL

\* Whatever happened to the process or the machine, open accepts the directory.
THEOREM LogReopens ==
    ASSUME FaultsApart
    PROVE  Spec => []ReopenSucceeds
BY LogAlwaysInv, InvGivesReopen, PTL

\* A publish that returned an error and was rolled back is not in the log.
THEOREM LogForgetsRefused ==
    ASSUME FaultsApart
    PROVE  Spec => []RefusedIsNotResurrected
BY LogAlwaysInv, InvGivesRefused, PTL
=============================================================================
