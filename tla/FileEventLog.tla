--------------------------- MODULE FileEventLog ----------------------------
(***************************************************************************)
(* The persistent event log of crates/ptr-events/src/file_log.rs: framed   *)
(* records in segment files, consumer offsets in a file replaced by        *)
(* rename, one writer, and a file system that may fail, lose the process   *)
(* or lose power between any two calls.                                    *)
(*                                                                         *)
(* Abstractions.                                                           *)
(*  - All frames have one size, so bytes are counted in frames.            *)
(*  - A record is the number of the publish call that wrote it.            *)
(*  - A segment is named by its first offset, as its file is: the          *)
(*    directory and the writer's table are functions on these offsets.     *)
(*  - After a power loss a file holds a prefix of what was written to it,  *)
(*    at least what was synced, and possibly a damaged frame after it; the *)
(*    directory changes since its last sync may be undone, the newest      *)
(*    unlinks and the newest creations first.                              *)
(*  - A setting is what a behaviour is configured with and exposed to:     *)
(*    sync is FsyncPolicy (1 is Always, n > 1 EveryRecords(n), 0 Never),   *)
(*    keep is RetentionPolicy, faults are the failures that may happen.    *)
(*    FsyncPolicy promises nothing after a power loss unless it is Always. *)
(***************************************************************************)
EXTENDS EventPolicy, Sequences, FiniteSetsExt

CONSTANTS
    SegmentFrames,  \* FileLogConfig.segment_max_bytes
    MaxUnacked,     \* FileLogConfig.max_unacked_records
    Settings,       \* the settings behaviours are explored under
    MaxFaults,      \* bound on the number of faults
    MaxCalls        \* bound on publish calls

FaultKinds == {"kill", "power", "open", "write", "sync", "rollback", "delete", "offsets",
               "dir_sync"}

Setting == [sync : Nat, faults : SUBSET FaultKinds,
            keep : [records : Limit, bytes : Limit, ticks : Limit]]

ASSUME LogAssumption ==
    /\ {SegmentFrames, MaxUnacked} \subseteq Nat \ {0}
    /\ {MaxFaults, MaxCalls, MaxTick} \subseteq Nat
    /\ \A s \in Settings : s \in Setting /\ ("power" \in s.faults => s.sync = 1)

VARIABLES
    setting,   \* FileEventLog.config, and the faults of this behaviour
    segs,      \* the segment files of the directory, by first offset
    gone,      \* unlinked segment files a power loss may bring back
    loose,     \* segments whose directory entry is not durable yet, by first offset
    offsets,   \* offsets.bin as a reader of the directory sees it
    shadow,    \* offsets.bin as a power loss would leave it
    pc,        \* where the writer's current call is
    call,      \* that call: its name and what it was given or saved
    mem,       \* FileEventLog.segments, by first offset
    active,    \* FileEventLog.active is an open handle of the last segment
    next,      \* FileEventLog.next
    committed, \* FileEventLog.committed
    tick,      \* FileEventLog.tick
    unsynced,  \* FileEventLog.unsynced
    poisoned,  \* FileEventLog.poisoned
    calls,     \* number of publish calls so far
    acked,     \* history: <<offset, call>> of every publish that returned Ok
    refused,   \* history: calls that returned an error and were rolled back
    faults     \* number of faults so far

disk == <<segs, gone, loose, offsets, shadow>>
writer == <<mem, active, next, committed, tick, unsynced, poisoned>>
ghosts == <<calls, acked, refused, faults>>
vars == <<setting, segs, gone, loose, offsets, shadow, pc, call, mem, active, next, committed, tick,
          unsynced, poisoned, calls, acked, refused, faults>>

Unregistered == -1
Offsets == [Consumer -> {Unregistered} \cup Nat]
Frame == [call : 1..MaxCalls, tick : 0..MaxTick]
SegmentFile == [frames : Seq(Frame), synced : Nat, torn : BOOLEAN]
Segment == [count : Nat, newest : 0..MaxTick]

NoCall == [name |-> "none"]
Nobody == [c \in Consumer |-> Unregistered]

EndOf(f) == f + Len(segs[f].frames) - 1   \* offset of the last complete frame of a file
LastOf(f) == f + mem[f].count - 1         \* Segment.last
Current == Max(DOMAIN mem)                \* segments.last()

TypeOK ==
    /\ setting \in Settings
    /\ DOMAIN segs \subseteq Nat \ {0} /\ DOMAIN mem \subseteq DOMAIN segs
    /\ \A f \in DOMAIN segs : segs[f] \in SegmentFile /\ segs[f].synced <= Len(segs[f].frames)
    /\ \A f \in DOMAIN mem : mem[f] \in Segment /\ mem[f].count <= SegmentFrames
    /\ loose \subseteq Nat /\ active \in BOOLEAN /\ poisoned \in BOOLEAN
    /\ {offsets, shadow, committed} \subseteq Offsets
    /\ next \in Nat \ {0} /\ tick \in 0..MaxTick /\ unsynced \in Nat
    /\ calls \in 0..MaxCalls /\ faults \in 0..MaxFaults

Init ==
    /\ setting \in Settings
    /\ segs = <<>> /\ gone = <<>> /\ loose = {}
    /\ offsets = Nobody /\ shadow = Nobody
    /\ pc = "down" /\ call = NoCall
    /\ mem = <<>> /\ active = FALSE /\ next = 1 /\ committed = Nobody
    /\ tick = 0 /\ unsynced = 0 /\ poisoned = FALSE
    /\ calls = 0 /\ acked = {} /\ refused = {} /\ faults = 0

Fault(kind) == kind \in setting.faults /\ faults < MaxFaults /\ faults' = faults + 1
SyncEvery == setting.sync
Syncs == SyncEvery # 0

-----------------------------------------------------------------------------
(* FileEventLog::open *)

\* What scanning the directory finds wrong, in the order open looks for it.
Registered(offs) == {c \in Consumer : offs[c] # Unregistered}
DiskEnd == IF DOMAIN segs = {} THEN 0 ELSE EndOf(Max(DOMAIN segs))
DiskLow == IF DOMAIN segs = {} THEN 0 ELSE Min(DOMAIN segs) - 1
Follows(f, g) == f < g /\ \A h \in DOMAIN segs : h <= f \/ g <= h

OpenRefusal ==
    CASE \E f, g \in DOMAIN segs : f < g /\ segs[f].torn -> "IncompleteFrame"
      [] \E f, g \in DOMAIN segs : Follows(f, g) /\ g # EndOf(f) + 1 -> "SegmentGap"
      [] \E c \in Registered(offsets) : offsets[c] > DiskEnd -> "OffsetsAheadOfLog"
      [] \E c \in Registered(offsets) : offsets[c] < DiskLow -> "Truncated"
      [] OTHER -> "None"

\* The torn tail is left for the next append to follow.
RepairSkipped(s) == s

\* Only a repaired tail is synced; frames that were merely found are not.
Repaired(s) ==
    IF s.torn THEN [frames |-> s.frames, synced |-> Len(s.frames), torn |-> FALSE] ELSE s

NewestTick(s) == IF s.frames = <<>> THEN 0 ELSE s.frames[Len(s.frames)].tick

Open ==
    /\ pc = "down" /\ OpenRefusal = "None"
    /\ segs' = [f \in DOMAIN segs |-> Repaired(segs[f])]
    /\ mem' = [f \in DOMAIN segs |-> [count |-> Len(segs[f].frames), newest |-> NewestTick(segs[f])]]
    /\ next' = DiskEnd + 1
    /\ committed' = offsets
    /\ tick' = Max({0} \cup {NewestTick(segs[f]) : f \in DOMAIN segs})
    /\ active' = FALSE /\ unsynced' = 0 /\ poisoned' = FALSE
    /\ pc' = "idle"
    /\ UNCHANGED <<gone, loose, offsets, shadow, call, ghosts>>

-----------------------------------------------------------------------------
(* compact: whole closed segments below the floor, oldest first *)

EndOffset == next - 1
LowWater == IF DOMAIN mem = {} THEN EndOffset ELSE Min(DOMAIN mem) - 1
Floor == IF Registered(committed) = {} THEN EndOffset
         ELSE Min({committed[c] : c \in Registered(committed)})

\* Bytes of the leading segments every consumer is done with.
HistoryBytes ==
    LET done == {f \in DOMAIN mem : \A g \in DOMAIN mem : g <= f => mem[g].count > 0 /\ LastOf(g) <= Floor}
    IN MapThenSumSet(LAMBDA f : mem[f].count, done)

Expired(f) ==
    \/ Exceeds(Floor - LowWater, setting.keep.records)
    \/ Exceeds(HistoryBytes, setting.keep.bytes)
    \/ Exceeds(tick - mem[f].newest, setting.keep.ticks)

\* The oldest segment goes, unless it is the only one.
Reclaimable(f) ==
    /\ f \in DOMAIN mem /\ (\A g \in DOMAIN mem : f <= g) /\ (\E g \in DOMAIN mem : f < g)
    /\ mem[f].count > 0 /\ LastOf(f) <= Floor /\ Expired(f)

NothingReclaimable == \A f \in DOMAIN mem : ~Reclaimable(f)

\* Where the call that compacted goes on.
AfterCompaction == IF call.name = "publish" THEN "room" ELSE "idle"

DirSynced == gone' = <<>> /\ loose' = {} /\ shadow' = offsets

\* A directory with one more file.
With(dir, f, s) == [g \in DOMAIN dir \cup {f} |-> IF g = f THEN s ELSE dir[g]]

DeleteSegment(f) ==
    /\ pc = "compact" /\ Reclaimable(f)
    /\ segs' = Restrict(segs, DOMAIN segs \ {f}) /\ mem' = Restrict(mem, DOMAIN mem \ {f})
    /\ gone' = With(gone, f, segs[f])
    /\ call' = [call EXCEPT !.removed = TRUE]
    /\ UNCHANGED <<loose, offsets, shadow, pc, active, next, committed, tick, unsynced, poisoned, ghosts>>

EndCompaction ==
    /\ pc = "compact" /\ NothingReclaimable
    /\ IF call.removed /\ Syncs THEN DirSynced ELSE UNCHANGED <<gone, loose, shadow>>
    /\ pc' = AfterCompaction
    /\ UNCHANGED <<segs, offsets, call, writer, ghosts>>

\* The unlink or the directory sync fails: commit has already returned its
\* result to itself (compact_best_effort), every other caller gets the error.
CompactionFails ==
    /\ pc = "compact"
    /\ \/ ~NothingReclaimable /\ Fault("delete")
       \/ NothingReclaimable /\ call.removed /\ Syncs /\ Fault("dir_sync")
    /\ pc' = "idle"
    /\ refused' = IF call.name = "publish" THEN refused \cup {call.id} ELSE refused
    /\ UNCHANGED <<disk, call, writer, calls, acked>>

\* The host calls compact or advance_tick.
AdvanceTick(now) ==
    /\ pc = "idle" /\ now >= tick
    /\ tick' = now
    /\ pc' = "compact" /\ call' = [name |-> "host", removed |-> FALSE]
    /\ UNCHANGED <<disk, mem, active, next, committed, unsynced, poisoned, ghosts>>

-----------------------------------------------------------------------------
(* publish and append *)

PublishCall ==
    /\ pc = "idle" /\ ~poisoned /\ calls < MaxCalls
    /\ calls' = calls + 1
    /\ pc' = "compact" /\ call' = [name |-> "publish", removed |-> FALSE, id |-> calls + 1]
    /\ UNCHANGED <<disk, writer, acked, refused, faults>>

NeedsRoll == DOMAIN mem = {} \/ (mem[Current].count > 0 /\ mem[Current].count + 1 > SegmentFrames)

PublishFull ==
    /\ pc = "room" /\ EndOffset - Floor >= MaxUnacked
    /\ pc' = "idle"
    /\ refused' = refused \cup {call.id}
    /\ UNCHANGED <<disk, call, writer, calls, acked, faults>>

PublishRoom ==
    /\ pc = "room" /\ EndOffset - Floor < MaxUnacked
    /\ IF NeedsRoll THEN pc' = "roll" /\ UNCHANGED active
                    ELSE pc' = "write" /\ active' = TRUE
    /\ UNCHANGED <<disk, call, mem, next, committed, tick, unsynced, poisoned, ghosts>>

\* The segment to append to cannot be created, or not be opened where no handle is left.
OpenFails ==
    /\ \/ pc = "create"
       \/ pc = "room" /\ EndOffset - Floor < MaxUnacked /\ ~NeedsRoll /\ ~active
    /\ Fault("open")
    /\ pc' = "idle" /\ refused' = refused \cup {call.id}
    /\ UNCHANGED <<disk, call, writer, calls, acked>>

SyncedLast == [segs EXCEPT ![Current].synced = Len(segs[Current].frames)]

\* start_segment: a handle that is open is synced and closed; without one the
\* segment is left as it is.
SyncClosed ==
    /\ pc = "roll"
    /\ active' = FALSE
    /\ \/ /\ segs' = IF active /\ Syncs THEN SyncedLast ELSE segs
          /\ pc' = "create" /\ UNCHANGED <<refused, faults>>
       \/ /\ active /\ Syncs /\ Fault("sync")
          /\ pc' = "idle" /\ refused' = refused \cup {call.id} /\ UNCHANGED segs
    /\ UNCHANGED <<gone, loose, offsets, shadow, call, mem, next, committed, tick, unsynced,
                   poisoned, calls, acked>>

\* create_new refuses a file of that name, which only a failed removal leaves.
CreateSegment ==
    /\ pc = "create"
    /\ IF next \in DOMAIN segs
       THEN pc' = "idle" /\ refused' = refused \cup {call.id} /\ UNCHANGED <<segs, loose>>
       ELSE /\ segs' = With(segs, next, [frames |-> <<>>, synced |-> 0, torn |-> FALSE])
            /\ loose' = loose \cup {next} /\ pc' = "enter" /\ UNCHANGED refused
    /\ UNCHANGED <<gone, offsets, shadow, call, writer, calls, acked, faults>>

EnterSegment ==
    /\ pc = "enter"
    /\ IF Syncs THEN DirSynced ELSE UNCHANGED <<gone, loose, shadow>>
    /\ mem' = With(mem, next, [count |-> 0, newest |-> tick])
    /\ active' = TRUE /\ pc' = "write"
    /\ UNCHANGED <<segs, offsets, call, next, committed, tick, unsynced, poisoned, ghosts>>

\* The directory sync fails; removing the new file again may fail too.
EnterSegmentFails ==
    /\ pc = "enter" /\ Syncs /\ Fault("dir_sync")
    /\ \/ segs' = Restrict(segs, DOMAIN segs \ {next}) /\ loose' = loose \ {next}
       \/ "delete" \in setting.faults /\ UNCHANGED <<segs, loose>>
    /\ pc' = "idle" /\ refused' = refused \cup {call.id}
    /\ UNCHANGED <<gone, offsets, shadow, call, writer, calls, acked>>

WriteFrame ==
    /\ pc = "write"
    /\ segs' = [segs EXCEPT ![Current].frames = Append(@, [call |-> call.id, tick |-> tick])]
    /\ pc' = "sync"
    /\ UNCHANGED <<gone, loose, offsets, shadow, call, writer, ghosts>>

WriteFails ==
    /\ pc = "write" /\ Fault("write")
    /\ segs' = [segs EXCEPT ![Current].torn = TRUE]
    /\ pc' = "discard"
    /\ UNCHANGED <<gone, loose, offsets, shadow, call, writer, calls, acked, refused>>

\* sync_after_write
Counted == IF SyncEvery > 1 THEN unsynced + 1 ELSE unsynced
SyncDue == SyncEvery = 1 \/ (SyncEvery > 1 /\ Counted >= SyncEvery)

SyncFrameLate ==
    /\ pc = "sync"
    /\ unsynced' = Counted
    /\ mem' = [mem EXCEPT ![Current] = [count |-> @.count + 1, newest |-> tick]]
    /\ next' = next + 1
    /\ acked' = acked \cup {<<next, call.id>>}
    /\ pc' = "idle"
    /\ UNCHANGED <<disk, call, active, committed, tick, poisoned, calls, refused, faults>>

SyncFrame ==
    /\ pc = "sync"
    /\ IF SyncDue THEN segs' = SyncedLast /\ unsynced' = 0
                  ELSE segs' = segs /\ unsynced' = Counted
    /\ mem' = [mem EXCEPT ![Current] = [count |-> @.count + 1, newest |-> tick]]
    /\ next' = next + 1
    /\ acked' = acked \cup {<<next, call.id>>}
    /\ pc' = "idle"
    /\ UNCHANGED <<gone, loose, offsets, shadow, call, active, committed, tick, poisoned,
                   calls, refused, faults>>

SyncFails ==
    /\ pc = "sync" /\ SyncDue /\ Fault("sync")
    /\ unsynced' = Counted /\ pc' = "discard"
    /\ UNCHANGED <<disk, call, mem, active, next, committed, tick, poisoned,
                   calls, acked, refused>>

\* discard_tail: the segment is cut back to the last good length and synced.
Cut ==
    LET good == mem[Current].count
    IN  [segs EXCEPT ![Current] =
            [frames |-> SubSeq(@.frames, 1, good), torn |-> FALSE,
             synced |-> IF Syncs THEN good ELSE Min({@.synced, good})]]

DiscardSkipped ==
    /\ pc = "discard"
    /\ active' = FALSE /\ pc' = "idle" /\ refused' = refused \cup {call.id}
    /\ UNCHANGED <<disk, call, mem, next, committed, tick, unsynced, poisoned,
                   calls, acked, faults>>

DiscardTail ==
    /\ pc = "discard"
    /\ segs' = Cut
    /\ active' = FALSE /\ pc' = "idle" /\ refused' = refused \cup {call.id}
    /\ UNCHANGED <<gone, loose, offsets, shadow, call, mem, next, committed, tick, unsynced,
                   poisoned, calls, acked, faults>>

\* The cut or its sync fails: what is on disk is unknown, the writer is poisoned.
DiscardFails ==
    /\ pc = "discard" /\ Fault("rollback")
    /\ segs' \in {segs, Cut}
    /\ poisoned' = TRUE /\ active' = FALSE /\ pc' = "idle"
    /\ UNCHANGED <<gone, loose, offsets, shadow, call, mem, next, committed, tick, unsynced,
                   calls, acked, refused>>

\* FileEventLog::sync, called by the host.
Sync ==
    /\ pc = "idle"
    /\ segs' = IF active THEN SyncedLast ELSE segs
    /\ unsynced' = 0
    /\ UNCHANGED <<gone, loose, offsets, shadow, pc, call, mem, active, next, committed, tick,
                   poisoned, ghosts>>

-----------------------------------------------------------------------------
(* register and commit: the offsets file is replaced before they return *)

RegisterCall(c, from) ==
    /\ pc = "idle" /\ from \in LowWater..EndOffset
    /\ committed' = [committed EXCEPT ![c] = from]
    /\ call' = [name |-> "register", c |-> c, previous |-> committed[c]]
    /\ pc' = "replace"
    /\ UNCHANGED <<disk, mem, active, next, tick, unsynced, poisoned, calls, acked, refused, faults>>

CommitCall(c, upto) ==
    /\ pc = "idle" /\ committed[c] # Unregistered /\ upto <= EndOffset
    /\ call' = [name |-> "commit", c |-> c, previous |-> committed[c],
                removed |-> FALSE]
    /\ IF upto > committed[c]
       THEN /\ committed' = [committed EXCEPT ![c] = upto]
            /\ pc' = "replace"
       ELSE pc' = "compact" /\ UNCHANGED committed
    /\ UNCHANGED <<disk, mem, active, next, tick, unsynced, poisoned, calls, acked, refused, faults>>

\* The call succeeded; only commit compacts.
Persisted ==
    pc' = IF call.name = "commit" THEN "compact" ELSE "idle"

\* write_atomic up to the rename of offsets.bin.tmp.
ReplaceOffsets ==
    /\ pc = "replace"
    /\ offsets' = committed
    /\ IF Syncs THEN pc' = "offsets_sync" ELSE Persisted
    /\ UNCHANGED <<segs, gone, loose, shadow, call, writer, calls, acked, refused, faults>>

SyncOffsets ==
    /\ pc = "offsets_sync"
    /\ DirSynced /\ Persisted
    /\ UNCHANGED <<segs, offsets, call, writer, calls, acked, refused, faults>>

\* write_atomic returns an error, before the rename or after it: memory goes
\* back to what it was, the file is as it is.
PersistFails ==
    /\ \/ pc = "replace" /\ Fault("offsets")
       \/ pc = "offsets_sync" /\ Fault("dir_sync")
    /\ committed' = [committed EXCEPT ![call.c] = call.previous]
    /\ pc' = "idle"
    /\ UNCHANGED <<disk, call, mem, active, next, tick, unsynced, poisoned, calls, acked, refused>>

-----------------------------------------------------------------------------
(* The environment *)

\* The log is closed between two calls.
Close ==
    /\ pc = "idle"
    /\ pc' = "down" /\ call' = NoCall
    /\ UNCHANGED <<disk, writer, ghosts>>

\* The process dies in the middle of a call, perhaps of a write.
Kill ==
    /\ pc \notin {"idle", "down"} /\ Fault("kill")
    /\ \/ UNCHANGED segs
       \/ pc = "write" /\ segs' = [segs EXCEPT ![Current].torn = TRUE]
    /\ pc' = "down" /\ call' = NoCall
    /\ UNCHANGED <<gone, loose, offsets, shadow, writer, calls, acked, refused>>

\* What a power loss may leave of a file: a prefix that holds what was synced,
\* and a damaged frame where more was written.
Remains(s) ==
    {r \in {[frames |-> SubSeq(s.frames, 1, n), synced |-> n, torn |-> t] :
                n \in s.synced..Len(s.frames), t \in BOOLEAN} :
        r.torn => Len(r.frames) < Len(s.frames) \/ s.torn}

FileAt(f) == IF f \in DOMAIN segs THEN segs[f] ELSE gone[f]

\* Unlinked files come back and created ones are lost, the newest first.
PowerLoss ==
    /\ Fault("power")
    /\ \E back \in SUBSET DOMAIN gone, lost \in SUBSET loose :
          /\ \A f \in back, g \in DOMAIN gone : f < g => g \in back
          /\ \A f \in lost, g \in loose : f < g => g \in lost
          /\ LET left == back \cup (DOMAIN segs \ lost)
             IN  segs' \in {dir \in [left -> UNION {Remains(FileAt(f)) : f \in left}] :
                              \A f \in left : dir[f] \in Remains(FileAt(f))}
    /\ offsets' \in {offsets, shadow} /\ shadow' = offsets'
    /\ gone' = <<>> /\ loose' = {}
    /\ pc' = "down" /\ call' = NoCall
    /\ UNCHANGED <<writer, calls, acked, refused>>

\* Where nothing ages, the clock is of no consequence and is left alone.
Clock == IF setting.keep.ticks = NoLimit THEN {tick} ELSE 0..MaxTick

Step ==
    \/ Open \/ Close \/ Kill \/ PowerLoss
    \/ PublishCall \/ PublishFull \/ PublishRoom
    \/ OpenFails \/ SyncClosed \/ CreateSegment \/ EnterSegment \/ EnterSegmentFails
    \/ WriteFrame \/ WriteFails \/ SyncFrame \/ SyncFails \/ DiscardTail \/ DiscardFails
    \/ (\E f \in DOMAIN mem : DeleteSegment(f)) \/ EndCompaction \/ CompactionFails
    \/ \E now \in Clock : AdvanceTick(now)
    \/ \E c \in Consumer : \E offset \in 0..MaxCalls : RegisterCall(c, offset) \/ CommitCall(c, offset)
    \/ ReplaceOffsets \/ SyncOffsets \/ PersistFails
    \/ Sync

Next == Step /\ UNCHANGED setting

Spec == Init /\ [][Next]_vars

-----------------------------------------------------------------------------
(* Properties *)

OnDisk(offset, id) ==
    \E f \in DOMAIN segs :
        /\ offset \in f..EndOf(f)
        /\ segs[f].frames[offset - f + 1].call = id

\* Every publish that returned its offset is found there, with its own contents,
\* whatever failed since, unless compaction has passed it: under FsyncPolicy::Always
\* also after a power loss. An offset is never given to two records.
AckedIsReadable == \A a \in acked : a[1] > DiskLow => OnDisk(a[1], a[2])

\* Whatever happened to the process or the machine, open accepts the directory: a
\* torn tail is the only damage, only the newest segment has it, and no consumer's
\* durable offset is below what compaction left. A directory sync that fails after
\* the rename of offsets.bin is the exception (README, known divergences).
ReopenSucceeds == pc = "down" /\ "dir_sync" \notin setting.faults => OpenRefusal = "None"

\* A publish that returned an error is not in the log a reopen would find
\* (append's comment on sync_after_write failing), provided the rollback worked.
RefusedIsNotResurrected ==
    pc \in {"idle", "down"} => \A id \in refused, offset \in 1..MaxCalls : ~OnDisk(offset, id)
=============================================================================
