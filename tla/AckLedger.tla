----------------------------- MODULE AckLedger -----------------------------
(***************************************************************************)
(* The acknowledged ledger of crates/ptr-ledger: a hash-chained log file   *)
(* (file.rs, integrity.rs), the authenticated anchor that says how far the *)
(* log is acknowledged and which file is live (anchor.rs), the protocol    *)
(* that binds the two (acknowledged.rs) and the compaction cutover         *)
(* (compaction.rs), run by one host on a file system that may fail.        *)
(*                                                                         *)
(* Abstractions.                                                           *)
(*  - A chain digest identifies the whole history below it (SHA-256 is     *)
(*    taken as collision free), so a LogAnchor (index, digest) is the      *)
(*    sequence of events it commits to; its index is the length.           *)
(*  - The content of the log file with floor n is the history its frames   *)
(*    chain to: the first n events are the base digest in its first        *)
(*    frame, the rest are the complete frames of the file.                 *)
(*  - A partial trailing frame and an all-zero tail are both `torn': the   *)
(*    scanner reports both as incomplete and recovery trims both.          *)
(*  - The MAC, the framing bytes and the size limits are left out; the     *)
(*    record limit is MaxRecords.                                          *)
(***************************************************************************)
EXTENDS Integers, SequencesExt

CONSTANTS
    Event,       \* payloads of ledger records
    MaxRecords,  \* integrity.rs MAX_RECORDS
    Keep,        \* values of RetentionPolicy.keep_records the host uses
    Policies,    \* values of TailPolicy the host opens with
    Faults,      \* which faults may happen, a subset of FaultKinds
    MaxFaults,   \* bound on the number of faults of a behaviour
    Host,        \* every host process that may hold a lock
    Me,          \* the host whose steps this module describes
    Free         \* the lock of a file nobody holds

FaultKinds == {"kill", "power", "log_io", "anchor_io", "dir_sync"}

ASSUME BoundAssumption == MaxRecords \in Nat /\ MaxFaults \in Nat /\ Keep \subseteq Nat
ASSUME HostAssumption == Me \in Host /\ Free \notin Host
ASSUME PolicyAssumption == Policies \subseteq {"Acknowledge", "Discard", "Refuse"}
ASSUME FaultAssumption == Faults \subseteq FaultKinds

VARIABLES
    files,     \* the directory: the log file named for each floor
    anchor,    \* the anchor record a reader of the directory sees
    shadow,    \* the anchor record a power loss would leave
    witness,   \* the epoch the host retains outside the anchor file
    snapshot,  \* the position the host's retained snapshot covers
    promised,  \* history: what some call has returned Ok for
    faults,    \* history: number of faults so far
    pc,        \* where the host's current call is
    op,        \* the call that is being served
    current,   \* AnchorStore.current
    log,       \* FileLedger.events above FileLedger.base, as a history
    poisoned,  \* FileLedger.poisoned
    fenced,    \* AcknowledgedLedger.fenced
    next,      \* the anchor the call is about to publish
    plan       \* the CompactionPlan the host holds

diskVars == <<files, anchor, shadow>>
hostVars == <<pc, op, current, log, poisoned, fenced, next, plan>>
ghostVars == <<promised, faults>>
vars == <<files, anchor, shadow, witness, snapshot, promised, faults,
          pc, op, current, log, poisoned, fenced, next, plan>>

Floors == 0..MaxRecords
History == {h \in Seq(Event) : Len(h) <= MaxRecords}
File == [present : BOOLEAN, hist : History, torn : BOOLEAN, synced : Nat,
         lock : Host \cup {Free}]
ProtectedAnchor == [epoch : Nat, log : History, origin : History, base : History]
CompactionPlan == [base : History, tail : History]

Absent == [present |-> FALSE, hist |-> <<>>, torn |-> FALSE, synced |-> 0, lock |-> Free]
\* Epoch 0 stands for an anchor file that does not exist: the first epoch is 1.
NoAnchor == [epoch |-> 0, log |-> <<>>, origin |-> <<>>, base |-> <<>>]
NoPlan == [base |-> <<>>, tail |-> <<>>]

FloorOf(a) == Len(a.base)

-----------------------------------------------------------------------------
(* Anchors and scanning *)

InitialAnchor == [epoch |-> 1, log |-> <<>>, origin |-> <<>>, base |-> <<>>]

\* FileLedger::derived_origin: only a log that still holds index 1 names one.
DerivedOrigin(base, tail) ==
    IF base = <<>> /\ tail # <<>> THEN SubSeq(tail, 1, 1) ELSE <<>>

AcknowledgingWithoutOrigin(a, tail) ==
    [epoch |-> a.epoch + 1, log |-> tail, base |-> a.base, origin |-> a.origin]

AcknowledgingWithoutFloor(a, tail) ==
    [epoch |-> a.epoch + 1, log |-> tail, base |-> <<>>,
     origin |-> IF a.origin # <<>> THEN a.origin ELSE DerivedOrigin(a.base, tail)]

\* AnchorStore::acknowledge: the successor that covers `tail'.
Acknowledging(a, tail) ==
    [epoch |-> a.epoch + 1, log |-> tail, base |-> a.base,
     origin |-> IF a.origin # <<>> THEN a.origin ELSE DerivedOrigin(a.base, tail)]

\* AnchorStore::advance_compacted: floor and covered prefix move together.
Compacting(a, p) ==
    [epoch |-> a.epoch + 1, log |-> p.tail, base |-> p.base, origin |-> a.origin]

\* AnchorStore::commit: what a published anchor may replace.
MonotoneSuccessor(a, b) ==
    /\ Len(b.base) <= Len(b.log)
    /\ b.epoch > a.epoch
    /\ Len(b.log) >= Len(a.log)
    /\ Len(b.log) = Len(a.log) => b.log = a.log
    /\ a.origin # <<>> => b.origin = a.origin

\* integrity::scan_from: the frames of f chain from `base'.
Chained(f, base) == Len(f.hist) = Len(base) \/ IsPrefix(base, f.hist)

\* The tail the scan of f ends at; a file without frames ends at its base.
ScanTail(f, base) == IF Len(f.hist) = Len(base) THEN base ELSE f.hist

\* RecoverableLog::classify against the anchor that named the file.
Classify(f, a) ==
    LET tail == ScanTail(f, a.base)
        derived == DerivedOrigin(a.base, tail)
    IN  IF derived # <<>> /\ a.origin # <<>> /\ derived # a.origin THEN "OriginMismatch"
        ELSE IF IsPrefix(a.log, tail) /\ Len(a.base) <= Len(a.log)
             THEN IF a.log = tail /\ ~f.torn THEN "Aligned" ELSE "Unacknowledged"
        ELSE IF Len(a.log) > Len(tail) THEN "LostSuffix" ELSE "Diverged"

\* Split::is_recoverable, for a log that could be locked, read and scanned.
IsRecoverable(f, a) ==
    /\ f.present
    /\ Chained(f, a.base)
    /\ Classify(f, a) \in {"Aligned", "Unacknowledged"}

-----------------------------------------------------------------------------
(* Helpers *)

\* A handle on a file works on the directory's file only while that file is
\* the one it locked: a file that was unlinked is written to no avail.
Writing(floor, f) ==
    IF files[floor].lock = Me THEN [files EXCEPT ![floor] = f] ELSE files

Unlocked(floors) ==
    [n \in Floors |-> IF n \in floors /\ files[n].lock = Me
                      THEN [files[n] EXCEPT !.lock = Free] ELSE files[n]]

DropHandle ==
    /\ pc' = "closed" /\ op' = "none"
    /\ current' = NoAnchor /\ next' = NoAnchor
    /\ log' = <<>> /\ poisoned' = FALSE /\ fenced' = FALSE

Fault(kind) ==
    /\ kind \in Faults
    /\ faults < MaxFaults
    /\ faults' = faults + 1

\* A call that returns Ok tells its caller that `h' is committed.
Promise(h) == promised' = IF IsPrefix(promised, h) THEN h ELSE promised

\* The call returns and the handle stays open.
Return == pc' = "open" /\ op' = "none" /\ next' = NoAnchor

-----------------------------------------------------------------------------
(* AcknowledgedLedger::create *)

CreateLog ==
    /\ pc = "closed"
    /\ anchor = NoAnchor
    /\ ~files[0].present
    /\ files' = [files EXCEPT ![0] = [Absent EXCEPT !.present = TRUE, !.lock = Me]]
    /\ pc' = "publish" /\ op' = "create" /\ next' = InitialAnchor
    /\ UNCHANGED <<anchor, shadow, witness, snapshot, promised, faults,
                   current, log, poisoned, fenced, plan>>

-----------------------------------------------------------------------------
(* AcknowledgedLedger::open *)

WitnessAcceptsLater(a) == a.epoch > witness

\* AnchorStore::open_expecting refuses an epoch below the host's witness.
WitnessAccepts(a) == a.epoch >= witness

\* The anchor is read and authenticated; no lock is held yet.
ReadAnchor ==
    /\ pc = "closed"
    /\ anchor # NoAnchor
    /\ WitnessAccepts(anchor)
    /\ pc' = "reading" /\ op' = "open" /\ current' = anchor
    /\ UNCHANGED <<files, anchor, shadow, witness, snapshot, promised, faults,
                   log, poisoned, fenced, next, plan>>

LiveFile == files[FloorOf(current)]

OpenRefusalWithoutLock(policy) ==
    \/ ~IsRecoverable(LiveFile, current)
    \/ policy = "Refuse" /\ Classify(LiveFile, current) = "Unacknowledged"

OpenRefusal(policy) ==
    \/ LiveFile.lock # Free
    \/ ~IsRecoverable(LiveFile, current)
    \/ policy = "Refuse" /\ Classify(LiveFile, current) = "Unacknowledged"

RefuseOpen(policy) ==
    /\ pc = "reading"
    /\ OpenRefusal(policy)
    /\ DropHandle
    /\ UNCHANGED <<files, anchor, shadow, witness, snapshot, promised, faults, plan>>

RepairTargetAlwaysDiscards(policy, a, tail) == a.log

\* The tail `repair' leaves: only Discard gives up complete records.
RepairTarget(policy, a, tail) == IF policy = "Discard" THEN a.log ELSE tail

\* lock_for_recovery, classify, repair; then the tail is acknowledged if the
\* anchor did not cover it. A trim is synchronized, an untouched tail is not.
RepairTail(policy) ==
    /\ pc = "reading"
    /\ ~OpenRefusal(policy)
    /\ LET f == LiveFile
           tail == ScanTail(f, current.base)
           target == RepairTarget(policy, current, tail)
           trimmed == f.torn \/ target # tail
       IN  /\ files' = [files EXCEPT ![FloorOf(current)] =
                           [f EXCEPT !.hist = target, !.torn = FALSE, !.lock = Me,
                                     !.synced = IF trimmed THEN Len(target) ELSE @]]
           /\ log' = target
           /\ IF target = current.log
              THEN /\ pc' = "open" /\ op' = "none" /\ next' = NoAnchor
                   /\ Promise(target)
              ELSE /\ pc' = "publish" /\ next' = Acknowledging(current, target)
                   /\ UNCHANGED <<op, promised>>
    /\ UNCHANGED <<anchor, shadow, witness, snapshot, faults, current, poisoned,
                   fenced, plan>>

\* truncate_durably fails: nothing is cut, or the cut is made and its synchronization
\* fails. The open gives up with its lock. (A power loss may take the cut back, to a tail
\* that the next open cuts again; this is left out.)
RepairFails(policy) ==
    /\ pc = "reading"
    /\ ~OpenRefusal(policy)
    /\ Fault("log_io")
    /\ LET f == LiveFile
           tail == ScanTail(f, current.base)
           target == RepairTarget(policy, current, tail)
       IN  /\ f.torn \/ target # tail
           /\ \/ UNCHANGED files
              \/ files' = [files EXCEPT ![FloorOf(current)] =
                              [f EXCEPT !.hist = target, !.torn = FALSE,
                                        !.synced = IF @ < Len(target) THEN @ ELSE Len(target)]]
    /\ DropHandle
    /\ UNCHANGED <<anchor, shadow, witness, snapshot, promised, plan>>

-----------------------------------------------------------------------------
(* AcknowledgedLedger::append_acknowledged *)

\* integrity::encode_record: the next index must be within the record limit.
RecordLimitAdmits(tail) == Len(tail) < MaxRecords

\* File::sync_data: everything written to the file so far is durable.
SyncData(f, tail) == [f EXCEPT !.synced = Len(tail)]

\* append_durable up to the frame header: poisoned before the first byte.
WriteHeader(e) ==
    /\ pc = "open" /\ ~fenced /\ ~poisoned
    /\ RecordLimitAdmits(log)
    /\ poisoned' = TRUE
    /\ files' = Writing(FloorOf(current), [LiveFile EXCEPT !.torn = TRUE])
    /\ next' = Acknowledging(current, Append(log, e))
    /\ pc' = "header" /\ op' = "append"
    /\ UNCHANGED <<anchor, shadow, witness, snapshot, promised, faults, current,
                   log, fenced, plan>>

\* The header write fails before its first byte: the handle is poisoned all the same.
HeaderFails ==
    /\ pc = "open" /\ ~fenced /\ ~poisoned
    /\ RecordLimitAdmits(log)
    /\ Fault("log_io")
    /\ poisoned' = TRUE
    /\ UNCHANGED <<files, anchor, shadow, witness, snapshot, promised, pc, op, current,
                   log, fenced, next, plan>>

WritePayload ==
    /\ pc = "header"
    /\ files' = Writing(FloorOf(current), [LiveFile EXCEPT !.torn = FALSE, !.hist = next.log])
    /\ pc' = "payload"
    /\ UNCHANGED <<anchor, shadow, witness, snapshot, promised, faults, op, current,
                   log, poisoned, fenced, next, plan>>

\* sync_data, then memory; the ledger is fenced until the anchor follows.
SyncRecord ==
    /\ pc = "payload"
    /\ files' = Writing(FloorOf(current), SyncData(LiveFile, next.log))
    /\ log' = next.log
    /\ poisoned' = FALSE /\ fenced' = TRUE
    /\ pc' = "publish"
    /\ UNCHANGED <<anchor, shadow, witness, snapshot, promised, faults, op, current,
                   next, plan>>

AppendFails ==
    /\ pc \in {"header", "payload"}
    /\ Fault("log_io")
    /\ Return
    /\ UNCHANGED <<files, anchor, shadow, witness, snapshot, promised, current,
                   log, poisoned, fenced, plan>>

-----------------------------------------------------------------------------
(* AnchorStore::publish: scratch write and fsync, rename, directory fsync *)

RenameAnchor ==
    /\ pc = "publish"
    /\ MonotoneSuccessor(current, next)
    /\ anchor' = next
    /\ pc' = "dirsync"
    /\ UNCHANGED <<files, shadow, witness, snapshot, promised, faults, op, current,
                   log, poisoned, fenced, next, plan>>

FinishPublicationWithoutDirSync ==
    /\ current' = next
    /\ Return
    /\ UNCHANGED <<anchor, shadow, witness, snapshot, faults, log, plan>>

\* The publication returns Ok and the calling operation finishes.
FinishPublication ==
    /\ shadow' = anchor
    /\ current' = next
    /\ Return
    /\ UNCHANGED <<anchor, witness, snapshot, faults, log, plan>>

FinishCreateOrOpen ==
    /\ pc = "dirsync" /\ op \in {"create", "open"}
    /\ FinishPublication
    /\ Promise(log)
    /\ UNCHANGED <<files, poisoned, fenced>>

FinishAppend ==
    /\ pc = "dirsync" /\ op = "append"
    /\ FinishPublication
    /\ fenced' = FALSE
    /\ Promise(log)
    /\ UNCHANGED <<files, poisoned>>

\* The handle of the compacted file replaces the old one, which is unlocked.
FinishCompact ==
    /\ pc = "dirsync" /\ op = "compact"
    /\ FinishPublication
    /\ files' = Unlocked({FloorOf(current)})
    /\ poisoned' = FALSE
    /\ UNCHANGED <<promised, fenced>>

\* A failed publication: before the rename nothing changed on disk, after it
\* the directory already shows the new record.
PublicationFails ==
    \/ pc = "publish" /\ Fault("anchor_io")
    \/ pc = "dirsync" /\ Fault("dir_sync")

\* create and open give up and drop the log with its lock.
AbortCreateOrOpen ==
    /\ op \in {"create", "open"}
    /\ PublicationFails
    /\ files' = Unlocked(Floors)
    /\ DropHandle
    /\ UNCHANGED <<anchor, shadow, witness, snapshot, promised, plan>>

AbortAppendIgnored ==
    /\ op = "append"
    /\ PublicationFails
    /\ Return
    /\ Promise(log) /\ fenced' = FALSE
    /\ UNCHANGED <<files, anchor, shadow, witness, snapshot, current, log, poisoned, plan>>

\* append_acknowledged leaves itself fenced.
AbortAppend ==
    /\ op = "append"
    /\ PublicationFails
    /\ Return
    /\ UNCHANGED <<files, anchor, shadow, witness, snapshot, promised, current, log,
                   poisoned, fenced, plan>>

\* compact drops the file it built and keeps working on the old one.
AbortCompact ==
    /\ op = "compact"
    /\ PublicationFails
    /\ files' = Unlocked({FloorOf(next)})
    /\ Return
    /\ UNCHANGED <<anchor, shadow, witness, snapshot, promised, current, log,
                   poisoned, fenced, plan>>

-----------------------------------------------------------------------------
(* plan_compaction, compact, reclaim_orphans *)

\* The floor the retention policy proposes, capped by CompactionBarrier.
ProposedFloor(tail, keep) ==
    IF tail - keep < snapshot THEN tail - keep ELSE snapshot

PlanCompaction(keep) ==
    LET floor == FloorOf(current)
        tail == Len(current.log)
        proposed == ProposedFloor(tail, keep)
    IN  /\ pc = "open"
        /\ tail - floor > keep
        /\ proposed > floor
        /\ proposed <= Len(log)
        /\ plan' = [base |-> SubSeq(log, 1, proposed), tail |-> current.log]
        /\ UNCHANGED <<files, anchor, shadow, witness, snapshot, promised, faults,
                       pc, op, current, log, poisoned, fenced, next>>

\* The refusals of `compact', and the check create_from_log_above makes of the
\* records it is handed, before the destination is created.
CompactAdmits ==
    /\ ~fenced
    /\ plan.tail = current.log
    /\ Len(plan.base) > FloorOf(current)
    /\ Len(plan.base) <= Len(current.log)
    /\ IsPrefix(plan.base, log)
    /\ ~files[Len(plan.base)].present
    /\ log = plan.tail

CreateCompacted ==
    /\ pc = "open"
    /\ CompactAdmits
    /\ files' = [files EXCEPT ![Len(plan.base)] =
                    [present |-> TRUE, hist |-> plan.base, torn |-> TRUE,
                     synced |-> Len(plan.base), lock |-> Me]]
    /\ pc' = "building" /\ op' = "compact" /\ next' = Compacting(current, plan)
    /\ UNCHANGED <<anchor, shadow, witness, snapshot, promised, faults, current, log,
                   poisoned, fenced, plan>>

\* Records written, file and directory synchronized; the anchor comes next.
SyncCompacted ==
    /\ pc = "building"
    /\ files' = [files EXCEPT ![FloorOf(next)] =
                    [@ EXCEPT !.hist = log, !.torn = FALSE, !.synced = Len(log)]]
    /\ pc' = "publish"
    /\ UNCHANGED <<anchor, shadow, witness, snapshot, promised, faults, op, current,
                   log, poisoned, fenced, next, plan>>

BuildFails ==
    /\ pc = "building"
    /\ Fault("log_io")
    /\ files' = Unlocked({FloorOf(next)})
    /\ Return
    /\ UNCHANGED <<anchor, shadow, witness, snapshot, promised, current, log,
                   poisoned, fenced, plan>>

OrphansByTail == {n \in Floors : files[n].present /\ n # Len(current.log)}

\* LogPaths::orphans: every log of the set but the one named live.
Orphans == {n \in Floors : files[n].present /\ n # FloorOf(current)}

\* Orphans are deleted in order of their names; a failure may stop the loop.
ReclaimOrphans(last) ==
    /\ pc = "open"
    /\ last \in Orphans
    /\ files' = [n \in Floors |-> IF n \in Orphans /\ n <= last THEN Absent ELSE files[n]]
    /\ UNCHANGED <<anchor, shadow, witness, snapshot, promised, faults, pc, op,
                   current, log, poisoned, fenced, next, plan>>

-----------------------------------------------------------------------------
(* The host around the ledger, and the faults *)

\* The host stores AcknowledgedLedger::epoch as its rollback witness.
RetainWitness ==
    /\ pc = "open"
    /\ witness' = current.epoch
    /\ witness' # witness
    /\ UNCHANGED <<files, anchor, shadow, snapshot, promised, faults, pc, op, current,
                   log, poisoned, fenced, next, plan>>

\* The host retains a snapshot of everything acknowledged so far.
RetainSnapshot ==
    /\ pc = "open"
    /\ snapshot' = Len(current.log)
    /\ snapshot' # snapshot
    /\ UNCHANGED <<files, anchor, shadow, witness, promised, faults, pc, op, current,
                   log, poisoned, fenced, next, plan>>

Close ==
    /\ pc = "open"
    /\ files' = Unlocked(Floors)
    /\ DropHandle
    /\ UNCHANGED <<anchor, shadow, witness, snapshot, promised, faults, plan>>

\* The process dies: the operating system keeps what was written and frees
\* the locks.
Kill ==
    /\ pc # "closed"
    /\ Fault("kill")
    /\ files' = Unlocked(Floors)
    /\ DropHandle
    /\ plan' = NoPlan
    /\ UNCHANGED <<anchor, shadow, witness, snapshot, promised>>

\* The machine dies: the data written after the last synchronization is lost
\* from `cut' on, and the anchor's last rename may be undone.
AfterPowerLoss(f, cut, torn) ==
    LET kept == IF f.synced <= cut /\ cut <= Len(f.hist) THEN cut ELSE Len(f.hist)
    IN  [f EXCEPT !.hist = SubSeq(f.hist, 1, kept), !.synced = kept, !.lock = Free,
                  !.torn = torn /\ (f.torn \/ kept < Len(f.hist))]

PowerLoss(cut, torn, renamed, linked) ==
    /\ Fault("power")
    /\ files' = [n \in Floors |->
                   IF ~files[n].present \/ (~linked /\ pc = "building" /\ n = FloorOf(next))
                   THEN Absent ELSE AfterPowerLoss(files[n], cut, torn)]
    /\ anchor' = IF renamed THEN anchor ELSE shadow
    /\ shadow' = anchor'
    /\ DropHandle
    /\ plan' = NoPlan
    /\ UNCHANGED <<witness, snapshot, promised>>

-----------------------------------------------------------------------------

Init ==
    /\ files = [n \in Floors |-> Absent]
    /\ anchor = NoAnchor /\ shadow = NoAnchor
    /\ witness = 0 /\ snapshot = 0
    /\ promised = <<>> /\ faults = 0
    /\ pc = "closed" /\ op = "none"
    /\ current = NoAnchor /\ next = NoAnchor
    /\ log = <<>> /\ poisoned = FALSE /\ fenced = FALSE
    /\ plan = NoPlan

Open ==
    \/ ReadAnchor
    \/ \E policy \in Policies : RefuseOpen(policy) \/ RepairTail(policy) \/ RepairFails(policy)

Publish ==
    \/ RenameAnchor
    \/ FinishCreateOrOpen \/ FinishAppend \/ FinishCompact
    \/ AbortCreateOrOpen \/ AbortAppend \/ AbortCompact

AppendRecord ==
    \/ \E e \in Event : WriteHeader(e)
    \/ HeaderFails \/ WritePayload \/ SyncRecord \/ AppendFails

Compact ==
    \/ \E keep \in Keep : PlanCompaction(keep)
    \/ CreateCompacted \/ SyncCompacted \/ BuildFails
    \/ \E last \in Floors : ReclaimOrphans(last)

HostStep == RetainWitness \/ RetainSnapshot \/ Close

Crash ==
    \/ Kill
    \/ \E cut \in Floors, torn, renamed, linked \in BOOLEAN :
          PowerLoss(cut, torn, renamed, linked)

Next == CreateLog \/ Open \/ Publish \/ AppendRecord \/ Compact \/ HostStep \/ Crash

Spec == Init /\ [][Next]_vars

\* A call that started runs to its end (the code waits for nothing), and a
\* supervised host opens its set again after it stopped.
FairSpec == Spec /\ WF_vars(Open) /\ WF_vars(Publish)

-----------------------------------------------------------------------------
(* Properties *)

\* Type invariant of the directory, the host's handle and the histories.
TypeOK ==
    /\ files \in [Floors -> File]
    /\ anchor \in ProtectedAnchor /\ shadow \in ProtectedAnchor
    /\ current \in ProtectedAnchor /\ next \in ProtectedAnchor
    /\ witness \in Nat /\ snapshot \in Nat /\ faults \in Nat
    /\ promised \in History /\ log \in History
    /\ poisoned \in BOOLEAN /\ fenced \in BOOLEAN
    /\ plan \in CompactionPlan
    /\ pc \in {"closed", "reading", "open", "header", "payload", "building",
               "publish", "dirsync"}
    /\ op \in {"none", "create", "open", "append", "compact"}

\* Whatever step a crash follows, the anchor on disk names a log that exists
\* and that `open' can recover: never LostSuffix, Diverged or OriginMismatch
\* (the recovery table at the head of acknowledged.rs).
AlwaysRecoverable ==
    anchor # NoAnchor => IsRecoverable(files[FloorOf(anchor)], anchor)

\* A history some call returned Ok for stays acknowledged by the anchor on
\* disk, through crashes, tail repair under every policy and compaction
\* (append_acknowledged: "On success the record is both durable and
\* acknowledged").
PromisedStaysAcknowledged == IsPrefix(promised, anchor.log)

\* No anchor on disk describes a log that holds records under no origin, and
\* the origin is that of record 1 even after record 1 was compacted away
\* (AnchorStore::acknowledge).
OriginIsBound == anchor.origin = DerivedOrigin(<<>>, anchor.log)

\* The anchor on disk only moves forward: a later epoch covers an extension of
\* the earlier history at the same or a higher floor (AnchorStore::commit).
AnchorMovesForward ==
    [][anchor' # anchor => /\ anchor'.epoch > anchor.epoch
                           /\ IsPrefix(anchor.log, anchor'.log)
                           /\ IsPrefix(anchor.base, anchor'.base)]_vars

\* A set whose anchor exists is opened again after any crash, once crashes
\* stop: recovery never waits for anything and never refuses its own leftovers.
ReopenSucceeds == (pc = "closed" /\ anchor # NoAnchor) ~> (pc = "open")

=============================================================================
