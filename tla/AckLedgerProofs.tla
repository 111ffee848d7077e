-------------------------- MODULE AckLedgerProofs --------------------------
(***************************************************************************)
(* Theorems about AckLedger, for every set of events, every record limit,  *)
(* every retention and tail policy and any number of faults.               *)
(*                                                                         *)
(* Type correctness holds under every fault. The safety theorems assume    *)
(* that a directory synchronization does not fail, and that power losses   *)
(* and process deaths do not come together (Steady); without that they are *)
(* false (run ack_cutover_dirsync, README's known divergences).            *)
(*                                                                         *)
(* AlwaysRecoverable and PromisedStaysAcknowledged are not inductive: that *)
(* a rename keeps them depends on what the call that publishes has done so *)
(* far, and that a power loss does on what was synchronized by then. IInv  *)
(* adds what the handle holds, what its file contains and how much of it   *)
(* is durable at each step of a call.                                      *)
(***************************************************************************)
EXTENDS AckLedger, SequenceTheorems, TLAPS

\* A directory synchronization does not fail. Where power may be lost, no process
\* dies alone, which would leave a rename nobody synchronizes; and if a log write may
\* fail, the frames it left are not acknowledged by a later open, which does not
\* synchronize them either.
Steady ==
    /\ "dir_sync" \notin Faults
    /\ "power" \in Faults => /\ "kill" \notin Faults
                             /\ "log_io" \in Faults => "Acknowledge" \notin Policies

\* The log an anchor names is there and extends what the anchor covers, and
\* the anchor itself is consistent.
Sound(a) ==
    /\ files[FloorOf(a)].present
    /\ IsPrefix(a.base, a.log)
    /\ IsPrefix(a.log, files[FloorOf(a)].hist)
    /\ a.origin = DerivedOrigin(<<>>, a.log)

AnchorSound == anchor # NoAnchor => Sound(anchor)

\* `a' is the anchor on disk and this host has the log it names locked.
Holds(a) == a = anchor /\ anchor # NoAnchor /\ files[FloorOf(a)].lock = Me

ClosedInv == pc \in {"closed", "reading"} => log = <<>>

ReadingInv == pc = "reading" => op = "open" /\ current = anchor /\ anchor # NoAnchor

\* A handle that is not fenced remembers what the anchor covers.
OpenInv ==
    pc \in {"open", "header", "payload", "building"} =>
        Holds(current) /\ (~fenced => log = current.log)

\* An append in progress is going to acknowledge an extension of the log.
AppendInv ==
    pc \in {"header", "payload"} =>
        /\ op = "append" /\ ~fenced
        /\ next = Acknowledging(current, next.log)
        /\ IsPrefix(log, next.log)
        /\ pc = "payload" => LiveFile.hist = next.log

\* A cutover in progress builds the same log above a higher floor.
CutoverInv ==
    pc = "building" \/ (pc = "publish" /\ op = "compact") =>
        /\ op = "compact"
        /\ Holds(current) /\ log = current.log
        /\ next = Compacting(current, [base |-> next.base, tail |-> log])
        /\ IsPrefix(next.base, log)
        /\ FloorOf(next) > FloorOf(current)
        /\ files[FloorOf(next)].present /\ files[FloorOf(next)].lock = Me
        /\ pc = "publish" => files[FloorOf(next)].hist = log

\* What is about to be published describes the file that was written.
PublishInv ==
    pc = "publish" =>
        /\ op # "none"
        /\ op = "create" => /\ anchor = NoAnchor /\ next = InitialAnchor /\ log = <<>>
                            /\ files[0].present /\ files[0].lock = Me
        /\ op \in {"open", "append"} =>
              /\ Holds(current)
              /\ next = Acknowledging(current, log)
              /\ IsPrefix(current.log, log)
              /\ LiveFile.hist = log
        /\ op = "append" => fenced

DirSyncInv ==
    pc = "dirsync" =>
        /\ op # "none"
        /\ Holds(next) /\ log = next.log
        /\ op = "compact" => FloorOf(next) # FloorOf(current)

HandleInv ==
    /\ ClosedInv /\ ReadingInv /\ OpenInv /\ AppendInv /\ CutoverInv /\ PublishInv /\ DirSyncInv

\* What an anchor covers is durable; all its file holds is.
Lasting(a) == Len(a.log) <= files[FloorOf(a)].synced
Durable(a) == Len(files[FloorOf(a)].hist) <= files[FloorOf(a)].synced

\* The anchor a power loss in the middle of a publication may bring back is as good
\* as the one that replaces it.
ShadowSound ==
    /\ shadow # NoAnchor => Sound(shadow) /\ Lasting(shadow)
    /\ IsPrefix(promised, shadow.log)

\* Where power may be lost, nothing is covered by an anchor before it is durable, and
\* the only rename that is not durable is that of the call under way.
PowerInv ==
    "power" \in Faults =>
        /\ anchor # NoAnchor => /\ Lasting(anchor)
                                /\ "log_io" \notin Faults /\ pc # "payload" => Durable(anchor)
        /\ pc = "publish" => Durable(next)
        /\ IF pc = "dirsync" THEN ShadowSound ELSE shadow = anchor

\* The inductive invariant.
IInv == TypeOK /\ AnchorSound /\ PromisedStaysAcknowledged /\ HandleInv /\ PowerInv

-----------------------------------------------------------------------------
(* Types of the operators *)

\* A history is no longer than the record limit, so its length names a file.
LEMMA LenHistory ==
    ASSUME NEW h \in History
    PROVE  Len(h) \in Nat /\ Len(h) \in Floors
  BY BoundAssumption DEF History, Floors

\* The history of a log without records.
LEMMA EmptyHistory == <<>> \in History
  BY BoundAssumption DEF History

\* A prefix of a history is a history of that length.
LEMMA SubSeqHistory ==
    ASSUME NEW h \in History, NEW n \in 0..Len(h)
    PROVE  SubSeq(h, 1, n) \in History /\ Len(SubSeq(h, 1, n)) = n
  BY BoundAssumption DEF History

\* FileLedger::derived_origin returns a history of at most one record.
LEMMA DerivedOriginType ==
    ASSUME NEW base \in History, NEW tail \in History
    PROVE  DerivedOrigin(base, tail) \in History
  BY SubSeqHistory, EmptyHistory, EmptySeq DEF DerivedOrigin, History

\* AnchorStore::acknowledge builds an anchor.
LEMMA AcknowledgingType ==
    ASSUME NEW a \in ProtectedAnchor, NEW tail \in History
    PROVE  Acknowledging(a, tail) \in ProtectedAnchor
  BY DerivedOriginType DEF Acknowledging, ProtectedAnchor

\* AnchorStore::advance_compacted builds an anchor.
LEMMA CompactingType ==
    ASSUME NEW a \in ProtectedAnchor, NEW p \in CompactionPlan
    PROVE  Compacting(a, p) \in ProtectedAnchor
  BY DEF Compacting, ProtectedAnchor, CompactionPlan

\* The constant records have their types.
LEMMA ConstantTypes ==
    /\ NoAnchor \in ProtectedAnchor /\ InitialAnchor \in ProtectedAnchor
    /\ NoPlan \in CompactionPlan /\ Absent \in File
  BY EmptyHistory DEF NoAnchor, InitialAnchor, NoPlan, Absent, ProtectedAnchor, CompactionPlan, File

\* The log an anchor names is one of the set (LogPaths::log_path).
LEMMA FloorType ==
    ASSUME NEW a \in ProtectedAnchor
    PROVE  FloorOf(a) \in Floors
  BY BoundAssumption DEF FloorOf, ProtectedAnchor, Floors, History

-----------------------------------------------------------------------------
(* Prefixes of histories *)

\* IsPrefix, element by element.
LEMMA PrefixElements ==
    ASSUME NEW s \in History, NEW t \in History
    PROVE  IsPrefix(s, t) <=> Len(s) <= Len(t) /\ \A i \in 1..Len(s) : s[i] = t[i]
  <1>1. CASE Len(s) > Len(t)
    BY <1>1 DEF IsPrefix, History
  <1>2. CASE Len(s) <= Len(t)
    <2>1. SubSeq(s, 1, Len(s)) \in Seq(Event) /\ SubSeq(t, 1, Len(s)) \in Seq(Event)
      BY <1>2, SubSeqProperties DEF History
    <2>2. Len(SubSeq(s, 1, Len(s))) = Len(s) /\ Len(SubSeq(t, 1, Len(s))) = Len(s)
      BY <1>2 DEF History
    <2>3. \A i \in 1..Len(s) : /\ SubSeq(s, 1, Len(s))[i] = s[i]
                               /\ SubSeq(t, 1, Len(s))[i] = t[i]
      BY <1>2 DEF History
    <2>4. SubSeq(s, 1, Len(s)) = SubSeq(t, 1, Len(s)) <=> \A i \in 1..Len(s) : s[i] = t[i]
      BY <2>1, <2>2, <2>3, SeqEqual
    <2> QED
      BY <1>2, <2>4 DEF IsPrefix
  <1> QED
    BY <1>1, <1>2 DEF History

\* Every history is a prefix of itself.
LEMMA PrefixReflexive == ASSUME NEW s \in History PROVE IsPrefix(s, s)
  BY PrefixElements DEF History

\* The empty history is a prefix of every history.
LEMMA PrefixEmpty == ASSUME NEW s \in History PROVE IsPrefix(<<>>, s)
  <1>1. Len(<<>>) = 0 /\ Len(s) \in Nat
    BY LenHistory, EmptySeq
  <1>2. 1..0 = {}
    OBVIOUS
  <1> QED
    BY <1>1, <1>2, PrefixElements, EmptyHistory

\* A prefix of a prefix is a prefix.
LEMMA PrefixTransitive ==
    ASSUME NEW s \in History, NEW t \in History, NEW u \in History,
           IsPrefix(s, t), IsPrefix(t, u)
    PROVE  IsPrefix(s, u)
  BY PrefixElements DEF History

\* A prefix of the same length is the whole history.
LEMMA PrefixOfEqualLength ==
    ASSUME NEW s \in History, NEW t \in History, IsPrefix(s, t), Len(s) = Len(t)
    PROVE  s = t
  BY PrefixElements, SeqEqual DEF History

\* A prefix is no longer than the whole.
LEMMA PrefixLength ==
    ASSUME NEW s \in History, NEW t \in History, IsPrefix(s, t)
    PROVE  Len(s) <= Len(t)
  BY PrefixElements

\* Appending a record keeps the history as a prefix (append_durable).
LEMMA PrefixAppend ==
    ASSUME NEW s \in History, NEW e, Append(s, e) \in History
    PROVE  IsPrefix(s, Append(s, e))
  <1> DEFINE t == Append(s, e)
  <1>1. t \in History /\ Len(t) = Len(s) + 1 /\ \A i \in 1..Len(s) : t[i] = s[i]
    BY DEF History
  <1> HIDE DEF t
  <1> SUFFICES IsPrefix(s, t)
    BY DEF t
  <1> QED
    BY <1>1, LenHistory, PrefixElements

\* The base a compaction plan takes from the log is a prefix of it.
LEMMA PrefixSubSeq ==
    ASSUME NEW s \in History, NEW n \in 0..Len(s)
    PROVE  IsPrefix(SubSeq(s, 1, n), s)
  <1> DEFINE t == SubSeq(s, 1, n)
  <1>1. \A i \in 1..n : t[i] = s[i]
    BY DEF History
  <1>2. Len(t) = n /\ t \in History
    BY SubSeqHistory
  <1> HIDE DEF t
  <1> SUFFICES IsPrefix(t, s)
    BY DEF t
  <1> QED
    BY <1>1, <1>2, LenHistory, PrefixElements

\* A prefix that a cut spares is a prefix of what is left.
LEMMA PrefixCut ==
    ASSUME NEW s \in History, NEW t \in History, NEW n \in 0..Len(t), IsPrefix(s, t), Len(s) <= n
    PROVE  IsPrefix(s, SubSeq(t, 1, n))
  <1> DEFINE u == SubSeq(t, 1, n)
  <1>1. \A i \in 1..n : u[i] = t[i]
    BY DEF History
  <1>2. Len(u) = n /\ u \in History
    BY SubSeqHistory
  <1> HIDE DEF u
  <1> SUFFICES IsPrefix(s, u)
    BY DEF u
  <1> QED
    BY <1>1, <1>2, LenHistory, PrefixElements

\* Histories with a common non-empty prefix have the same first record.
LEMMA PrefixOrigin ==
    ASSUME NEW s \in History, NEW t \in History, IsPrefix(s, t), s # <<>>
    PROVE  t # <<>> /\ DerivedOrigin(<<>>, s) = DerivedOrigin(<<>>, t)
                    /\ DerivedOrigin(<<>>, s) # <<>>
  <1>1. Len(s) >= 1 /\ Len(t) >= 1 /\ s[1] = t[1]
    BY PrefixElements, EmptySeq DEF History
  <1>2. ASSUME NEW u \in History, Len(u) >= 1
        PROVE  SubSeq(u, 1, 1) = <<u[1]>>
    <2>1. u[1] \in Event /\ SubSeq(u, 1, 1) \in Seq(Event) /\ <<u[1]>> \in Seq(Event)
      BY <1>2 DEF History
    <2>2. Len(SubSeq(u, 1, 1)) = 1 /\ SubSeq(u, 1, 1)[1] = u[1]
      BY <1>2 DEF History
    <2>3. Len(<<u[1]>>) = 1 /\ <<u[1]>>[1] = u[1]
      OBVIOUS
    <2>4. \A i \in 1..1 : SubSeq(u, 1, 1)[i] = <<u[1]>>[i]
      BY <2>2, <2>3
    <2> QED
      BY <2>1, <2>2, <2>3, <2>4, SeqEqual
  <1> QED
    BY <1>1, <1>2 DEF DerivedOrigin

-----------------------------------------------------------------------------
(* Type correctness *)

\* A write through a handle keeps the directory well typed.
LEMMA WritingType ==
    ASSUME files \in [Floors -> File], NEW n \in Floors, NEW f \in File
    PROVE  Writing(n, f) \in [Floors -> File]
  BY DEF Writing

\* Releasing locks keeps the directory well typed (LockedFile::drop).
LEMMA UnlockedType ==
    ASSUME files \in [Floors -> File], NEW floors
    PROVE  Unlocked(floors) \in [Floors -> File]
  BY DEF Unlocked, File

\* The file the current anchor names has the type of a file.
LEMMA LiveFileType ==
    ASSUME TypeOK
    PROVE  LiveFile \in File
  BY FloorType DEF TypeOK, LiveFile

\* The initial state is well typed.
LEMMA TypeInit == Init => TypeOK
  <1> SUFFICES ASSUME Init PROVE TypeOK
    OBVIOUS
  <1>1. poisoned \in BOOLEAN /\ fenced \in BOOLEAN
    BY Zenon DEF Init
  <1>2. witness \in Nat /\ snapshot \in Nat /\ faults \in Nat
    BY DEF Init
  <1>3. files \in [Floors -> File]
    BY ConstantTypes DEF Init
  <1> QED
    BY <1>1, <1>2, <1>3, ConstantTypes, EmptyHistory, Zenon DEF Init, TypeOK

\* Every step keeps the state well typed.
LEMMA TypeStep == TypeOK /\ [Next]_vars => TypeOK'
  <1> SUFFICES ASSUME TypeOK, [Next]_vars PROVE TypeOK'
    OBVIOUS
  <1> USE ConstantTypes, EmptyHistory
  <1>1. CASE CreateLog
    <2>1. files' \in [Floors -> File]
      BY <1>1, HostAssumption DEF CreateLog, TypeOK, File, Absent
    <2> QED
      BY <1>1, <2>1 DEF CreateLog, TypeOK
  <1>2. CASE ReadAnchor
    BY <1>2 DEF ReadAnchor, TypeOK
  <1>3. ASSUME NEW policy \in Policies, RefuseOpen(policy) PROVE TypeOK'
    BY <1>3 DEF RefuseOpen, DropHandle, TypeOK
  <1>4. ASSUME NEW policy \in Policies, RepairTail(policy) PROVE TypeOK'
    <2> DEFINE tail == ScanTail(LiveFile, current.base)
               target == RepairTarget(policy, current, tail)
    <2>1. tail \in History /\ target \in History
      BY LiveFileType DEF ScanTail, RepairTarget, TypeOK, ProtectedAnchor, File
    <2>2. files' \in [Floors -> File]
      BY <1>4, <2>1, LiveFileType, LenHistory, HostAssumption DEF RepairTail, TypeOK, File
    <2>3. Acknowledging(current, target) \in ProtectedAnchor
      BY <2>1, AcknowledgingType DEF TypeOK
    <2>4. promised' \in History
      BY <1>4, <2>1 DEF RepairTail, Promise, TypeOK
    <2> QED
      BY <1>4, <2>1, <2>2, <2>3, <2>4 DEF RepairTail, TypeOK
  <1>5. CASE RenameAnchor
    BY <1>5 DEF RenameAnchor, TypeOK
  <1>6. CASE FinishCreateOrOpen
    BY <1>6 DEF FinishCreateOrOpen, FinishPublication, Return, Promise, TypeOK
  <1>7. CASE FinishAppend
    BY <1>7 DEF FinishAppend, FinishPublication, Return, Promise, TypeOK
  <1>8. CASE FinishCompact
    BY <1>8, UnlockedType DEF FinishCompact, FinishPublication, Return, TypeOK
  <1>9. PublicationFails => faults' \in Nat
    BY DEF PublicationFails, Fault, TypeOK
  <1>10. CASE AbortCreateOrOpen
    BY <1>9, <1>10, UnlockedType DEF AbortCreateOrOpen, DropHandle, TypeOK
  <1>11. CASE AbortAppend
    BY <1>9, <1>11 DEF AbortAppend, Return, TypeOK
  <1>12. CASE AbortCompact
    BY <1>9, <1>12, UnlockedType DEF AbortCompact, Return, TypeOK
  <1>13. ASSUME NEW e \in Event, WriteHeader(e) PROVE TypeOK'
    <2>1. Append(log, e) \in History
      BY <1>13, BoundAssumption DEF WriteHeader, RecordLimitAdmits, TypeOK, History
    <2>2. Acknowledging(current, Append(log, e)) \in ProtectedAnchor
      BY <2>1, AcknowledgingType DEF TypeOK
    <2>3. files' \in [Floors -> File]
      <3>1. [LiveFile EXCEPT !.torn = TRUE] \in File
        BY LiveFileType DEF File
      <3> QED
        BY <1>13, <3>1, WritingType, FloorType DEF WriteHeader, TypeOK
    <2> QED
      BY <1>13, <2>2, <2>3 DEF WriteHeader, TypeOK
  <1>14. CASE WritePayload
    <2>1. [LiveFile EXCEPT !.torn = FALSE, !.hist = next.log] \in File
      BY LiveFileType DEF File, TypeOK, ProtectedAnchor
    <2>2. files' \in [Floors -> File]
      BY <1>14, <2>1, WritingType, FloorType DEF WritePayload, TypeOK
    <2> QED
      BY <1>14, <2>2 DEF WritePayload, TypeOK
  <1>15. CASE SyncRecord
    <2>1. SyncData(LiveFile, next.log) \in File
      BY LiveFileType, LenHistory DEF SyncData, File, TypeOK, ProtectedAnchor
    <2>2. files' \in [Floors -> File]
      BY <1>15, <2>1, WritingType, FloorType DEF SyncRecord, TypeOK
    <2> QED
      BY <1>15, <2>2 DEF SyncRecord, TypeOK, ProtectedAnchor
  <1>16. CASE AppendFails
    BY <1>16 DEF AppendFails, Fault, Return, TypeOK
  <1>17. ASSUME NEW keep \in Keep, PlanCompaction(keep) PROVE TypeOK'
    <2> DEFINE proposed == ProposedFloor(Len(current.log), keep)
    <2>1. keep \in Nat /\ Len(current.log) \in Nat /\ FloorOf(current) \in Nat
      BY BoundAssumption, FloorType, LenHistory DEF TypeOK, ProtectedAnchor, Floors
    <2>2. proposed \in 0..Len(log)
      BY <1>17, <2>1 DEF PlanCompaction, ProposedFloor, TypeOK, History
    <2>3. SubSeq(log, 1, proposed) \in History
      BY <2>2, SubSeqHistory DEF TypeOK
    <2> QED
      BY <1>17, <2>3 DEF PlanCompaction, TypeOK, CompactionPlan, ProtectedAnchor
  <1>18. CASE CreateCompacted
    <2>1. Compacting(current, plan) \in ProtectedAnchor
      BY CompactingType DEF TypeOK
    <2>2. files' \in [Floors -> File]
      BY <1>18, LenHistory, HostAssumption DEF CreateCompacted, TypeOK, File, CompactionPlan
    <2> QED
      BY <1>18, <2>1, <2>2 DEF CreateCompacted, TypeOK
  <1>19. CASE SyncCompacted
    <2>1. FloorOf(next) \in Floors
      BY FloorType DEF TypeOK
    <2>2. files' \in [Floors -> File]
      BY <1>19, <2>1, LenHistory DEF SyncCompacted, TypeOK, File
    <2> QED
      BY <1>19, <2>2 DEF SyncCompacted, TypeOK
  <1>20. CASE BuildFails
    BY <1>20, UnlockedType DEF BuildFails, Fault, Return, TypeOK
  <1>21. ASSUME NEW last \in Floors, ReclaimOrphans(last) PROVE TypeOK'
    BY <1>21 DEF ReclaimOrphans, TypeOK
  <1>22. CASE RetainWitness
    BY <1>22 DEF RetainWitness, TypeOK, ProtectedAnchor
  <1>23. CASE RetainSnapshot
    BY <1>23, LenHistory DEF RetainSnapshot, TypeOK, ProtectedAnchor
  <1>24. CASE Close
    BY <1>24, UnlockedType DEF Close, DropHandle, TypeOK
  <1>25. CASE Kill
    <2>1. faults' \in Nat
      BY <1>25 DEF Kill, Fault, TypeOK
    <2> QED
      BY <1>25, <2>1, UnlockedType DEF Kill, DropHandle, TypeOK
  <1>26. ASSUME NEW cut \in Floors, NEW torn \in BOOLEAN, NEW renamed \in BOOLEAN,
                NEW linked \in BOOLEAN, PowerLoss(cut, torn, renamed, linked)
         PROVE  TypeOK'
    <2>1. ASSUME NEW f \in File PROVE AfterPowerLoss(f, cut, torn) \in File
      <3> DEFINE kept == IF f.synced <= cut /\ cut <= Len(f.hist) THEN cut ELSE Len(f.hist)
      <3>1. f.hist \in History /\ kept \in 0..Len(f.hist)
        BY BoundAssumption DEF File, History, Floors
      <3>2. SubSeq(f.hist, 1, kept) \in History
        BY <3>1, SubSeqHistory
      <3> DEFINE ripped == torn /\ (f.torn \/ kept < Len(f.hist))
      <3>3. ripped \in BOOLEAN
        OBVIOUS
      <3>4. kept \in Nat
        BY <3>1, LenHistory
      <3>5. AfterPowerLoss(f, cut, torn) =
              [f EXCEPT !.hist = SubSeq(f.hist, 1, kept), !.synced = kept, !.lock = Free,
                        !.torn = ripped]
        BY DEF AfterPowerLoss
      <3> HIDE DEF kept, ripped
      <3> QED
        BY <3>2, <3>3, <3>4, <3>5, HostAssumption DEF File
    <2>2. files' \in [Floors -> File]
      BY <1>26, <2>1 DEF PowerLoss, TypeOK
    <2> QED
      <3>1. faults' \in Nat
        BY <1>26 DEF PowerLoss, Fault, TypeOK
      <3>2. anchor' \in ProtectedAnchor /\ shadow' \in ProtectedAnchor
        BY <1>26 DEF PowerLoss, TypeOK
      <3> QED
        BY <1>26, <2>2, <3>1, <3>2 DEF PowerLoss, DropHandle, TypeOK
  <1>27. ASSUME NEW policy \in Policies, RepairFails(policy) PROVE TypeOK'
    <2>1. ASSUME NEW target \in History
          PROVE  [LiveFile EXCEPT !.hist = target, !.torn = FALSE,
                    !.synced = IF @ < Len(target) THEN @ ELSE Len(target)] \in File
      BY LiveFileType, LenHistory DEF File
    <2>2. RepairTarget(policy, current, ScanTail(LiveFile, current.base)) \in History
      BY LiveFileType DEF ScanTail, RepairTarget, TypeOK, ProtectedAnchor, File
    <2>3. files' \in [Floors -> File]
      BY <1>27, <2>1, <2>2 DEF RepairFails, TypeOK
    <2>4. faults' \in Nat
      BY <1>27 DEF RepairFails, Fault, TypeOK
    <2> QED
      BY <1>27, <2>3, <2>4 DEF RepairFails, DropHandle, TypeOK
  <1>28. CASE HeaderFails
    BY <1>28 DEF HeaderFails, Fault, TypeOK
  <1>29. CASE UNCHANGED vars
    BY <1>29 DEF vars, TypeOK
  <1> QED
    BY <1>1, <1>2, <1>3, <1>4, <1>5, <1>6, <1>7, <1>8, <1>10, <1>11, <1>12, <1>13, <1>14,
       <1>15, <1>16, <1>17, <1>18, <1>19, <1>20, <1>21, <1>22, <1>23, <1>24, <1>25, <1>26,
       <1>27, <1>28, <1>29
    DEF Next, Open, Publish, AppendRecord, Compact, HostStep, Crash

\* Every state of the set, under every fault, is well typed.
THEOREM TypeCorrect == Spec => []TypeOK
  BY TypeInit, TypeStep, PTL DEF Spec
-----------------------------------------------------------------------------
(* The inductive step *)

\* Releasing locks changes no content (LockedFile::drop).
LEMMA UnlockedKeepsContent ==
    ASSUME TypeOK, NEW floors, NEW n \in Floors
    PROVE  /\ Unlocked(floors)[n].present = files[n].present
           /\ Unlocked(floors)[n].hist = files[n].hist
           /\ Unlocked(floors)[n].synced = files[n].synced
           /\ n \notin floors => Unlocked(floors)[n] = files[n]
  BY DEF Unlocked, TypeOK, File

\* A sound anchor names a log that `open' recovers.
LEMMA SoundIsRecoverable ==
    ASSUME TypeOK, NEW a \in ProtectedAnchor, Sound(a)
    PROVE  IsRecoverable(files[FloorOf(a)], a)
  <1> DEFINE f == files[FloorOf(a)]
             tail == ScanTail(f, a.base)
  <1>1. f \in File /\ f.hist \in History /\ a.base \in History /\ a.log \in History
    BY FloorType DEF TypeOK, File, ProtectedAnchor
  <1>2. IsPrefix(a.base, f.hist)
    BY <1>1, PrefixTransitive DEF Sound
  <1>3. tail = f.hist
    BY <1>1, <1>2, PrefixOfEqualLength DEF ScanTail
  <1>4. IsPrefix(a.log, tail) /\ Len(a.base) <= Len(a.log)
    BY <1>1, <1>3, PrefixLength DEF Sound
  <1>5. a.origin # <<>> => DerivedOrigin(<<>>, tail) = a.origin
    <2>1. a.log = <<>> => DerivedOrigin(<<>>, a.log) = <<>>
      BY DEF DerivedOrigin
    <2> QED
      BY <1>1, <1>3, <1>4, <2>1, PrefixOrigin DEF Sound
  <1>6. DerivedOrigin(a.base, tail) # <<>> => DerivedOrigin(a.base, tail) = DerivedOrigin(<<>>, tail)
    BY DEF DerivedOrigin
  <1>7. Classify(f, a) \in {"Aligned", "Unacknowledged"}
    BY <1>4, <1>5, <1>6 DEF Classify
  <1> QED
    BY <1>2, <1>7 DEF IsRecoverable, Chained, Sound

\* What AnchorStore::acknowledge publishes is well formed if it extends what
\* was acknowledged.
LEMMA AcknowledgingIsSound ==
    ASSUME NEW a \in ProtectedAnchor, NEW tail \in History,
           IsPrefix(a.base, a.log), IsPrefix(a.log, tail),
           a.origin = DerivedOrigin(<<>>, a.log)
    PROVE  LET b == Acknowledging(a, tail)
           IN  /\ b # NoAnchor /\ b.log = tail /\ b.base = a.base
               /\ IsPrefix(b.base, b.log)
               /\ b.origin = DerivedOrigin(<<>>, b.log)
  <1> DEFINE b == Acknowledging(a, tail)
  <1>1. b.log = tail /\ b.base = a.base /\ b.epoch = a.epoch + 1
    BY DEF Acknowledging
  <1>2. b # NoAnchor
    BY <1>1 DEF NoAnchor, ProtectedAnchor
  <1>3. IsPrefix(b.base, b.log)
    BY <1>1, PrefixTransitive DEF ProtectedAnchor
  <1>4. b.origin = DerivedOrigin(<<>>, tail)
    <2>1. CASE a.log = <<>>
      <3>1. a.origin = <<>> /\ a.base = <<>>
        BY <2>1, PrefixLength, EmptySeq, LenHistory DEF DerivedOrigin, ProtectedAnchor, History
      <3> QED
        BY <3>1 DEF Acknowledging
    <2>2. CASE a.log # <<>>
      BY <2>2, PrefixOrigin DEF Acknowledging, ProtectedAnchor
    <2> QED
      BY <2>1, <2>2
  <1> QED
    BY <1>1, <1>2, <1>3, <1>4

\* The invariant holds before the set is created.
LEMMA IInvInit == Init => IInv
  <1> SUFFICES ASSUME Init PROVE IInv
    OBVIOUS
  <1>1. TypeOK
    BY TypeInit
  <1>2. AnchorSound
    BY DEF Init, AnchorSound
  <1>3. PromisedStaysAcknowledged
    BY EmptyHistory, PrefixEmpty DEF Init, PromisedStaysAcknowledged, NoAnchor
  <1>4. HandleInv
    BY DEF Init, HandleInv, ClosedInv, ReadingInv, OpenInv, AppendInv, CutoverInv, PublishInv,
           DirSyncInv
  <1>5. PowerInv
    BY DEF Init, PowerInv
  <1> QED
    BY <1>1, <1>2, <1>3, <1>4, <1>5 DEF IInv

\* What a repair that failed leaves of the log it worked on: the log as it was, or the
\* one it wanted, no more of which is synchronized than was before (truncate_durably).
LEMMA FailedRepair ==
    ASSUME TypeOK, NEW policy \in Policies, RepairFails(policy)
    PROVE  LET n == FloorOf(current)
               target == RepairTarget(policy, current, ScanTail(LiveFile, current.base))
           IN  \/ UNCHANGED files
               \/ /\ files'[n].present = LiveFile.present /\ files'[n].lock = LiveFile.lock
                  /\ files'[n].hist = target
                  /\ files'[n].synced \in {Len(target), LiveFile.synced}
                  /\ \A m \in Floors \ {n} : files'[m] = files[m]
  <1> DEFINE n == FloorOf(current)
             target == RepairTarget(policy, current, ScanTail(LiveFile, current.base))
             f == [LiveFile EXCEPT !.hist = target, !.torn = FALSE,
                     !.synced = IF @ < Len(target) THEN @ ELSE Len(target)]
  <1>1. n \in Floors /\ LiveFile \in File /\ files \in [Floors -> File]
    BY FloorType, LiveFileType DEF TypeOK
  <1>2. UNCHANGED files \/ files' = [files EXCEPT ![n] = f]
    BY DEF RepairFails
  <1>3. /\ f.present = LiveFile.present /\ f.lock = LiveFile.lock /\ f.hist = target
        /\ f.synced \in {Len(target), LiveFile.synced}
    BY <1>1 DEF File
  <1> HIDE DEF n, target, f
  <1>4. files' = [files EXCEPT ![n] = f] =>
          files'[n] = f /\ \A m \in Floors \ {n} : files'[m] = files[m]
    BY <1>1
  <1> QED
    BY <1>2, <1>3, <1>4 DEF n, target

\* A handle that is dropped leaves the content of every file alone.
LEMMA DropKeepsInvariant ==
    ASSUME IInv, DropHandle, UNCHANGED <<anchor, promised>>,
           \/ UNCHANGED files
           \/ \E floors : files' = Unlocked(floors)
    PROVE  AnchorSound' /\ PromisedStaysAcknowledged' /\ HandleInv'
  <1>1. AnchorSound'
    <2> SUFFICES ASSUME anchor # NoAnchor PROVE Sound(anchor)'
      BY DEF AnchorSound
    <2>1. FloorOf(anchor) \in Floors
      BY FloorType DEF IInv, TypeOK
    <2>2. /\ files'[FloorOf(anchor)].present = files[FloorOf(anchor)].present
          /\ files'[FloorOf(anchor)].hist = files[FloorOf(anchor)].hist
      BY <2>1, UnlockedKeepsContent DEF IInv
    <2> QED
      BY <2>2 DEF IInv, AnchorSound, Sound, FloorOf
  <1>2. PromisedStaysAcknowledged'
    BY DEF IInv, PromisedStaysAcknowledged
  <1>3. HandleInv'
    BY DEF DropHandle, HandleInv, ClosedInv, ReadingInv, OpenInv, AppendInv, CutoverInv,
           PublishInv, DirSyncInv
  <1> QED
    BY <1>1, <1>2, <1>3

\* Opening: the anchor read is the anchor on disk, and repair keeps a log that
\* extends it.
LEMMA OpenKeepsInvariant ==
    ASSUME IInv, Open
    PROVE  AnchorSound' /\ PromisedStaysAcknowledged' /\ HandleInv'
  <1> USE DEF IInv
  <1>1. CASE ReadAnchor
    <2>1. AnchorSound' /\ PromisedStaysAcknowledged'
      BY <1>1 DEF ReadAnchor, AnchorSound, Sound, PromisedStaysAcknowledged
    <2>2. HandleInv'
      BY <1>1 DEF ReadAnchor, HandleInv, ClosedInv, ReadingInv, OpenInv, AppendInv, CutoverInv,
                  PublishInv, DirSyncInv
    <2> QED
      BY <2>1, <2>2
  <1>2. ASSUME NEW policy \in Policies, RefuseOpen(policy)
        PROVE  AnchorSound' /\ PromisedStaysAcknowledged' /\ HandleInv'
    BY <1>2, DropKeepsInvariant DEF RefuseOpen
  <1>3. ASSUME NEW policy \in Policies, RepairTail(policy)
        PROVE  AnchorSound' /\ PromisedStaysAcknowledged' /\ HandleInv'
    <2> DEFINE n == FloorOf(current)
               tail == ScanTail(LiveFile, current.base)
               target == RepairTarget(policy, current, tail)
    <2>1. /\ pc = "reading" /\ current = anchor /\ anchor # NoAnchor /\ log = <<>>
          /\ Sound(current)
      BY <1>3 DEF RepairTail, HandleInv, ClosedInv, ReadingInv, AnchorSound
    <2>2. /\ n \in Floors /\ LiveFile \in File /\ LiveFile = files[n]
          /\ current.base \in History /\ current.log \in History /\ LiveFile.hist \in History
      BY FloorType, LiveFileType DEF TypeOK, File, ProtectedAnchor, LiveFile
    <2>3. tail = LiveFile.hist
      <3>1. IsPrefix(current.base, LiveFile.hist)
        BY <2>1, <2>2, PrefixTransitive DEF Sound
      <3> QED
        BY <2>2, <3>1, PrefixOfEqualLength DEF ScanTail
    <2>4. target \in History /\ IsPrefix(current.log, target)
      BY <2>1, <2>2, <2>3, PrefixReflexive DEF RepairTarget, Sound
    <2>5. /\ files'[n].present = LiveFile.present
          /\ files'[n].hist = target
          /\ files'[n].lock = Me
      BY <1>3, <2>2 DEF RepairTail, TypeOK, File
    <2>6. AnchorSound'
      BY <1>3, <2>1, <2>2, <2>4, <2>5 DEF RepairTail, AnchorSound, Sound, FloorOf
    <2>7. CASE target = current.log
      <3>1. PromisedStaysAcknowledged'
        BY <1>3, <2>1, <2>2, <2>7, PrefixReflexive
        DEF RepairTail, Promise, PromisedStaysAcknowledged
      <3>2. HandleInv'
        BY <1>3, <2>1, <2>5, <2>7
        DEF RepairTail, HandleInv, ClosedInv, ReadingInv, OpenInv, AppendInv, CutoverInv,
            PublishInv, DirSyncInv, Holds, FloorOf
      <3> QED
        BY <2>6, <3>1, <3>2
    <2>8. CASE target # current.log
      <3>1. PromisedStaysAcknowledged'
        BY <1>3, <2>8 DEF RepairTail, PromisedStaysAcknowledged
      <3>2. pc' = "publish" /\ op' = op /\ log' = target /\ current' = current
            /\ next' = Acknowledging(current, target)
        BY <1>3, <2>8 DEF RepairTail
      <3>3. op = "open"
        BY <2>1 DEF HandleInv, ReadingInv
      <3>4. HandleInv'
        BY <1>3, <2>1, <2>4, <2>5, <3>2, <3>3
        DEF RepairTail, HandleInv, ClosedInv, ReadingInv, OpenInv, AppendInv, CutoverInv,
            PublishInv, DirSyncInv, Holds, FloorOf, LiveFile, Acknowledging, DerivedOrigin
      <3> QED
        BY <2>6, <3>1, <3>4
    <2> QED
      BY <2>7, <2>8
  <1>4. ASSUME NEW policy \in Policies, RepairFails(policy)
        PROVE  AnchorSound' /\ PromisedStaysAcknowledged' /\ HandleInv'
    <2>1. CASE UNCHANGED files
      BY <1>4, <2>1, DropKeepsInvariant DEF RepairFails
    <2>2. CASE files' # files
      <3> DEFINE n == FloorOf(current)
                 tail == ScanTail(LiveFile, current.base)
                 target == RepairTarget(policy, current, tail)
      <3>1. /\ pc = "reading" /\ current = anchor /\ anchor # NoAnchor /\ Sound(current)
        BY <1>4 DEF RepairFails, HandleInv, ReadingInv, AnchorSound
      <3>2. /\ n \in Floors /\ LiveFile \in File /\ LiveFile = files[n]
            /\ current.base \in History /\ current.log \in History /\ LiveFile.hist \in History
        BY FloorType, LiveFileType DEF TypeOK, File, ProtectedAnchor, LiveFile
      <3>3. tail = LiveFile.hist
        <4>1. IsPrefix(current.base, LiveFile.hist)
          BY <3>1, <3>2, PrefixTransitive DEF Sound
        <4> QED
          BY <3>2, <4>1, PrefixOfEqualLength DEF ScanTail
      <3>4. target \in History /\ IsPrefix(current.log, target)
        BY <3>1, <3>2, <3>3, PrefixReflexive DEF RepairTarget, Sound
      <3>5. files'[n].present = LiveFile.present /\ files'[n].hist = target
        BY <1>4, <2>2, FailedRepair
      <3>6. UNCHANGED <<anchor, promised>> /\ DropHandle
        BY <1>4 DEF RepairFails
      <3>7. AnchorSound'
        BY <3>1, <3>2, <3>4, <3>5, <3>6 DEF AnchorSound, Sound, FloorOf
      <3>8. HandleInv'
        BY <3>6 DEF DropHandle, HandleInv, ClosedInv, ReadingInv, OpenInv, AppendInv, CutoverInv,
                    PublishInv, DirSyncInv
      <3> QED
        BY <3>6, <3>7, <3>8 DEF PromisedStaysAcknowledged
    <2> QED
      BY <2>1, <2>2
  <1> QED
    BY <1>1, <1>2, <1>3, <1>4 DEF Open

\* Publishing: the record that is renamed into place is sound before the
\* rename, for each operation that publishes one.
LEMMA PublishKeepsInvariant ==
    ASSUME IInv, Publish, "dir_sync" \notin Faults
    PROVE  AnchorSound' /\ PromisedStaysAcknowledged' /\ HandleInv'
  <1> USE DEF IInv
  <1>1. CASE RenameAnchor
    <2>1. pc = "publish" /\ op \in {"create", "open", "append", "compact"}
      BY <1>1 DEF RenameAnchor, HandleInv, PublishInv, TypeOK
    <2>2. UNCHANGED <<files, promised, op, current, log, next>> /\ anchor' = next /\ pc' = "dirsync"
      BY <1>1 DEF RenameAnchor
    <2>3. /\ current \in ProtectedAnchor /\ next \in ProtectedAnchor /\ log \in History
          /\ current.log \in History /\ current.base \in History /\ next.base \in History
          /\ anchor.log \in History /\ promised \in History
      BY DEF TypeOK, ProtectedAnchor
    <2>4. /\ next # NoAnchor /\ Sound(next) /\ log = next.log
          /\ files[FloorOf(next)].lock = Me
          /\ IsPrefix(anchor.log, next.log)
          /\ op = "compact" => FloorOf(next) # FloorOf(current)
      <3>1. CASE op = "create"
        <4>1. /\ anchor = NoAnchor /\ next = InitialAnchor /\ log = <<>>
              /\ files[0].present /\ files[0].lock = Me
          BY <2>1, <3>1 DEF HandleInv, PublishInv
        <4>2. FloorOf(next) = 0 /\ next.log = <<>> /\ next.base = <<>> /\ next.origin = <<>>
          BY <4>1, EmptySeq DEF InitialAnchor, FloorOf
        <4>3. files[0].hist \in History
          BY BoundAssumption DEF TypeOK, File, Floors
        <4>4. next # NoAnchor
          BY <4>1 DEF InitialAnchor, NoAnchor
        <4> QED
          BY <3>1, <4>1, <4>2, <4>3, <4>4, PrefixEmpty, EmptyHistory
          DEF Sound, DerivedOrigin, NoAnchor
      <3>2. CASE op \in {"open", "append"}
        <4>1. /\ Holds(current) /\ next = Acknowledging(current, log)
              /\ IsPrefix(current.log, log) /\ LiveFile.hist = log
          BY <2>1, <3>2 DEF HandleInv, PublishInv
        <4>2. Sound(current)
          BY <4>1 DEF AnchorSound, Holds
        <4>3. /\ next # NoAnchor /\ next.log = log /\ next.base = current.base
              /\ IsPrefix(next.base, next.log) /\ next.origin = DerivedOrigin(<<>>, next.log)
          BY <2>3, <4>1, <4>2, AcknowledgingIsSound DEF Sound
        <4> QED
          BY <2>3, <3>2, <4>1, <4>2, <4>3, PrefixReflexive DEF Sound, Holds, FloorOf, LiveFile
      <3>3. CASE op = "compact"
        <4>1. /\ Holds(current) /\ log = current.log
              /\ next = Compacting(current, [base |-> next.base, tail |-> log])
              /\ IsPrefix(next.base, log) /\ FloorOf(next) > FloorOf(current)
              /\ files[FloorOf(next)].present /\ files[FloorOf(next)].lock = Me
              /\ files[FloorOf(next)].hist = log
          BY <2>1, <3>3 DEF HandleInv, CutoverInv
        <4>2. /\ next.log = log /\ next.origin = current.origin
              /\ next.epoch = current.epoch + 1
          BY <4>1 DEF Compacting
        <4>3. next # NoAnchor
          BY <2>3, <4>2 DEF NoAnchor, ProtectedAnchor
        <4>4. FloorOf(next) # FloorOf(current)
          BY <2>3, <4>1, FloorType DEF Floors
        <4> QED
          BY <2>3, <4>1, <4>2, <4>3, <4>4, PrefixReflexive DEF Sound, AnchorSound, Holds
      <3> QED
        BY <2>1, <3>1, <3>2, <3>3
    <2>5. AnchorSound'
      BY <2>2, <2>4 DEF AnchorSound, Sound, FloorOf
    <2>6. PromisedStaysAcknowledged'
      BY <2>2, <2>3, <2>4, PrefixTransitive DEF PromisedStaysAcknowledged
    <2>7. HandleInv'
      BY <2>1, <2>2, <2>4
      DEF HandleInv, ClosedInv, ReadingInv, OpenInv, AppendInv, CutoverInv, PublishInv,
          DirSyncInv, Holds, FloorOf
    <2> QED
      BY <2>5, <2>6, <2>7
  <1>2. ASSUME pc = "dirsync", FinishPublication, UNCHANGED files, Promise(log) \/ UNCHANGED promised
        PROVE  AnchorSound' /\ PromisedStaysAcknowledged' /\ HandleInv'
    <2>1. /\ Holds(next) /\ log = next.log
          /\ anchor' = anchor /\ log' = log /\ current' = next /\ pc' = "open"
      BY <1>2 DEF HandleInv, DirSyncInv, FinishPublication, Return
    <2>2. AnchorSound'
      BY <1>2, <2>1 DEF AnchorSound, Sound, FloorOf
    <2>3. PromisedStaysAcknowledged'
      <3>1. anchor.log = log /\ log \in History
        BY <2>1 DEF Holds, TypeOK
      <3> QED
        BY <1>2, <2>1, <3>1, PrefixReflexive DEF Promise, PromisedStaysAcknowledged
    <2>4. HandleInv'
      BY <1>2, <2>1
      DEF HandleInv, ClosedInv, ReadingInv, OpenInv, AppendInv, CutoverInv, PublishInv,
          DirSyncInv, Holds, FloorOf
    <2> QED
      BY <2>2, <2>3, <2>4
  <1>3. CASE FinishCreateOrOpen
    BY <1>2, <1>3 DEF FinishCreateOrOpen
  <1>4. CASE FinishAppend
    BY <1>2, <1>4 DEF FinishAppend
  <1>5. CASE FinishCompact
    <2>1. /\ Holds(next) /\ log = next.log /\ FloorOf(next) # FloorOf(current)
          /\ anchor' = anchor /\ log' = log /\ current' = next /\ pc' = "open"
          /\ promised' = promised /\ files' = Unlocked({FloorOf(current)})
      BY <1>5 DEF FinishCompact, HandleInv, DirSyncInv, FinishPublication, Return
    <2>2. FloorOf(next) \in Floors
      BY FloorType DEF TypeOK
    <2>3. files'[FloorOf(next)] = files[FloorOf(next)]
      BY <2>1, <2>2, UnlockedKeepsContent
    <2>4. AnchorSound' /\ PromisedStaysAcknowledged'
      BY <2>1, <2>3 DEF AnchorSound, Sound, PromisedStaysAcknowledged, Holds, FloorOf
    <2>5. HandleInv'
      BY <2>1, <2>3
      DEF HandleInv, ClosedInv, ReadingInv, OpenInv, AppendInv, CutoverInv, PublishInv,
          DirSyncInv, Holds, FloorOf
    <2> QED
      BY <2>4, <2>5
  <1>6. PublicationFails => pc = "publish"
    BY DEF PublicationFails, Fault
  <1>7. CASE AbortCreateOrOpen
    BY <1>7, DropKeepsInvariant DEF AbortCreateOrOpen
  <1>8. CASE AbortAppend
    <2>1. pc = "publish" /\ op = "append" /\ fenced /\ Holds(current)
      BY <1>6, <1>8 DEF AbortAppend, HandleInv, PublishInv
    <2>2. AnchorSound' /\ PromisedStaysAcknowledged'
      BY <1>8 DEF AbortAppend, AnchorSound, Sound, PromisedStaysAcknowledged
    <2>3. HandleInv'
      BY <1>8, <2>1
      DEF AbortAppend, Return, HandleInv, ClosedInv, ReadingInv, OpenInv, AppendInv, CutoverInv,
          PublishInv, DirSyncInv, Holds, FloorOf
    <2> QED
      BY <2>2, <2>3
  <1>9. CASE AbortCompact
    <2>1. /\ Holds(current) /\ log = current.log /\ FloorOf(next) # FloorOf(current)
      <3>1. Holds(current) /\ log = current.log /\ FloorOf(next) > FloorOf(current)
        BY <1>6, <1>9 DEF AbortCompact, HandleInv, CutoverInv
      <3> QED
        BY <3>1, FloorType DEF TypeOK, Floors
    <2>2. /\ UNCHANGED <<anchor, promised, current, log, fenced>> /\ pc' = "open"
          /\ files' = Unlocked({FloorOf(next)})
      BY <1>9 DEF AbortCompact, Return
    <2>3. files'[FloorOf(current)] = files[FloorOf(current)]
      BY <2>1, <2>2, FloorType, UnlockedKeepsContent DEF TypeOK
    <2>4. AnchorSound' /\ PromisedStaysAcknowledged'
      BY <2>1, <2>2, <2>3 DEF AnchorSound, Sound, PromisedStaysAcknowledged, Holds, FloorOf
    <2>5. HandleInv'
      BY <2>1, <2>2, <2>3
      DEF HandleInv, ClosedInv, ReadingInv, OpenInv, AppendInv, CutoverInv, PublishInv,
          DirSyncInv, Holds, FloorOf
    <2> QED
      BY <2>4, <2>5
  <1> QED
    BY <1>1, <1>3, <1>4, <1>5, <1>7, <1>8, <1>9 DEF Publish

\* Appending: the frames of the live file are extended, never replaced, and
\* the handle holds that file.
LEMMA AppendKeepsInvariant ==
    ASSUME IInv, AppendRecord
    PROVE  AnchorSound' /\ PromisedStaysAcknowledged' /\ HandleInv'
  <1> USE DEF IInv
  <1> DEFINE n == FloorOf(current)
  <1>0. /\ n \in Floors /\ LiveFile \in File /\ LiveFile = files[n]
        /\ log \in History /\ current.log \in History /\ next.log \in History
        /\ LiveFile.hist \in History
    BY FloorType, LiveFileType DEF TypeOK, LiveFile, ProtectedAnchor, File
  <1>1. ASSUME NEW e \in Event, WriteHeader(e)
        PROVE  AnchorSound' /\ PromisedStaysAcknowledged' /\ HandleInv'
    <2>1. /\ Holds(current) /\ log = current.log /\ ~fenced
          /\ UNCHANGED <<anchor, promised, current, log, fenced>>
          /\ pc' = "header" /\ op' = "append" /\ next' = Acknowledging(current, Append(log, e))
          /\ files' = [files EXCEPT ![n] = [LiveFile EXCEPT !.torn = TRUE]]
      BY <1>1 DEF WriteHeader, Writing, HandleInv, OpenInv, Holds
    <2>2. /\ files'[n].present = files[n].present /\ files'[n].hist = files[n].hist
          /\ files'[n].lock = files[n].lock
      BY <1>0, <2>1 DEF TypeOK, File
    <2>3. AnchorSound' /\ PromisedStaysAcknowledged'
      BY <2>1, <2>2 DEF AnchorSound, Sound, PromisedStaysAcknowledged, Holds, FloorOf
    <2>4. next'.log = Append(log, e)
      BY <2>1 DEF Acknowledging
    <2>5. IsPrefix(log, next'.log)
      <3>1. Append(log, e) \in History
        BY <1>0, <1>1, BoundAssumption DEF WriteHeader, RecordLimitAdmits, History
      <3> QED
        BY <1>0, <2>4, <3>1, PrefixAppend
    <2>6. HandleInv'
      BY <2>1, <2>2, <2>4, <2>5
      DEF HandleInv, ClosedInv, ReadingInv, OpenInv, AppendInv, CutoverInv, PublishInv,
          DirSyncInv, Holds, FloorOf, Acknowledging, DerivedOrigin
    <2> QED
      BY <2>3, <2>6
  <1>2. CASE WritePayload
    <2>1. /\ Holds(current) /\ log = current.log /\ ~fenced /\ op = "append"
          /\ next = Acknowledging(current, next.log) /\ IsPrefix(log, next.log)
          /\ UNCHANGED <<anchor, promised, current, log, fenced, op, next>> /\ pc' = "payload"
          /\ files' = [files EXCEPT ![n] = [LiveFile EXCEPT !.torn = FALSE, !.hist = next.log]]
      BY <1>2 DEF WritePayload, Writing, HandleInv, OpenInv, AppendInv, Holds
    <2>2. /\ files'[n].present = files[n].present /\ files'[n].hist = next.log
          /\ files'[n].lock = files[n].lock
      BY <1>0, <2>1 DEF TypeOK, File
    <2>3. AnchorSound' /\ PromisedStaysAcknowledged'
      BY <2>1, <2>2 DEF AnchorSound, Sound, PromisedStaysAcknowledged, Holds, FloorOf
    <2>4. HandleInv'
      BY <2>1, <2>2
      DEF HandleInv, ClosedInv, ReadingInv, OpenInv, AppendInv, CutoverInv, PublishInv,
          DirSyncInv, Holds, FloorOf, LiveFile, Acknowledging, DerivedOrigin
    <2> QED
      BY <2>3, <2>4
  <1>3. CASE SyncRecord
    <2>1. /\ Holds(current) /\ log = current.log /\ op = "append"
          /\ next = Acknowledging(current, next.log) /\ IsPrefix(log, next.log)
          /\ LiveFile.hist = next.log
          /\ UNCHANGED <<anchor, promised, current, op, next>> /\ pc' = "publish"
          /\ log' = next.log /\ fenced' = TRUE
          /\ files' = [files EXCEPT ![n] = [LiveFile EXCEPT !.synced = Len(next.log)]]
      BY <1>3 DEF SyncRecord, SyncData, Writing, HandleInv, OpenInv, AppendInv, Holds
    <2>2. /\ files'[n].present = files[n].present /\ files'[n].hist = files[n].hist
          /\ files'[n].lock = files[n].lock
      BY <1>0, <2>1 DEF TypeOK, File
    <2>3. AnchorSound' /\ PromisedStaysAcknowledged'
      BY <2>1, <2>2 DEF AnchorSound, Sound, PromisedStaysAcknowledged, Holds, FloorOf
    <2>4. HandleInv'
      BY <1>0, <2>1, <2>2
      DEF HandleInv, ClosedInv, ReadingInv, OpenInv, AppendInv, CutoverInv, PublishInv,
          DirSyncInv, Holds, FloorOf, LiveFile, Acknowledging, DerivedOrigin
    <2> QED
      BY <2>3, <2>4
  <1>4. CASE AppendFails
    <2>1. AnchorSound' /\ PromisedStaysAcknowledged'
      BY <1>4 DEF AppendFails, AnchorSound, Sound, PromisedStaysAcknowledged
    <2>2. HandleInv'
      BY <1>4
      DEF AppendFails, Return, HandleInv, ClosedInv, ReadingInv, OpenInv, AppendInv, CutoverInv,
          PublishInv, DirSyncInv, Holds, FloorOf
    <2> QED
      BY <2>1, <2>2
  <1>5. CASE HeaderFails
    <2>1. AnchorSound' /\ PromisedStaysAcknowledged'
      BY <1>5 DEF HeaderFails, AnchorSound, Sound, PromisedStaysAcknowledged
    <2>2. HandleInv'
      BY <1>5
      DEF HeaderFails, HandleInv, ClosedInv, ReadingInv, OpenInv, AppendInv, CutoverInv,
          PublishInv, DirSyncInv, Holds, FloorOf
    <2> QED
      BY <2>1, <2>2
  <1> QED
    BY <1>1, <1>2, <1>3, <1>4, <1>5 DEF AppendRecord

\* Compacting: the file that is built has a higher floor than the live one,
\* and what is reclaimed is not the file the anchor names.
LEMMA CompactKeepsInvariant ==
    ASSUME IInv, Compact
    PROVE  AnchorSound' /\ PromisedStaysAcknowledged' /\ HandleInv'
  <1> USE DEF IInv
  <1> DEFINE n == FloorOf(current)
  <1>0. /\ n \in Floors /\ FloorOf(next) \in Floors
        /\ log \in History /\ plan.base \in History /\ plan.tail \in History
    BY FloorType DEF TypeOK, CompactionPlan
  <1>1. ASSUME NEW keep \in Keep, PlanCompaction(keep)
        PROVE  AnchorSound' /\ PromisedStaysAcknowledged' /\ HandleInv'
    <2>1. UNCHANGED <<files, anchor, promised, pc, op, current, log, fenced, next>>
      BY <1>1 DEF PlanCompaction
    <2>2. AnchorSound' /\ PromisedStaysAcknowledged'
      BY <2>1 DEF AnchorSound, Sound, PromisedStaysAcknowledged
    <2>3. HandleInv'
      BY <2>1
      DEF HandleInv, ClosedInv, ReadingInv, OpenInv, AppendInv, CutoverInv, PublishInv,
          DirSyncInv, Holds, FloorOf, LiveFile
    <2> QED
      BY <2>2, <2>3
  <1>2. CASE CreateCompacted
    <2> DEFINE m == Len(plan.base)
    <2>1. /\ Holds(current) /\ ~fenced /\ log = current.log /\ plan.tail = log
          /\ m > n /\ IsPrefix(plan.base, log)
          /\ UNCHANGED <<anchor, promised, current, log, fenced>>
          /\ pc' = "building" /\ op' = "compact" /\ next' = Compacting(current, plan)
      BY <1>2 DEF CreateCompacted, CompactAdmits, HandleInv, OpenInv
    <2>2. m \in Floors /\ next'.base = plan.base /\ FloorOf(next') = m
      BY <1>0, <2>1, LenHistory DEF Compacting, FloorOf
    <2>3. files'[m].present /\ files'[m].lock = Me /\ files'[n] = files[n]
      BY <1>0, <1>2, <2>1, <2>2 DEF CreateCompacted, TypeOK, Floors
    <2>4. AnchorSound' /\ PromisedStaysAcknowledged'
      BY <2>1, <2>3 DEF AnchorSound, Sound, PromisedStaysAcknowledged, Holds, FloorOf
    <2>5. next' = Compacting(current, [base |-> next'.base, tail |-> log])
      BY <2>1 DEF Compacting
    <2>6. HandleInv'
      BY <2>1, <2>2, <2>3, <2>5
      DEF HandleInv, ClosedInv, ReadingInv, OpenInv, AppendInv, CutoverInv, PublishInv,
          DirSyncInv, Holds, FloorOf, Compacting
    <2> QED
      BY <2>4, <2>6
  <1>3. CASE SyncCompacted
    <2> DEFINE m == FloorOf(next)
    <2>1. /\ op = "compact" /\ Holds(current) /\ log = current.log /\ m > n
          /\ next = Compacting(current, [base |-> next.base, tail |-> log])
          /\ IsPrefix(next.base, log)
          /\ files[m].present /\ files[m].lock = Me
          /\ UNCHANGED <<anchor, promised, current, log, fenced, op, next>> /\ pc' = "publish"
      BY <1>3 DEF SyncCompacted, HandleInv, CutoverInv
    <2>2. /\ files'[m].present /\ files'[m].lock = Me /\ files'[m].hist = log
          /\ files'[n] = files[n]
      BY <1>0, <1>3, <2>1 DEF SyncCompacted, TypeOK, File, Floors
    <2>3. AnchorSound' /\ PromisedStaysAcknowledged'
      BY <2>1, <2>2 DEF AnchorSound, Sound, PromisedStaysAcknowledged, Holds, FloorOf
    <2>4. HandleInv'
      BY <2>1, <2>2
      DEF HandleInv, ClosedInv, ReadingInv, OpenInv, AppendInv, CutoverInv, PublishInv,
          DirSyncInv, Holds, FloorOf, Compacting
    <2> QED
      BY <2>3, <2>4
  <1>4. CASE BuildFails
    <2>1. /\ Holds(current) /\ log = current.log /\ FloorOf(next) > n
          /\ UNCHANGED <<anchor, promised, current, log, fenced>> /\ pc' = "open"
          /\ files' = Unlocked({FloorOf(next)})
      BY <1>4 DEF BuildFails, Return, HandleInv, CutoverInv
    <2>2. files'[n] = files[n]
      <3>1. n \notin {FloorOf(next)}
        BY <1>0, <2>1 DEF Floors
      <3> QED
        BY <1>0, <2>1, <3>1, UnlockedKeepsContent
    <2>3. AnchorSound' /\ PromisedStaysAcknowledged'
      BY <2>1, <2>2 DEF AnchorSound, Sound, PromisedStaysAcknowledged, Holds, FloorOf
    <2>4. HandleInv'
      BY <2>1, <2>2
      DEF HandleInv, ClosedInv, ReadingInv, OpenInv, AppendInv, CutoverInv, PublishInv,
          DirSyncInv, Holds, FloorOf
    <2> QED
      BY <2>3, <2>4
  <1>5. ASSUME NEW last \in Floors, ReclaimOrphans(last)
        PROVE  AnchorSound' /\ PromisedStaysAcknowledged' /\ HandleInv'
    <2>1. /\ pc = "open" /\ Holds(current) /\ (~fenced => log = current.log)
          /\ UNCHANGED <<anchor, promised, current, log, fenced, pc>>
      BY <1>5 DEF ReclaimOrphans, HandleInv, OpenInv
    <2>2. files'[n] = files[n]
      BY <1>0, <1>5 DEF ReclaimOrphans, Orphans
    <2>3. AnchorSound' /\ PromisedStaysAcknowledged'
      BY <2>1, <2>2 DEF AnchorSound, Sound, PromisedStaysAcknowledged, Holds, FloorOf
    <2>4. HandleInv'
      BY <2>1, <2>2
      DEF HandleInv, ClosedInv, ReadingInv, OpenInv, AppendInv, CutoverInv, PublishInv,
          DirSyncInv, Holds, FloorOf
    <2> QED
      BY <2>3, <2>4
  <1> QED
    BY <1>1, <1>2, <1>3, <1>4, <1>5 DEF Compact

\* A step that leaves the anchor and its file alone, outside a publication.
LEMMA CalmKeepsPower ==
    ASSUME IInv, UNCHANGED <<anchor, shadow>>, pc # "dirsync",
           pc' \notin {"payload", "publish", "dirsync"},
           "log_io" \notin Faults => pc # "payload",
           anchor # NoAnchor => /\ files'[FloorOf(anchor)].hist = files[FloorOf(anchor)].hist
                                /\ files'[FloorOf(anchor)].synced = files[FloorOf(anchor)].synced
    PROVE  PowerInv'
  BY DEF IInv, PowerInv, Lasting, Durable, FloorOf

\* Releasing locks outside a publication that was renamed.
LEMMA UnlockingKeepsPower ==
    ASSUME IInv, UNCHANGED <<anchor, shadow>>, pc # "dirsync",
           pc' \notin {"payload", "publish", "dirsync"},
           "log_io" \notin Faults => pc # "payload",
           \E floors : files' = Unlocked(floors)
    PROVE  PowerInv'
  <1>1. FloorOf(anchor) \in Floors
    BY FloorType DEF IInv, TypeOK
  <1> QED
    BY <1>1, CalmKeepsPower, UnlockedKeepsContent DEF IInv

\* Opening acknowledges only what is durable: without Acknowledge nothing new, and
\* with it every complete frame was synchronized by the append that wrote it.
LEMMA OpenKeepsPower ==
    ASSUME Steady, "power" \in Faults, IInv, Open
    PROVE  PowerInv'
  <1> USE DEF IInv
  <1>1. CASE ReadAnchor
    BY <1>1, CalmKeepsPower DEF ReadAnchor
  <1>2. ASSUME NEW policy \in Policies, RefuseOpen(policy) PROVE PowerInv'
    BY <1>2, CalmKeepsPower DEF RefuseOpen, DropHandle
  <1>3. ASSUME NEW policy \in Policies, RepairTail(policy) PROVE PowerInv'
    <2> DEFINE n == FloorOf(current)
               tail == ScanTail(LiveFile, current.base)
               target == RepairTarget(policy, current, tail)
    <2>1. /\ pc = "reading" /\ current = anchor /\ anchor # NoAnchor
          /\ Sound(current) /\ shadow = anchor
          /\ Lasting(current) /\ ("log_io" \notin Faults => Durable(current))
      BY <1>3 DEF RepairTail, HandleInv, ReadingInv, AnchorSound, PowerInv
    <2>2. /\ n \in Floors /\ LiveFile \in File /\ LiveFile = files[n]
          /\ current.base \in History /\ current.log \in History /\ LiveFile.hist \in History
          /\ LiveFile.synced \in Nat
      BY FloorType, LiveFileType DEF TypeOK, File, ProtectedAnchor, LiveFile
    <2>3. tail = LiveFile.hist
      <3>1. IsPrefix(current.base, LiveFile.hist)
        BY <2>1, <2>2, PrefixTransitive DEF Sound
      <3> QED
        BY <2>2, <3>1, PrefixOfEqualLength DEF ScanTail
    <2>4. target \in {current.log, tail} /\ Len(current.log) <= Len(target)
      BY <2>1, <2>2, <2>3, PrefixLength DEF RepairTarget, Sound
    <2>5. files'[n].hist = target
          /\ files'[n].synced \in {Len(target), LiveFile.synced}
          /\ (target # tail => files'[n].synced = Len(target))
      BY <1>3, <2>2 DEF RepairTail, TypeOK, File
    <2>6. UNCHANGED <<anchor, shadow, current>> /\ pc' \in {"open", "publish"}
      BY <1>3 DEF RepairTail
    <2>7. Len(current.log) <= files'[n].synced
      BY <2>1, <2>2, <2>4, <2>5, LenHistory DEF Lasting
    <2>8. "log_io" \notin Faults => Len(target) <= files'[n].synced
      BY <2>1, <2>2, <2>3, <2>4, <2>5, LenHistory DEF Durable
    <2>9. pc' = "publish" => /\ FloorOf(next') = n
                             /\ "log_io" \notin Faults
      <3> SUFFICES ASSUME pc' = "publish" PROVE FloorOf(next') = n /\ "log_io" \notin Faults
        OBVIOUS
      <3>1. target # current.log /\ next' = Acknowledging(current, target)
        BY <1>3 DEF RepairTail
      <3>2. policy # "Discard" /\ target = tail
        BY <3>1 DEF RepairTarget
      <3>3. policy # "Refuse"
        <4>1. Classify(LiveFile, current) # "Aligned"
          BY <3>1, <3>2 DEF Classify
        <4>2. IsRecoverable(LiveFile, current)
              /\ ~(policy = "Refuse" /\ Classify(LiveFile, current) = "Unacknowledged")
          BY <1>3 DEF RepairTail, OpenRefusal
        <4> QED
          BY <4>1, <4>2 DEF IsRecoverable
      <3>4. "Acknowledge" \in Policies
        BY <3>2, <3>3, PolicyAssumption
      <3> QED
        BY <3>1, <3>4 DEF Steady, Acknowledging, FloorOf
    <2>10. FloorOf(anchor') = n
      BY <2>1, <2>6
    <2> QED
      BY <2>1, <2>5, <2>6, <2>7, <2>8, <2>9, <2>10 DEF PowerInv, Lasting, Durable
  <1>4. ASSUME NEW policy \in Policies, RepairFails(policy) PROVE PowerInv'
    <2>1. CASE UNCHANGED files
      BY <1>4, <2>1, CalmKeepsPower DEF RepairFails, DropHandle
    <2>2. CASE files' # files
      <3> DEFINE n == FloorOf(current)
                 tail == ScanTail(LiveFile, current.base)
                 target == RepairTarget(policy, current, tail)
      <3>1. /\ pc = "reading" /\ current = anchor /\ anchor # NoAnchor
            /\ Sound(current) /\ shadow = anchor /\ Lasting(current)
        BY <1>4 DEF RepairFails, HandleInv, ReadingInv, AnchorSound, PowerInv
      <3>2. /\ n \in Floors /\ LiveFile \in File /\ LiveFile = files[n]
            /\ current.base \in History /\ current.log \in History /\ LiveFile.hist \in History
            /\ LiveFile.synced \in Nat
        BY FloorType, LiveFileType DEF TypeOK, File, ProtectedAnchor, LiveFile
      <3>3. tail = LiveFile.hist
        <4>1. IsPrefix(current.base, LiveFile.hist)
          BY <3>1, <3>2, PrefixTransitive DEF Sound
        <4> QED
          BY <3>2, <4>1, PrefixOfEqualLength DEF ScanTail
      <3>4. target \in {current.log, tail} /\ Len(current.log) <= Len(target)
        BY <3>1, <3>2, <3>3, PrefixLength DEF RepairTarget, Sound
      <3>5. files'[n].synced \in {Len(target), LiveFile.synced}
        BY <1>4, <2>2, FailedRepair
      <3>6. Len(current.log) <= files'[n].synced
        BY <3>1, <3>2, <3>4, <3>5, LenHistory DEF Lasting
      <3>7. UNCHANGED <<anchor, shadow>> /\ pc' = "closed" /\ "log_io" \in Faults
        BY <1>4 DEF RepairFails, DropHandle, Fault
      <3> QED
        BY <3>1, <3>6, <3>7 DEF PowerInv, Lasting
    <2> QED
      BY <2>1, <2>2
  <1> QED
    BY <1>1, <1>2, <1>3, <1>4 DEF Open

\* Publishing: until the directory is synchronized the old anchor stays good.
LEMMA PublishKeepsPower ==
    ASSUME Steady, "power" \in Faults, IInv, Publish, AnchorSound'
    PROVE  PowerInv'
  <1> USE DEF IInv
  <1>0. "dir_sync" \notin Faults
    BY DEF Steady
  <1>1. CASE RenameAnchor
    <2>1. /\ pc = "publish" /\ pc' = "dirsync" /\ anchor' = next
          /\ UNCHANGED <<files, shadow, promised>>
          /\ shadow = anchor /\ Durable(next)
      BY <1>1 DEF RenameAnchor, PowerInv
    <2>2. ShadowSound'
      BY <2>1 DEF ShadowSound, PowerInv, AnchorSound, Sound, Lasting, PromisedStaysAcknowledged
    <2>3. next # NoAnchor => Lasting(next)
      <3> SUFFICES ASSUME next # NoAnchor PROVE Lasting(next)
        OBVIOUS
      <3>1. IsPrefix(next.log, files[FloorOf(next)].hist)
        BY <2>1 DEF AnchorSound, Sound
      <3>2. next.log \in History /\ files[FloorOf(next)].hist \in History
            /\ files[FloorOf(next)].synced \in Nat
        BY FloorType DEF TypeOK, ProtectedAnchor, File
      <3>3. Len(next.log) <= Len(files[FloorOf(next)].hist)
        BY <3>1, <3>2, PrefixLength
      <3> QED
        BY <2>1, <3>2, <3>3, LenHistory DEF Lasting, Durable
    <2> QED
      BY <2>1, <2>2, <2>3 DEF PowerInv, Lasting, Durable
  <1>2. CASE FinishCreateOrOpen \/ FinishAppend \/ FinishCompact
    <2>1. /\ pc = "dirsync" /\ pc' = "open" /\ anchor' = anchor /\ shadow' = anchor
          /\ (UNCHANGED files \/ \E floors : files' = Unlocked(floors))
      BY <1>2 DEF FinishCreateOrOpen, FinishAppend, FinishCompact, FinishPublication, Return
    <2>2. FloorOf(anchor) \in Floors
      BY FloorType DEF TypeOK
    <2>3. /\ files'[FloorOf(anchor)].hist = files[FloorOf(anchor)].hist
          /\ files'[FloorOf(anchor)].synced = files[FloorOf(anchor)].synced
      BY <2>1, <2>2, UnlockedKeepsContent
    <2> QED
      BY <2>1, <2>3 DEF PowerInv, Lasting, Durable
  <1>3. CASE AbortCreateOrOpen \/ AbortCompact
    <2>1. pc = "publish"
      BY <1>0, <1>3 DEF AbortCreateOrOpen, AbortCompact, PublicationFails, Fault
    <2> QED
      BY <1>3, <2>1, UnlockingKeepsPower
      DEF AbortCreateOrOpen, AbortCompact, DropHandle, Return
  <1>4. CASE AbortAppend
    <2>1. pc = "publish"
      BY <1>0, <1>4 DEF AbortAppend, PublicationFails, Fault
    <2> QED
      BY <1>4, <2>1, CalmKeepsPower DEF AbortAppend, Return
  <1> QED
    BY <1>1, <1>2, <1>3, <1>4 DEF Publish

\* Appending: the record is synchronized before it is published.
LEMMA AppendKeepsPower ==
    ASSUME "power" \in Faults, IInv, AppendRecord
    PROVE  PowerInv'
  <1> USE DEF IInv
  <1> DEFINE n == FloorOf(current)
  <1>0. /\ n \in Floors /\ LiveFile = files[n] /\ LiveFile \in File /\ next.log \in History
        /\ current.log \in History
    BY FloorType, LiveFileType DEF TypeOK, LiveFile, ProtectedAnchor
  <1>1. ASSUME NEW e \in Event, WriteHeader(e) PROVE PowerInv'
    <2>1. Holds(current) /\ pc = "open"
      BY <1>1 DEF WriteHeader, HandleInv, OpenInv
    <2>2. files'[n].hist = files[n].hist /\ files'[n].synced = files[n].synced
      BY <1>0, <1>1, <2>1 DEF WriteHeader, Writing, Holds, TypeOK, File
    <2> QED
      BY <1>1, <2>1, <2>2, CalmKeepsPower DEF WriteHeader, Holds
  <1>2. CASE WritePayload
    <2>1. Holds(current) /\ pc = "header" /\ pc' = "payload" /\ UNCHANGED <<anchor, shadow>>
      BY <1>2 DEF WritePayload, HandleInv, OpenInv
    <2>2. files'[n].synced = files[n].synced
      BY <1>0, <1>2, <2>1 DEF WritePayload, Writing, Holds, TypeOK, File
    <2> QED
      BY <2>1, <2>2 DEF PowerInv, Lasting, Holds
  <1>3. CASE SyncRecord
    <2>1. /\ Holds(current) /\ pc = "payload" /\ pc' = "publish"
          /\ UNCHANGED <<anchor, shadow, next>>
          /\ next = Acknowledging(current, next.log) /\ IsPrefix(log, next.log)
          /\ LiveFile.hist = next.log /\ log = current.log
      BY <1>3 DEF SyncRecord, HandleInv, OpenInv, AppendInv
    <2>2. files'[n].synced = Len(next.log) /\ files'[n].hist = next.log
      BY <1>0, <1>3, <2>1 DEF SyncRecord, SyncData, Writing, Holds, TypeOK, File
    <2>3. FloorOf(next) = n /\ FloorOf(anchor) = n
      BY <2>1 DEF Acknowledging, FloorOf, Holds
    <2>4. Len(current.log) <= Len(next.log)
      BY <1>0, <2>1, PrefixLength
    <2> QED
      BY <1>0, <2>1, <2>2, <2>3, <2>4, LenHistory DEF PowerInv, Lasting, Durable, Holds
  <1>4. CASE AppendFails
    BY <1>4, CalmKeepsPower DEF AppendFails, Return, Fault
  <1>5. CASE HeaderFails
    BY <1>5, CalmKeepsPower DEF HeaderFails
  <1> QED
    BY <1>1, <1>2, <1>3, <1>4, <1>5 DEF AppendRecord

\* Compacting: the new file is synchronized before it is published, and the old one is
\* left alone.
LEMMA CompactKeepsPower ==
    ASSUME "power" \in Faults, IInv, Compact
    PROVE  PowerInv'
  <1> USE DEF IInv
  <1> DEFINE n == FloorOf(current)
  <1>0. n \in Floors /\ FloorOf(next) \in Floors /\ plan.base \in History
    BY FloorType DEF TypeOK, CompactionPlan
  <1>1. ASSUME NEW keep \in Keep, PlanCompaction(keep) PROVE PowerInv'
    BY <1>1, CalmKeepsPower DEF PlanCompaction
  <1>2. CASE CreateCompacted
    <2>1. Holds(current) /\ pc = "open" /\ Len(plan.base) > n /\ Len(plan.base) \in Floors
      BY <1>0, <1>2, LenHistory DEF CreateCompacted, CompactAdmits, HandleInv, OpenInv
    <2>2. files'[n] = files[n]
      BY <1>0, <1>2, <2>1 DEF CreateCompacted, TypeOK, Floors
    <2> QED
      BY <1>2, <2>1, <2>2, CalmKeepsPower DEF CreateCompacted, Holds
  <1>3. CASE SyncCompacted
    <2>1. /\ Holds(current) /\ FloorOf(next) > n /\ pc = "building" /\ pc' = "publish"
          /\ UNCHANGED <<anchor, shadow, next>>
      BY <1>3 DEF SyncCompacted, HandleInv, CutoverInv
    <2>2. /\ files'[FloorOf(next)].hist = log /\ files'[FloorOf(next)].synced = Len(log)
          /\ files'[n] = files[n]
      BY <1>0, <1>3, <2>1 DEF SyncCompacted, TypeOK, File, Floors
    <2>3. Len(log) <= Len(log)
      BY LenHistory DEF TypeOK
    <2> QED
      BY <2>1, <2>2, <2>3 DEF PowerInv, Lasting, Durable, Holds
  <1>4. CASE BuildFails
    BY <1>4, UnlockingKeepsPower DEF BuildFails, Return
  <1>5. ASSUME NEW last \in Floors, ReclaimOrphans(last) PROVE PowerInv'
    <2>1. Holds(current) /\ pc = "open"
      BY <1>5 DEF ReclaimOrphans, HandleInv, OpenInv
    <2>2. files'[n] = files[n]
      BY <1>0, <1>5 DEF ReclaimOrphans, Orphans
    <2> QED
      BY <1>5, <2>1, <2>2, CalmKeepsPower DEF ReclaimOrphans, Holds
  <1> QED
    BY <1>1, <1>2, <1>3, <1>4, <1>5 DEF Compact

\* A power loss: what is left of a file holds everything an anchor covers, and all
\* that is left of it is durable.
LEMMA PowerLossKeepsInvariant ==
    ASSUME IInv, NEW cut \in Floors, NEW torn \in BOOLEAN, NEW renamed \in BOOLEAN,
           NEW linked \in BOOLEAN, PowerLoss(cut, torn, renamed, linked)
    PROVE  AnchorSound' /\ PromisedStaysAcknowledged' /\ HandleInv' /\ PowerInv'
  <1> USE DEF IInv
  <1>1. /\ "power" \in Faults /\ anchor' \in {anchor, shadow} /\ shadow' = anchor'
        /\ promised' = promised /\ pc' = "closed" /\ log' = <<>>
    BY DEF PowerLoss, Fault, DropHandle
  <1>2. anchor' # NoAnchor => Sound(anchor') /\ Lasting(anchor')
    <2>1. CASE anchor' = anchor
      BY <1>1, <2>1 DEF AnchorSound, PowerInv
    <2>2. CASE anchor' = shadow
      BY <1>1, <2>2 DEF AnchorSound, PowerInv, ShadowSound
    <2> QED
      BY <1>1, <2>1, <2>2
  <1>3. PromisedStaysAcknowledged'
    BY <1>1 DEF PowerInv, ShadowSound, PromisedStaysAcknowledged
  <1>4. HandleInv'
    BY <1>1 DEF HandleInv, ClosedInv, ReadingInv, OpenInv, AppendInv, CutoverInv, PublishInv,
                DirSyncInv
  <1>5. ASSUME anchor' # NoAnchor
        PROVE  Sound(anchor)' /\ Lasting(anchor)' /\ Durable(anchor)'
    <2> DEFINE n == FloorOf(anchor')
               f == files[n]
               kept == IF f.synced <= cut /\ cut <= Len(f.hist) THEN cut ELSE Len(f.hist)
    <2>1. /\ anchor' \in ProtectedAnchor /\ n \in Floors /\ f \in File /\ f.hist \in History
          /\ f.synced \in Nat /\ anchor'.log \in History /\ cut \in Nat
      BY <1>1, FloorType DEF TypeOK, ProtectedAnchor, File, Floors
    <2>2. /\ f.present /\ IsPrefix(anchor'.log, f.hist) /\ Len(anchor'.log) <= f.synced
          /\ IsPrefix(anchor'.base, anchor'.log)
          /\ anchor'.origin = DerivedOrigin(<<>>, anchor'.log)
      BY <1>2, <1>5 DEF Sound, Lasting
    <2>3. pc = "building" => n # FloorOf(next)
      <3> SUFFICES ASSUME pc = "building" PROVE n # FloorOf(next)
        OBVIOUS
      <3>1. anchor' = current /\ FloorOf(next) > FloorOf(current)
        BY <1>1 DEF HandleInv, CutoverInv, Holds, PowerInv
      <3> QED
        BY <2>1, <3>1 DEF Floors
    <2>4. files'[n] = AfterPowerLoss(f, cut, torn)
      BY <2>1, <2>2, <2>3 DEF PowerLoss
    <2>5. /\ files'[n].present /\ files'[n].hist = SubSeq(f.hist, 1, kept)
          /\ files'[n].synced = kept
      BY <2>1, <2>2, <2>4 DEF AfterPowerLoss, File
    <2>6. kept \in 0..Len(f.hist) /\ Len(anchor'.log) <= kept
      BY <2>1, <2>2, LenHistory, PrefixLength
    <2>7. SubSeq(f.hist, 1, kept) \in History /\ Len(SubSeq(f.hist, 1, kept)) = kept
      BY <2>1, <2>6, SubSeqHistory
    <2>8. IsPrefix(anchor'.log, SubSeq(f.hist, 1, kept))
      BY <2>1, <2>2, <2>6, <2>7, PrefixCut
    <2> QED
      BY <2>2, <2>5, <2>6, <2>7, <2>8 DEF Sound, Lasting, Durable
  <1>6. AnchorSound'
    BY <1>5 DEF AnchorSound
  <1>7. PowerInv'
    BY <1>1, <1>5 DEF PowerInv
  <1> QED
    BY <1>3, <1>4, <1>6, <1>7

\* Every step keeps what is durable ahead of what is acknowledged.
LEMMA PowerStep ==
    ASSUME Steady, IInv, AnchorSound', [Next]_vars
    PROVE  PowerInv'
  <1> SUFFICES ASSUME "power" \in Faults PROVE PowerInv'
    BY DEF PowerInv
  <1>1. CASE CreateLog
    <2>1. /\ pc = "closed" /\ pc' = "publish" /\ anchor' = anchor /\ shadow' = shadow
          /\ anchor = NoAnchor /\ next' = InitialAnchor
      BY <1>1 DEF CreateLog
    <2>2. 0 \in Floors /\ FloorOf(InitialAnchor) = 0
      BY BoundAssumption DEF Floors, FloorOf, InitialAnchor
    <2>3. files'[0].hist = <<>> /\ files'[0].synced = 0
      BY <1>1, <2>2 DEF CreateLog, IInv, TypeOK, Absent
    <2> QED
      BY <2>1, <2>2, <2>3 DEF PowerInv, IInv, Durable
  <1>2. CASE Open
    BY <1>2, OpenKeepsPower
  <1>3. CASE Publish
    BY <1>3, PublishKeepsPower
  <1>4. CASE AppendRecord
    BY <1>4, AppendKeepsPower
  <1>5. CASE Compact
    BY <1>5, CompactKeepsPower
  <1>6. CASE RetainWitness \/ RetainSnapshot
    BY <1>6, CalmKeepsPower DEF RetainWitness, RetainSnapshot
  <1>7. CASE Close
    BY <1>7, UnlockingKeepsPower DEF Close, DropHandle
  <1>8. CASE Kill
    BY <1>8 DEF Kill, Fault, Steady
  <1>9. ASSUME NEW cut \in Floors, NEW torn \in BOOLEAN, NEW renamed \in BOOLEAN,
               NEW linked \in BOOLEAN, PowerLoss(cut, torn, renamed, linked)
        PROVE  PowerInv'
    BY <1>9, PowerLossKeepsInvariant
  <1>10. CASE UNCHANGED vars
    BY <1>10 DEF vars, IInv, PowerInv, ShadowSound, Sound, Lasting, Durable
  <1> QED
    BY <1>1, <1>2, <1>3, <1>4, <1>5, <1>6, <1>7, <1>8, <1>9, <1>10 DEF Next, HostStep, Crash

\* Every step keeps what the handle and the anchor on disk are.
LEMMA HandleStep ==
    ASSUME Steady, IInv, [Next]_vars
    PROVE  AnchorSound' /\ PromisedStaysAcknowledged' /\ HandleInv'
  <1>2. "dir_sync" \notin Faults
    BY DEF Steady
  <1>3. CASE CreateLog
    <2>1. /\ pc = "closed" /\ log = <<>> /\ anchor = NoAnchor
          /\ UNCHANGED <<anchor, promised, log>>
          /\ pc' = "publish" /\ op' = "create" /\ next' = InitialAnchor
      BY <1>3 DEF CreateLog, IInv, HandleInv, ClosedInv
    <2>2. files'[0].present /\ files'[0].lock = Me
      <3>1. 0 \in Floors
        BY BoundAssumption DEF Floors
      <3> QED
        BY <1>3, <3>1 DEF CreateLog, IInv, TypeOK, Absent
    <2>3. AnchorSound' /\ PromisedStaysAcknowledged'
      BY <2>1 DEF IInv, AnchorSound, PromisedStaysAcknowledged
    <2>4. HandleInv'
      BY <2>1, <2>2
      DEF HandleInv, ClosedInv, ReadingInv, OpenInv, AppendInv, CutoverInv, PublishInv,
          DirSyncInv
    <2> QED
      BY <2>3, <2>4
  <1>4. CASE Open
    BY <1>4, OpenKeepsInvariant
  <1>5. CASE Publish
    BY <1>2, <1>5, PublishKeepsInvariant
  <1>6. CASE AppendRecord
    BY <1>6, AppendKeepsInvariant
  <1>7. CASE Compact
    BY <1>7, CompactKeepsInvariant
  <1>8. CASE RetainWitness \/ RetainSnapshot \/ UNCHANGED vars
    <2>1. UNCHANGED <<files, anchor, promised, pc, op, current, log, fenced, next>>
      BY <1>8 DEF RetainWitness, RetainSnapshot, vars
    <2>2. AnchorSound' /\ PromisedStaysAcknowledged'
      BY <2>1 DEF IInv, AnchorSound, Sound, PromisedStaysAcknowledged
    <2>3. HandleInv'
      BY <2>1
      DEF IInv, HandleInv, ClosedInv, ReadingInv, OpenInv, AppendInv, CutoverInv, PublishInv,
          DirSyncInv, Holds, FloorOf, LiveFile
    <2> QED
      BY <2>2, <2>3
  <1>9. CASE Close \/ Kill
    BY <1>9, DropKeepsInvariant DEF Close, Kill
  <1>10. ASSUME NEW cut \in Floors, NEW torn \in BOOLEAN, NEW renamed \in BOOLEAN,
                NEW linked \in BOOLEAN,
                PowerLoss(cut, torn, renamed, linked)
         PROVE  AnchorSound' /\ PromisedStaysAcknowledged' /\ HandleInv'
    BY <1>10, PowerLossKeepsInvariant
  <1> QED
    BY <1>3, <1>4, <1>5, <1>6, <1>7, <1>8, <1>9, <1>10 DEF Next, HostStep, Crash

\* Every step keeps the invariant.
LEMMA IInvStep ==
    ASSUME Steady, IInv, [Next]_vars
    PROVE  IInv'
  BY TypeStep, HandleStep, PowerStep DEF IInv

\* The invariant holds in every reachable state.
LEMMA IInvAlways ==
    ASSUME Steady
    PROVE  Spec => []IInv
  BY IInvInit, IInvStep, PTL DEF Spec

-----------------------------------------------------------------------------
(* Theorems *)

\* Whatever call a process death, a power loss, a failed log write or a failed anchor
\* write interrupts, the anchor on disk names a log that `open' recovers.
THEOREM RecoverableThroughCrashes ==
    ASSUME Steady
    PROVE  Spec => []AlwaysRecoverable
  <1>1. IInv => AlwaysRecoverable
    BY SoundIsRecoverable DEF IInv, TypeOK, AnchorSound, AlwaysRecoverable
  <1> QED
    BY <1>1, IInvAlways, PTL

\* Through the same faults, under every tail policy and across compaction, no
\* history a caller was told is committed leaves the acknowledged prefix.
THEOREM PromisesAreKept ==
    ASSUME Steady
    PROVE  Spec => []PromisedStaysAcknowledged
  <1>1. IInv => PromisedStaysAcknowledged
    BY DEF IInv
  <1> QED
    BY <1>1, IInvAlways, PTL

\* The anchor on disk carries the origin of record 1 exactly when it covers a
\* record, also after record 1 was compacted away.
THEOREM OriginAlwaysBound ==
    ASSUME Steady
    PROVE  Spec => []OriginIsBound
  <1>1. IInv => OriginIsBound
    BY DEF IInv, AnchorSound, Sound, OriginIsBound, NoAnchor, DerivedOrigin
  <1> QED
    BY <1>1, IInvAlways, PTL

\* The one step that changes the anchor on disk is the rename of publish.
LEMMA AnchorStep ==
    ASSUME "power" \notin Faults, IInv, [Next]_vars
    PROVE  anchor' # anchor => /\ anchor'.epoch > anchor.epoch
                               /\ IsPrefix(anchor.log, anchor'.log)
                               /\ IsPrefix(anchor.base, anchor'.base)
  <1> SUFFICES ASSUME anchor' # anchor
               PROVE  /\ anchor'.epoch > anchor.epoch
                      /\ IsPrefix(anchor.log, anchor'.log)
                      /\ IsPrefix(anchor.base, anchor'.base)
    OBVIOUS
  <1> USE DEF IInv
  <1>1. RenameAnchor
    BY DEF Next, Open, ReadAnchor, RefuseOpen, RepairTail, RepairFails, Publish, FinishCreateOrOpen,
           FinishAppend, FinishCompact, FinishPublication, AbortCreateOrOpen, AbortAppend,
           AbortCompact, AppendRecord, WriteHeader, HeaderFails, WritePayload, SyncRecord, AppendFails,
           Compact, PlanCompaction, CreateCompacted, SyncCompacted, BuildFails, ReclaimOrphans,
           HostStep, RetainWitness, RetainSnapshot, Close, Crash, Kill, PowerLoss, Fault,
           CreateLog, vars
  <1>2. pc = "publish" /\ anchor' = next /\ op \in {"create", "open", "append", "compact"}
    BY <1>1 DEF RenameAnchor, HandleInv, PublishInv, TypeOK
  <1>3. /\ anchor \in ProtectedAnchor /\ log \in History /\ next.base \in History
        /\ anchor.base \in History /\ anchor.log \in History /\ anchor.epoch \in Nat
        /\ next.log \in History
    BY DEF TypeOK, ProtectedAnchor
  <1>4. CASE op = "create"
    <2>1. anchor = NoAnchor /\ next = InitialAnchor
      BY <1>2, <1>4 DEF HandleInv, PublishInv
    <2> QED
      BY <1>2, <1>3, <2>1, PrefixEmpty DEF NoAnchor, InitialAnchor
  <1>5. CASE op \in {"open", "append"}
    <2>1. current = anchor /\ next = Acknowledging(current, log) /\ IsPrefix(current.log, log)
      BY <1>2, <1>5 DEF HandleInv, PublishInv, Holds
    <2>2. next.epoch = anchor.epoch + 1 /\ next.log = log /\ next.base = anchor.base
      BY <2>1 DEF Acknowledging
    <2> QED
      BY <1>2, <1>3, <2>1, <2>2, PrefixReflexive
  <1>6. CASE op = "compact"
    <2>1. /\ current = anchor /\ anchor # NoAnchor /\ log = current.log
          /\ next = Compacting(current, [base |-> next.base, tail |-> log])
          /\ IsPrefix(next.base, log) /\ Len(next.base) > Len(anchor.base)
      BY <1>2, <1>6 DEF HandleInv, CutoverInv, Holds, FloorOf
    <2>2. next.epoch = anchor.epoch + 1 /\ next.log = log
      BY <2>1 DEF Compacting
    <2>3. IsPrefix(anchor.base, log)
      BY <2>1 DEF AnchorSound, Sound
    <2>4. IsPrefix(anchor.base, next.base)
      BY <1>3, <2>1, <2>3, PrefixElements, LenHistory
    <2> QED
      BY <1>2, <1>3, <2>1, <2>2, <2>4, PrefixReflexive
  <1> QED
    BY <1>2, <1>4, <1>5, <1>6

\* Every change of the anchor on disk is to a later epoch that covers an
\* extension of the earlier history at the same or a higher floor, unless a power
\* loss undoes the rename of a publication that has not returned.
THEOREM AnchorOnlyAdvances ==
    ASSUME Steady, "power" \notin Faults
    PROVE  Spec => AnchorMovesForward
  <1>1. IInv /\ [Next]_vars =>
          [anchor' # anchor => /\ anchor'.epoch > anchor.epoch
                               /\ IsPrefix(anchor.log, anchor'.log)
                               /\ IsPrefix(anchor.base, anchor'.base)]_vars
    BY AnchorStep
  <1> QED
    BY <1>1, IInvAlways, PTL DEF Spec, AnchorMovesForward

-----------------------------------------------------------------------------
(* One of several hosts on a set that is never compacted (TwoHosts) *)

\* This host has the log open and locked.
HandleOpen == pc \notin {"closed", "reading"}

\* Without compaction the set is one file, and no call of this host is a cutover.
OneFile ==
    /\ anchor.base = <<>> /\ current.base = <<>> /\ next.base = <<>> /\ plan = NoPlan
    /\ pc # "building" /\ op # "compact"
    /\ \A n \in Floors \ {0} : ~files[n].present

\* While this host works on the log it has its lock.
LockHeld == HandleOpen => files[0].lock = Me /\ files[0].present

SharedInv == TypeOK /\ OneFile /\ LockHeld

\* What other hosts rely on: a step of this host leaves alone a log that another one
\* has locked, and removes none.
LeavesOthersAlone ==
    /\ files[0].present => files'[0].present
    /\ files[0].present /\ files[0].lock \notin {Me, Free} => files'[0] = files[0]

\* The only file is number 0.
LEMMA OneFileFacts ==
    ASSUME SharedInv
    PROVE  /\ 0 \in Floors /\ files \in [Floors -> File] /\ files[0] \in File
           /\ FloorOf(current) = 0 /\ FloorOf(anchor) = 0 /\ FloorOf(next) = 0
           /\ LiveFile = files[0] /\ Orphans = {} /\ Len(plan.base) = 0
           /\ Me # Free
<1>1. 0 \in Floors
  BY BoundAssumption DEF Floors
<1>2. Len(<<>>) = 0
  BY EmptySeq
<1>3. FloorOf(current) = 0 /\ FloorOf(anchor) = 0 /\ FloorOf(next) = 0 /\ Len(plan.base) = 0
  BY <1>2 DEF SharedInv, OneFile, FloorOf, NoPlan
<1> QED
  BY <1>1, <1>3, HostAssumption DEF SharedInv, OneFile, TypeOK, LiveFile, Orphans

\* Releasing this host's locks keeps the file and every other host's lock.
LEMMA UnlockedIsMine ==
    ASSUME SharedInv, NEW floors, files' = Unlocked(floors)
    PROVE  LeavesOthersAlone /\ \A n \in Floors : files'[n].present = files[n].present
  BY OneFileFacts DEF Unlocked, LeavesOthersAlone, File

\* A write through this host's handle touches the file only while it has the lock.
LEMMA WritingIsMine ==
    ASSUME SharedInv, NEW f \in File, f.present = files[0].present, f.lock = files[0].lock,
           files' = Writing(0, f)
    PROVE  /\ LeavesOthersAlone
           /\ \A n \in Floors : files'[n].present = files[n].present /\ files'[n].lock = files[n].lock
           /\ files[0].lock = Me => files'[0] = f
  BY OneFileFacts DEF Writing, LeavesOthersAlone

\* A step of one host on a shared set: it works on the log only with its lock, and
\* takes the lock only of a log nobody has locked or that does not exist.
LEMMA SharedStep ==
    ASSUME Keep = {}, "power" \notin Faults, SharedInv, [Next]_vars
    PROVE  SharedInv' /\ LeavesOthersAlone
<1> DEFINE Goal == OneFile' /\ LockHeld' /\ LeavesOthersAlone
<1> USE OneFileFacts
<1>1. CASE CreateLog
  BY <1>1 DEF CreateLog, SharedInv, OneFile, LockHeld, HandleOpen, LeavesOthersAlone, Absent,
              InitialAnchor
<1>2. CASE ReadAnchor
  BY <1>2 DEF ReadAnchor, SharedInv, OneFile, LockHeld, HandleOpen, LeavesOthersAlone
<1>3. ASSUME NEW policy \in Policies, RefuseOpen(policy) PROVE Goal
  BY <1>3 DEF RefuseOpen, DropHandle, NoAnchor, SharedInv, OneFile, LockHeld, HandleOpen,
              LeavesOthersAlone
<1>4. ASSUME NEW policy \in Policies, RepairTail(policy) PROVE Goal
  <2>1. /\ files[0].present /\ files[0].lock = Free
        /\ files'[0].present /\ files'[0].lock = Me
        /\ \A n \in Floors \ {0} : files'[n] = files[n]
    BY <1>4 DEF RepairTail, OpenRefusal, IsRecoverable, File
  <2>2. /\ anchor' = anchor /\ current' = current /\ plan' = plan
        /\ pc' \in {"open", "publish"} /\ op' \in {"none", op} /\ next'.base = <<>>
    BY <1>4 DEF RepairTail, NoAnchor, Acknowledging, SharedInv, OneFile
  <2> QED
    BY <2>1, <2>2 DEF SharedInv, OneFile, LockHeld, HandleOpen, LeavesOthersAlone
<1>5. CASE RenameAnchor
  BY <1>5 DEF RenameAnchor, SharedInv, OneFile, LockHeld, HandleOpen, LeavesOthersAlone
<1>6. CASE FinishCreateOrOpen \/ FinishAppend
  BY <1>6 DEF FinishCreateOrOpen, FinishAppend, FinishPublication, Return, NoAnchor, SharedInv,
              OneFile, LockHeld, HandleOpen, LeavesOthersAlone
<1>7. CASE FinishCompact \/ AbortCompact
  BY <1>7 DEF FinishCompact, AbortCompact, SharedInv, OneFile
<1>8. CASE AbortCreateOrOpen \/ Close
  <2>1. files' = Unlocked(Floors) /\ DropHandle /\ anchor' = anchor /\ plan' = plan
    BY <1>8 DEF AbortCreateOrOpen, Close
  <2> QED
    BY <2>1, UnlockedIsMine DEF DropHandle, NoAnchor, SharedInv, OneFile, LockHeld, HandleOpen
<1>9. CASE AbortAppend
  BY <1>9 DEF AbortAppend, PublicationFails, Return, NoAnchor, SharedInv, OneFile, LockHeld,
              HandleOpen, LeavesOthersAlone
<1>10. ASSUME NEW e \in Event, WriteHeader(e) PROVE Goal
  <2>1. files' = Writing(0, [files[0] EXCEPT !.torn = TRUE])
    BY <1>10 DEF WriteHeader
  <2>2. /\ [files[0] EXCEPT !.torn = TRUE] \in File
        /\ [files[0] EXCEPT !.torn = TRUE].present = files[0].present
        /\ [files[0] EXCEPT !.torn = TRUE].lock = files[0].lock
    BY DEF File
  <2>3. /\ LeavesOthersAlone
        /\ \A n \in Floors : files'[n].present = files[n].present /\ files'[n].lock = files[n].lock
    BY <2>1, <2>2, WritingIsMine
  <2> QED
    BY <1>10, <2>3 DEF WriteHeader, Acknowledging, SharedInv, OneFile, LockHeld, HandleOpen
<1>11. CASE WritePayload
  <2> DEFINE f == [files[0] EXCEPT !.torn = FALSE, !.hist = next.log]
  <2>1. files' = Writing(0, f)
    BY <1>11 DEF WritePayload
  <2>2. f \in File /\ f.present = files[0].present /\ f.lock = files[0].lock
    BY DEF File, SharedInv, TypeOK, ProtectedAnchor
  <2>3. /\ LeavesOthersAlone
        /\ \A n \in Floors : files'[n].present = files[n].present /\ files'[n].lock = files[n].lock
    BY <2>1, <2>2, WritingIsMine
  <2> QED
    BY <1>11, <2>3 DEF WritePayload, SharedInv, OneFile, LockHeld, HandleOpen
<1>12. CASE SyncRecord
  <2> DEFINE f == SyncData(files[0], next.log)
  <2>1. files' = Writing(0, f)
    BY <1>12 DEF SyncRecord
  <2>2. f \in File /\ f.present = files[0].present /\ f.lock = files[0].lock
    BY LenHistory DEF SyncData, File, SharedInv, TypeOK, ProtectedAnchor
  <2>3. /\ LeavesOthersAlone
        /\ \A n \in Floors : files'[n].present = files[n].present /\ files'[n].lock = files[n].lock
    BY <2>1, <2>2, WritingIsMine
  <2> QED
    BY <1>12, <2>3 DEF SyncRecord, SharedInv, OneFile, LockHeld, HandleOpen
<1>13. CASE AppendFails
  BY <1>13 DEF AppendFails, Return, NoAnchor, SharedInv, OneFile, LockHeld, HandleOpen,
               LeavesOthersAlone
<1>14. CASE Compact
  <2>1. ~\E keep \in Keep : PlanCompaction(keep)
    OBVIOUS
  <2>2. ~CreateCompacted
    BY DEF CreateCompacted, CompactAdmits
  <2>3. ~SyncCompacted /\ ~BuildFails
    BY DEF SyncCompacted, BuildFails, SharedInv, OneFile
  <2>4. ~\E last \in Floors : ReclaimOrphans(last)
    BY DEF ReclaimOrphans
  <2> QED
    BY <1>14, <2>1, <2>2, <2>3, <2>4 DEF Compact
<1>15. CASE RetainWitness \/ RetainSnapshot
  BY <1>15 DEF RetainWitness, RetainSnapshot, SharedInv, OneFile, LockHeld, HandleOpen,
               LeavesOthersAlone
<1>16. CASE Kill
  <2>1. files' = Unlocked(Floors) /\ DropHandle /\ anchor' = anchor /\ plan' = NoPlan
    BY <1>16 DEF Kill
  <2> QED
    BY <2>1, UnlockedIsMine DEF DropHandle, NoAnchor, SharedInv, OneFile, LockHeld, HandleOpen
<1>17. ASSUME NEW cut, NEW torn, NEW renamed, NEW linked, PowerLoss(cut, torn, renamed, linked)
       PROVE  Goal
  BY <1>17 DEF PowerLoss, Fault
<1>18. CASE UNCHANGED vars
  BY <1>18 DEF vars, SharedInv, OneFile, LockHeld, HandleOpen, LeavesOthersAlone
<1>19. ASSUME NEW policy \in Policies, RepairFails(policy) PROVE Goal
  <2>1. /\ files[0].present /\ files[0].lock = Free
        /\ files'[0].present
        /\ \A n \in Floors \ {0} : files'[n] = files[n]
    BY <1>19 DEF RepairFails, OpenRefusal, IsRecoverable, File
  <2>2. anchor' = anchor /\ plan' = plan /\ DropHandle
    BY <1>19 DEF RepairFails
  <2> QED
    BY <2>1, <2>2 DEF DropHandle, NoAnchor, SharedInv, OneFile, LockHeld, HandleOpen,
                      LeavesOthersAlone
<1>20. CASE HeaderFails
  BY <1>20 DEF HeaderFails, SharedInv, OneFile, LockHeld, HandleOpen, LeavesOthersAlone
<1>21. Goal
  BY <1>1, <1>2, <1>3, <1>4, <1>5, <1>6, <1>7, <1>8, <1>9, <1>10, <1>11, <1>12, <1>13, <1>14,
     <1>15, <1>16, <1>17, <1>18, <1>19, <1>20
     DEF Next, Open, Publish, AppendRecord, HostStep, Crash
<1>22. TypeOK'
  BY TypeStep DEF SharedInv
<1> QED
  BY <1>21, <1>22 DEF SharedInv

\* What some host was told is committed is in the log file.
PromisedOnDisk ==
    /\ IsPrefix(promised, files[0].hist)
    /\ ~files[0].present => promised = <<>>

\* What this host's handle knows of the file: a handle that is not poisoned remembers
\* all of it, and an append in progress is about to extend it.
HandleKnowsFile ==
    /\ ~HandleOpen => ~poisoned /\ log = <<>>
    /\ HandleOpen /\ ~poisoned => log = files[0].hist
    /\ pc \in {"header", "payload"} => poisoned
    /\ pc = "header" => log = files[0].hist /\ IsPrefix(log, next.log)
    /\ pc = "payload" => files[0].hist = next.log
    /\ pc \in {"publish", "dirsync"} => ~poisoned

ContentInv == PromisedOnDisk /\ HandleKnowsFile

\* A call that promises what the file holds, or an extension of the promises, keeps
\* every promise on disk.
LEMMA PromiseKept ==
    ASSUME SharedInv, ContentInv, SharedInv', files'[0].present, Promise(files'[0].hist),
           IsPrefix(promised, files'[0].hist)
    PROVE  PromisedOnDisk'
  BY OneFileFacts, PrefixReflexive DEF Promise, PromisedOnDisk, SharedInv, TypeOK, File

\* A step of one host on a shared set, with no policy that discards: the log only
\* grows, so what any host was promised stays in it.
LEMMA ContentStep ==
    ASSUME Keep = {}, "power" \notin Faults, "Discard" \notin Policies,
           SharedInv, ContentInv, [Next]_vars
    PROVE  ContentInv'
<1> USE OneFileFacts
<1>a. SharedInv' /\ LeavesOthersAlone
  BY SharedStep
<1>b. files'[0] \in File /\ files'[0].hist \in History /\ files[0].hist \in History
      /\ promised \in History /\ log \in History /\ next.log \in History
  BY <1>a DEF SharedInv, TypeOK, File, ProtectedAnchor
<1> USE DEF ContentInv
<1>1. CASE CreateLog
  BY <1>1, PrefixReflexive, EmptyHistory
     DEF CreateLog, PromisedOnDisk, HandleKnowsFile, HandleOpen, Absent
<1>2. CASE ReadAnchor
  BY <1>2 DEF ReadAnchor, PromisedOnDisk, HandleKnowsFile, HandleOpen
<1>3. ASSUME NEW policy \in Policies, RefuseOpen(policy) PROVE ContentInv'
  BY <1>3 DEF RefuseOpen, DropHandle, PromisedOnDisk, HandleKnowsFile, HandleOpen
<1>4. ASSUME NEW policy \in Policies, RepairTail(policy) PROVE ContentInv'
  <2>1. policy # "Discard"
    OBVIOUS
  <2>2. ScanTail(files[0], current.base) = files[0].hist
    <3>1. Len(files[0].hist) = 0 => files[0].hist = <<>>
      BY <1>b, EmptySeq DEF History
    <3> QED
      BY <3>1, EmptySeq DEF ScanTail, SharedInv, OneFile
  <2>3. files'[0].hist = files[0].hist /\ log' = files[0].hist /\ files'[0].present
    BY <1>4, <2>1, <2>2 DEF RepairTail, RepairTarget, OpenRefusal, IsRecoverable, File
  <2>4. /\ pc' \in {"open", "publish"} /\ poisoned' = poisoned /\ ~poisoned
        /\ Promise(files[0].hist) \/ promised' = promised
    BY <1>4, <2>1, <2>2 DEF RepairTail, RepairTarget, HandleKnowsFile, HandleOpen
  <2>5. PromisedOnDisk'
    BY <1>a, <2>3, <2>4, PromiseKept DEF PromisedOnDisk
  <2> QED
    BY <2>3, <2>4, <2>5 DEF HandleKnowsFile, HandleOpen
<1>5. CASE RenameAnchor
  BY <1>5 DEF RenameAnchor, PromisedOnDisk, HandleKnowsFile, HandleOpen
<1>6. CASE FinishCreateOrOpen \/ FinishAppend
  <2>1. /\ pc = "dirsync" /\ pc' = "open" /\ Promise(log) /\ files' = files
        /\ log' = log /\ poisoned' = poisoned
    BY <1>6 DEF FinishCreateOrOpen, FinishAppend, FinishPublication, Return
  <2>2. log = files[0].hist /\ ~poisoned /\ files[0].present
    BY <2>1 DEF HandleKnowsFile, HandleOpen, SharedInv, LockHeld
  <2>3. PromisedOnDisk'
    BY <1>a, <2>1, <2>2, PromiseKept DEF PromisedOnDisk
  <2> QED
    BY <2>1, <2>2, <2>3 DEF HandleKnowsFile, HandleOpen
<1>7. CASE FinishCompact \/ AbortCompact
  BY <1>7 DEF FinishCompact, AbortCompact, SharedInv, OneFile
<1>8. CASE AbortCreateOrOpen \/ Close \/ Kill
  <2>1. files' = Unlocked(Floors) /\ DropHandle /\ promised' = promised
    BY <1>8 DEF AbortCreateOrOpen, Close, Kill
  <2>2. files'[0].hist = files[0].hist /\ files'[0].present = files[0].present
    BY <2>1, UnlockedKeepsContent DEF SharedInv
  <2> QED
    BY <2>1, <2>2 DEF DropHandle, PromisedOnDisk, HandleKnowsFile, HandleOpen
<1>9. CASE AbortAppend
  BY <1>9 DEF AbortAppend, PublicationFails, Return, PromisedOnDisk, HandleKnowsFile, HandleOpen
<1>10. ASSUME NEW e \in Event, WriteHeader(e) PROVE ContentInv'
  <2> DEFINE f == [files[0] EXCEPT !.torn = TRUE]
  <2>1. files' = Writing(0, f) /\ files[0].lock = Me /\ files[0].present
    BY <1>10 DEF WriteHeader, SharedInv, LockHeld, HandleOpen
  <2>2. files'[0] = f /\ f.hist = files[0].hist /\ f.present
    BY <2>1 DEF Writing, File
  <2>3. /\ pc = "open" /\ ~poisoned /\ pc' = "header" /\ poisoned' = TRUE /\ log' = log
        /\ promised' = promised /\ next'.log = Append(log, e)
    BY <1>10 DEF WriteHeader, Acknowledging
  <2>4. next'.log \in History
    BY <1>a DEF SharedInv, TypeOK, ProtectedAnchor
  <2>5. IsPrefix(log, next'.log)
    BY <1>b, <2>3, <2>4, PrefixAppend
  <2> QED
    BY <2>2, <2>3, <2>5 DEF PromisedOnDisk, HandleKnowsFile, HandleOpen
<1>11. CASE WritePayload
  <2> DEFINE f == [files[0] EXCEPT !.torn = FALSE, !.hist = next.log]
  <2>1. files' = Writing(0, f) /\ files[0].lock = Me /\ files[0].present
    BY <1>11 DEF WritePayload, SharedInv, LockHeld, HandleOpen
  <2>2. files'[0] = f /\ f.hist = next.log /\ f.present
    BY <2>1 DEF Writing, File
  <2>3. /\ pc = "header" /\ pc' = "payload" /\ promised' = promised /\ next' = next
        /\ poisoned' = poisoned /\ log' = log
    BY <1>11 DEF WritePayload
  <2>4. IsPrefix(promised, next.log)
    BY <1>b, <2>3, PrefixTransitive DEF PromisedOnDisk, HandleKnowsFile
  <2> QED
    BY <2>2, <2>3, <2>4 DEF PromisedOnDisk, HandleKnowsFile, HandleOpen
<1>12. CASE SyncRecord
  <2> DEFINE f == SyncData(files[0], next.log)
  <2>1. files' = Writing(0, f) /\ files[0].lock = Me /\ files[0].present
    BY <1>12 DEF SyncRecord, SharedInv, LockHeld, HandleOpen
  <2>2. files'[0] = f /\ f.hist = files[0].hist /\ f.present
    BY <2>1 DEF Writing, File, SyncData
  <2>3. /\ pc = "payload" /\ pc' = "publish" /\ promised' = promised
        /\ log' = next.log /\ ~poisoned'
    BY <1>12 DEF SyncRecord
  <2> QED
    BY <2>2, <2>3 DEF PromisedOnDisk, HandleKnowsFile, HandleOpen
<1>13. CASE AppendFails
  BY <1>13 DEF AppendFails, Return, PromisedOnDisk, HandleKnowsFile, HandleOpen
<1>14. CASE Compact
  <2>1. ~\E keep \in Keep : PlanCompaction(keep)
    OBVIOUS
  <2>2. ~CreateCompacted
    BY DEF CreateCompacted, CompactAdmits
  <2>3. ~SyncCompacted /\ ~BuildFails
    BY DEF SyncCompacted, BuildFails, SharedInv, OneFile
  <2>4. ~\E last \in Floors : ReclaimOrphans(last)
    BY DEF ReclaimOrphans
  <2> QED
    BY <1>14, <2>1, <2>2, <2>3, <2>4 DEF Compact
<1>15. CASE RetainWitness \/ RetainSnapshot
  BY <1>15 DEF RetainWitness, RetainSnapshot, PromisedOnDisk, HandleKnowsFile, HandleOpen
<1>16. ASSUME NEW cut, NEW torn, NEW renamed, NEW linked, PowerLoss(cut, torn, renamed, linked)
       PROVE  ContentInv'
  BY <1>16 DEF PowerLoss, Fault
<1>17. CASE UNCHANGED vars
  BY <1>17 DEF vars, PromisedOnDisk, HandleKnowsFile, HandleOpen
<1>18. ASSUME NEW policy \in Policies, RepairFails(policy) PROVE ContentInv'
  <2>1. ScanTail(files[0], current.base) = files[0].hist
    <3>1. Len(files[0].hist) = 0 => files[0].hist = <<>>
      BY <1>b, EmptySeq DEF History
    <3> QED
      BY <3>1, EmptySeq DEF ScanTail, SharedInv, OneFile
  <2>2. files'[0].hist = files[0].hist /\ files'[0].present = files[0].present
    BY <1>18, <2>1, FailedRepair DEF RepairTarget, SharedInv
  <2>3. DropHandle /\ promised' = promised
    BY <1>18 DEF RepairFails
  <2> QED
    BY <2>2, <2>3 DEF DropHandle, PromisedOnDisk, HandleKnowsFile, HandleOpen
<1>19. CASE HeaderFails
  BY <1>19 DEF HeaderFails, PromisedOnDisk, HandleKnowsFile, HandleOpen
<1> QED
  BY <1>1, <1>2, <1>3, <1>4, <1>5, <1>6, <1>7, <1>8, <1>9, <1>10, <1>11, <1>12, <1>13, <1>14,
     <1>15, <1>16, <1>17, <1>18, <1>19
     DEF Next, Open, Publish, AppendRecord, HostStep, Crash
=============================================================================
