--------------------------- MODULE TwoHostsProofs ---------------------------
(***************************************************************************)
(* Proofs about two host processes on one acknowledged log set, for any    *)
(* events, record limit and number of faults.                              *)
(*                                                                         *)
(* The set is never compacted and does not lose power, and for the second  *)
(* theorem no host discards a tail: otherwise an anchor read before the    *)
(* lock sends a host to a file that is no longer live, or has it cut off   *)
(* what the other one committed (README, known divergences).               *)
(*                                                                         *)
(* AckLedgerProofs shows for one host that a step keeps SharedInv, a host  *)
(* working on the log has its lock, and ContentInv, what was promised is   *)
(* in the file, and that the step leaves a file another host has locked    *)
(* alone. The invariant here is that of both hosts.                        *)
(***************************************************************************)
EXTENDS TwoHosts, SequenceTheorems, TLAPS

\* AckLedger as each host runs it, with what is proved of one host.
PA == INSTANCE AckLedgerProofs WITH
       Host <- {HostA, HostB}, Me <- HostA,
       pc <- pcA, op <- opA, current <- currentA, log <- logA,
       poisoned <- poisonedA, fenced <- fencedA, next <- nextA, plan <- planA

PB == INSTANCE AckLedgerProofs WITH
       Host <- {HostA, HostB}, Me <- HostB,
       pc <- pcB, op <- opB, current <- currentB, log <- logB,
       poisoned <- poisonedB, fenced <- fencedB, next <- nextB, plan <- planB

\* The steps of HostA are the steps the lemmas of AckLedgerProofs are about.
LEMMA StepsA == A!Next => PA!Next
<1>1. A!CreateLog => PA!CreateLog
  BY Zenon DEF A!CreateLog, PA!CreateLog, A!NoAnchor, PA!NoAnchor, A!Absent, PA!Absent,
         A!InitialAnchor, PA!InitialAnchor
<1>2. A!Open => PA!Open
  BY DEF A!Open, PA!Open, A!ReadAnchor, PA!ReadAnchor, A!NoAnchor, PA!NoAnchor,
         A!WitnessAccepts, PA!WitnessAccepts, A!RefuseOpen, PA!RefuseOpen, A!OpenRefusal,
         PA!OpenRefusal, A!LiveFile, PA!LiveFile, A!FloorOf, PA!FloorOf, A!IsRecoverable,
         PA!IsRecoverable, A!Chained, PA!Chained, A!IsPrefix, PA!IsPrefix, A!Classify,
         PA!Classify, A!ScanTail, PA!ScanTail, A!DerivedOrigin, PA!DerivedOrigin,
         A!DropHandle, PA!DropHandle, A!RepairTail, PA!RepairTail, A!RepairFails,
         PA!RepairFails, A!Fault, PA!Fault, A!RepairTarget,
         PA!RepairTarget, A!Promise, PA!Promise, A!Acknowledging, PA!Acknowledging
<1>3. A!Publish => PA!Publish
  BY DEF A!Publish, PA!Publish, A!RenameAnchor, PA!RenameAnchor, A!MonotoneSuccessor,
         PA!MonotoneSuccessor, A!FinishCreateOrOpen, PA!FinishCreateOrOpen,
         A!FinishPublication, PA!FinishPublication, A!Return, PA!Return, A!NoAnchor,
         PA!NoAnchor, A!Promise, PA!Promise, A!IsPrefix, PA!IsPrefix, A!FinishAppend,
         PA!FinishAppend, A!FinishCompact, PA!FinishCompact, A!Unlocked, PA!Unlocked,
         A!Floors, PA!Floors, A!FloorOf, PA!FloorOf, A!AbortCreateOrOpen,
         PA!AbortCreateOrOpen, A!PublicationFails, PA!PublicationFails, A!Fault, PA!Fault,
         A!DropHandle, PA!DropHandle, A!AbortAppend, PA!AbortAppend, A!AbortCompact,
         PA!AbortCompact
<1>4. A!AppendRecord => PA!AppendRecord
  BY Zenon DEF A!AppendRecord, PA!AppendRecord, A!WriteHeader, PA!WriteHeader,
         A!HeaderFails, PA!HeaderFails,
         A!RecordLimitAdmits, PA!RecordLimitAdmits, A!Writing, PA!Writing, A!FloorOf,
         PA!FloorOf, A!LiveFile, PA!LiveFile, A!Acknowledging, PA!Acknowledging,
         A!DerivedOrigin, PA!DerivedOrigin, A!WritePayload, PA!WritePayload, A!SyncRecord,
         PA!SyncRecord, A!SyncData, PA!SyncData, A!AppendFails, PA!AppendFails, A!Fault,
         PA!Fault, A!Return, PA!Return, A!NoAnchor, PA!NoAnchor
<1>5. A!Compact => PA!Compact
  BY DEF A!Compact, PA!Compact, A!PlanCompaction, PA!PlanCompaction, A!FloorOf,
         PA!FloorOf, A!ProposedFloor, PA!ProposedFloor, A!CreateCompacted,
         PA!CreateCompacted, A!CompactAdmits, PA!CompactAdmits, A!IsPrefix, PA!IsPrefix,
         A!Compacting, PA!Compacting, A!SyncCompacted, PA!SyncCompacted, A!BuildFails,
         PA!BuildFails, A!Fault, PA!Fault, A!Unlocked, PA!Unlocked, A!Floors, PA!Floors,
         A!Return, PA!Return, A!NoAnchor, PA!NoAnchor, A!ReclaimOrphans, PA!ReclaimOrphans,
         A!Orphans, PA!Orphans, A!Absent, PA!Absent
<1>6. A!HostStep => PA!HostStep
  BY Zenon DEF A!HostStep, PA!HostStep, A!RetainWitness, PA!RetainWitness, A!RetainSnapshot,
         PA!RetainSnapshot, A!Close, PA!Close, A!Unlocked, PA!Unlocked, A!Floors, PA!Floors,
         A!DropHandle, PA!DropHandle, A!NoAnchor, PA!NoAnchor
<1>7. A!Crash => PA!Crash
  BY Zenon DEF A!Crash, PA!Crash, A!Kill, PA!Kill, A!Fault, PA!Fault, A!Unlocked,
         PA!Unlocked, A!Floors, PA!Floors, A!DropHandle, PA!DropHandle, A!NoAnchor,
         PA!NoAnchor, A!NoPlan, PA!NoPlan, A!PowerLoss, PA!PowerLoss, A!FloorOf, PA!FloorOf,
         A!Absent, PA!Absent, A!AfterPowerLoss, PA!AfterPowerLoss
<1> QED
  BY <1>1, <1>2, <1>3, <1>4, <1>5, <1>6, <1>7 DEF A!Next, PA!Next

\* The steps of HostB are the steps the lemmas of AckLedgerProofs are about.
LEMMA StepsB == B!Next => PB!Next
<1>1. B!CreateLog => PB!CreateLog
  BY Zenon DEF B!CreateLog, PB!CreateLog, B!NoAnchor, PB!NoAnchor, B!Absent, PB!Absent,
         B!InitialAnchor, PB!InitialAnchor
<1>2. B!Open => PB!Open
  BY DEF B!Open, PB!Open, B!ReadAnchor, PB!ReadAnchor, B!NoAnchor, PB!NoAnchor,
         B!WitnessAccepts, PB!WitnessAccepts, B!RefuseOpen, PB!RefuseOpen, B!OpenRefusal,
         PB!OpenRefusal, B!LiveFile, PB!LiveFile, B!FloorOf, PB!FloorOf, B!IsRecoverable,
         PB!IsRecoverable, B!Chained, PB!Chained, B!IsPrefix, PB!IsPrefix, B!Classify,
         PB!Classify, B!ScanTail, PB!ScanTail, B!DerivedOrigin, PB!DerivedOrigin,
         B!DropHandle, PB!DropHandle, B!RepairTail, PB!RepairTail, B!RepairFails,
         PB!RepairFails, B!Fault, PB!Fault, B!RepairTarget,
         PB!RepairTarget, B!Promise, PB!Promise, B!Acknowledging, PB!Acknowledging
<1>3. B!Publish => PB!Publish
  BY DEF B!Publish, PB!Publish, B!RenameAnchor, PB!RenameAnchor, B!MonotoneSuccessor,
         PB!MonotoneSuccessor, B!FinishCreateOrOpen, PB!FinishCreateOrOpen,
         B!FinishPublication, PB!FinishPublication, B!Return, PB!Return, B!NoAnchor,
         PB!NoAnchor, B!Promise, PB!Promise, B!IsPrefix, PB!IsPrefix, B!FinishAppend,
         PB!FinishAppend, B!FinishCompact, PB!FinishCompact, B!Unlocked, PB!Unlocked,
         B!Floors, PB!Floors, B!FloorOf, PB!FloorOf, B!AbortCreateOrOpen,
         PB!AbortCreateOrOpen, B!PublicationFails, PB!PublicationFails, B!Fault, PB!Fault,
         B!DropHandle, PB!DropHandle, B!AbortAppend, PB!AbortAppend, B!AbortCompact,
         PB!AbortCompact
<1>4. B!AppendRecord => PB!AppendRecord
  BY Zenon DEF B!AppendRecord, PB!AppendRecord, B!WriteHeader, PB!WriteHeader,
         B!HeaderFails, PB!HeaderFails,
         B!RecordLimitAdmits, PB!RecordLimitAdmits, B!Writing, PB!Writing, B!FloorOf,
         PB!FloorOf, B!LiveFile, PB!LiveFile, B!Acknowledging, PB!Acknowledging,
         B!DerivedOrigin, PB!DerivedOrigin, B!WritePayload, PB!WritePayload, B!SyncRecord,
         PB!SyncRecord, B!SyncData, PB!SyncData, B!AppendFails, PB!AppendFails, B!Fault,
         PB!Fault, B!Return, PB!Return, B!NoAnchor, PB!NoAnchor
<1>5. B!Compact => PB!Compact
  BY DEF B!Compact, PB!Compact, B!PlanCompaction, PB!PlanCompaction, B!FloorOf,
         PB!FloorOf, B!ProposedFloor, PB!ProposedFloor, B!CreateCompacted,
         PB!CreateCompacted, B!CompactAdmits, PB!CompactAdmits, B!IsPrefix, PB!IsPrefix,
         B!Compacting, PB!Compacting, B!SyncCompacted, PB!SyncCompacted, B!BuildFails,
         PB!BuildFails, B!Fault, PB!Fault, B!Unlocked, PB!Unlocked, B!Floors, PB!Floors,
         B!Return, PB!Return, B!NoAnchor, PB!NoAnchor, B!ReclaimOrphans, PB!ReclaimOrphans,
         B!Orphans, PB!Orphans, B!Absent, PB!Absent
<1>6. B!HostStep => PB!HostStep
  BY Zenon DEF B!HostStep, PB!HostStep, B!RetainWitness, PB!RetainWitness, B!RetainSnapshot,
         PB!RetainSnapshot, B!Close, PB!Close, B!Unlocked, PB!Unlocked, B!Floors, PB!Floors,
         B!DropHandle, PB!DropHandle, B!NoAnchor, PB!NoAnchor
<1>7. B!Crash => PB!Crash
  BY Zenon DEF B!Crash, PB!Crash, B!Kill, PB!Kill, B!Fault, PB!Fault, B!Unlocked,
         PB!Unlocked, B!Floors, PB!Floors, B!DropHandle, PB!DropHandle, B!NoAnchor,
         PB!NoAnchor, B!NoPlan, PB!NoPlan, B!PowerLoss, PB!PowerLoss, B!FloorOf, PB!FloorOf,
         B!Absent, PB!Absent, B!AfterPowerLoss, PB!AfterPowerLoss
<1> QED
  BY <1>1, <1>2, <1>3, <1>4, <1>5, <1>6, <1>7 DEF B!Next, PB!Next
-----------------------------------------------------------------------------
(* Two hosts *)

BothShared == PA!SharedInv /\ PB!SharedInv

\* What HostA does keeps the invariant of HostB.
LEMMA BKeepsShared ==
    ASSUME PA!SharedInv', PA!LeavesOthersAlone, PB!SharedInv, UNCHANGED handleB
    PROVE  PB!SharedInv'
<1>1. PB!TypeOK'
  BY DEF handleB, PA!SharedInv, PB!SharedInv, PA!TypeOK, PB!TypeOK, PA!File, PB!File,
         PA!ProtectedAnchor, PB!ProtectedAnchor, PA!History, PB!History, PA!Floors, PB!Floors,
         PA!CompactionPlan, PB!CompactionPlan
<1>2. PB!OneFile'
  BY DEF handleB, PA!SharedInv, PB!SharedInv, PA!OneFile, PB!OneFile, PA!Floors, PB!Floors,
         PA!NoPlan, PB!NoPlan
<1>3. PB!LockHeld'
  BY DistinctHosts DEF handleB, PB!SharedInv, PB!LockHeld, PB!HandleOpen, PA!LeavesOthersAlone
<1> QED
  BY <1>1, <1>2, <1>3 DEF PB!SharedInv

\* What HostB does keeps the invariant of HostA.
LEMMA AKeepsShared ==
    ASSUME PB!SharedInv', PB!LeavesOthersAlone, PA!SharedInv, UNCHANGED handleA
    PROVE  PA!SharedInv'
<1>1. PA!TypeOK'
  BY DEF handleA, PB!SharedInv, PA!SharedInv, PB!TypeOK, PA!TypeOK, PB!File, PA!File,
         PB!ProtectedAnchor, PA!ProtectedAnchor, PB!History, PA!History, PB!Floors, PA!Floors,
         PB!CompactionPlan, PA!CompactionPlan
<1>2. PA!OneFile'
  BY DEF handleA, PB!SharedInv, PA!SharedInv, PB!OneFile, PA!OneFile, PB!Floors, PA!Floors,
         PB!NoPlan, PA!NoPlan
<1>3. PA!LockHeld'
  BY DistinctHosts DEF handleA, PA!SharedInv, PA!LockHeld, PA!HandleOpen, PB!LeavesOthersAlone
<1> QED
  BY <1>1, <1>2, <1>3 DEF PA!SharedInv

\* Nobody has the log open at first.
LEMMA SharedInit == Init => BothShared
<1> SUFFICES ASSUME Init PROVE BothShared
  OBVIOUS
<1>1. PA!Init /\ PB!Init
  BY DEF Init, A!Init, B!Init, PA!Init, PB!Init, A!Absent, B!Absent, PA!Absent, PB!Absent,
         A!NoAnchor, B!NoAnchor, PA!NoAnchor, PB!NoAnchor, A!NoPlan, B!NoPlan, PA!NoPlan, PB!NoPlan,
         A!Floors, B!Floors, PA!Floors, PB!Floors
<1>2. PA!TypeOK /\ PB!TypeOK
  BY <1>1, PA!TypeInit, PB!TypeInit, SetAssumption, DistinctHosts DEF PA!FaultKinds, PB!FaultKinds
<1> QED
  BY <1>1, <1>2 DEF BothShared, PA!SharedInv, PB!SharedInv, PA!OneFile, PB!OneFile, PA!LockHeld,
     PB!LockHeld, PA!HandleOpen, PB!HandleOpen, PA!Init, PB!Init, PA!NoAnchor, PB!NoAnchor,
     PA!Absent, PB!Absent

\* Every step of either host keeps the invariant of both.
LEMMA BothSharedStep ==
    ASSUME Keep = {}, "power" \notin Faults, BothShared, [Next]_vars
    PROVE  /\ BothShared'
           /\ \/ PA!Next /\ PA!LeavesOthersAlone /\ UNCHANGED handleB
              \/ PB!Next /\ PB!LeavesOthersAlone /\ UNCHANGED handleA
              \/ UNCHANGED vars
<1>1. CASE A!Next /\ UNCHANGED handleB
  <2>1. PA!Next
    BY <1>1, StepsA
  <2>2. PA!SharedInv' /\ PA!LeavesOthersAlone
    BY <2>1, PA!SharedStep, SetAssumption, DistinctHosts DEF PA!FaultKinds, BothShared
  <2> QED
    BY <1>1, <2>1, <2>2, BKeepsShared DEF BothShared
<1>2. CASE B!Next /\ UNCHANGED handleA
  <2>1. PB!Next
    BY <1>2, StepsB
  <2>2. PB!SharedInv' /\ PB!LeavesOthersAlone
    BY <2>1, PB!SharedStep, SetAssumption, DistinctHosts DEF PB!FaultKinds, BothShared
  <2> QED
    BY <1>2, <2>1, <2>2, AKeepsShared DEF BothShared
<1>3. CASE UNCHANGED vars
  <2>1. PA!vars' = PA!vars /\ UNCHANGED handleB
    BY <1>3 DEF vars, handleA, handleB, PA!vars
  <2>2. PA!SharedInv' /\ PA!LeavesOthersAlone
    BY <2>1, PA!SharedStep, SetAssumption, DistinctHosts DEF PA!FaultKinds, BothShared
  <2> QED
    BY <1>3, <2>1, <2>2, BKeepsShared DEF BothShared
<1> QED
  BY <1>1, <1>2, <1>3 DEF Next

\* For any number of events, records and faults: at most one host has the set open,
\* although each reads the anchor before it takes the lock, as long as the set is not
\* compacted and does not lose power.
THEOREM WritersExcludeEachOther ==
    ASSUME Keep = {}, "power" \notin Faults
    PROVE  Spec => []WriterIsExclusive
<1>1. BothShared => WriterIsExclusive
  BY DistinctHosts DEF BothShared, PA!SharedInv, PB!SharedInv, PA!LockHeld, PB!LockHeld,
     PA!HandleOpen, PB!HandleOpen, WriterIsExclusive, Holding
<1>2. BothShared /\ [Next]_vars => BothShared'
  BY BothSharedStep
<1> QED
  BY <1>1, <1>2, SharedInit, PTL DEF Spec

-----------------------------------------------------------------------------
(* What either host was promised *)

BothContent == PA!ContentInv /\ PB!ContentInv

\* HostB still knows the file after a step of HostA: if it has it open, the step left
\* it alone, and else it remembers nothing.
LEMMA BKeepsContent ==
    ASSUME PA!ContentInv', PA!LeavesOthersAlone, PB!SharedInv, PB!ContentInv, UNCHANGED handleB
    PROVE  PB!ContentInv'
<1>1. PB!PromisedOnDisk'
  BY DEF PA!ContentInv, PA!PromisedOnDisk, PB!PromisedOnDisk, PA!IsPrefix, PB!IsPrefix
<1>2. PB!HandleOpen => files'[0] = files[0]
  BY DistinctHosts DEF PB!SharedInv, PB!LockHeld, PA!LeavesOthersAlone
<1>3. PB!HandleKnowsFile'
  BY <1>2 DEF handleB, PB!ContentInv, PB!HandleKnowsFile, PB!HandleOpen
<1> QED
  BY <1>1, <1>3 DEF PB!ContentInv

\* HostA still knows the file after a step of HostB: if it has it open, the step left
\* it alone, and else it remembers nothing.
LEMMA AKeepsContent ==
    ASSUME PB!ContentInv', PB!LeavesOthersAlone, PA!SharedInv, PA!ContentInv, UNCHANGED handleA
    PROVE  PA!ContentInv'
<1>1. PA!PromisedOnDisk'
  BY DEF PB!ContentInv, PB!PromisedOnDisk, PA!PromisedOnDisk, PB!IsPrefix, PA!IsPrefix
<1>2. PA!HandleOpen => files'[0] = files[0]
  BY DistinctHosts DEF PA!SharedInv, PA!LockHeld, PB!LeavesOthersAlone
<1>3. PA!HandleKnowsFile'
  BY <1>2 DEF handleA, PA!ContentInv, PA!HandleKnowsFile, PA!HandleOpen
<1> QED
  BY <1>1, <1>3 DEF PA!ContentInv

\* Nothing is promised at first, and no handle remembers anything.
LEMMA ContentInit == Init => BothContent
<1> SUFFICES ASSUME Init PROVE BothContent
  OBVIOUS
<1>1. /\ files[0].hist = <<>> /\ promised = <<>> /\ pcA = "closed" /\ pcB = "closed"
      /\ ~poisonedA /\ ~poisonedB /\ logA = <<>> /\ logB = <<>>
  <2>1. 0 \in A!Floors
    BY SetAssumption DEF A!Floors
  <2> QED
    BY <2>1 DEF Init, A!Init, B!Init, A!Absent
<1>2. <<>> \in PA!History /\ <<>> \in PB!History
  BY SetAssumption DEF PA!History, PB!History
<1>3. PA!IsPrefix(<<>>, <<>>) /\ PB!IsPrefix(<<>>, <<>>)
  BY <1>2, PA!PrefixReflexive, PB!PrefixReflexive, SetAssumption, DistinctHosts
     DEF PA!FaultKinds, PB!FaultKinds
<1> QED
  BY <1>1, <1>3 DEF BothContent, PA!ContentInv, PB!ContentInv, PA!PromisedOnDisk, PB!PromisedOnDisk,
     PA!HandleKnowsFile, PB!HandleKnowsFile, PA!HandleOpen, PB!HandleOpen

\* Every step of either host keeps what both rely on.
LEMMA BothContentStep ==
    ASSUME Keep = {}, "power" \notin Faults, "Discard" \notin Policies,
           BothShared, BothContent, [Next]_vars
    PROVE  BothContent'
<1>1. CASE PA!Next /\ PA!LeavesOthersAlone /\ UNCHANGED handleB
  <2>1. PA!ContentInv'
    BY <1>1, PA!ContentStep, SetAssumption, DistinctHosts DEF PA!FaultKinds, BothShared, BothContent
  <2> QED
    BY <1>1, <2>1, BKeepsContent DEF BothShared, BothContent
<1>2. CASE PB!Next /\ PB!LeavesOthersAlone /\ UNCHANGED handleA
  <2>1. PB!ContentInv'
    BY <1>2, PB!ContentStep, SetAssumption, DistinctHosts DEF PB!FaultKinds, BothShared, BothContent
  <2> QED
    BY <1>2, <2>1, AKeepsContent DEF BothShared, BothContent
<1>3. CASE UNCHANGED vars
  <2>1. PA!vars' = PA!vars /\ PB!vars' = PB!vars
    BY <1>3 DEF vars, handleA, handleB, PA!vars, PB!vars
  <2>2. PA!ContentInv'
    BY <2>1, PA!ContentStep, SetAssumption, DistinctHosts DEF PA!FaultKinds, BothShared, BothContent
  <2>3. PB!ContentInv'
    BY <2>1, PB!ContentStep, SetAssumption, DistinctHosts DEF PB!FaultKinds, BothShared, BothContent
  <2> QED
    BY <2>2, <2>3 DEF BothContent
<1> QED
  BY <1>1, <1>2, <1>3, BothSharedStep

\* For any number of events, records and faults: what either host was told is committed
\* stays in the log file, although the other one may have opened it with an anchor read
\* before the commit, as long as the set is not compacted, does not lose power and no
\* host opens with the Discard policy.
THEOREM PromisesSurviveTheOtherHost ==
    ASSUME Keep = {}, "power" \notin Faults, "Discard" \notin Policies
    PROVE  Spec => []NothingPromisedIsLost
<1>1. BothShared /\ BothContent => NothingPromisedIsLost
  <2> SUFFICES ASSUME BothShared, BothContent PROVE NothingPromisedIsLost
    OBVIOUS
  <2>1. A!FloorOf(anchor) = 0
    <3>1. Len(<<>>) = 0
      BY EmptySeq
    <3> QED
      BY <3>1 DEF A!FloorOf, BothShared, PA!SharedInv, PA!OneFile
  <2> QED
    BY <2>1 DEF NothingPromisedIsLost, IsPrefix, PA!IsPrefix, BothContent, PA!ContentInv,
       PA!PromisedOnDisk
<1>2. BothShared /\ BothContent /\ [Next]_vars => BothShared' /\ BothContent'
  BY BothSharedStep, BothContentStep
<1> QED
  BY <1>1, <1>2, SharedInit, ContentInit, PTL DEF Spec
=============================================================================
