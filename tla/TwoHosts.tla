------------------------------ MODULE TwoHosts ------------------------------
(***************************************************************************)
(* Two host processes that use one acknowledged log set (AckLedger), each  *)
(* with its own handle, on the same directory. What keeps them apart is    *)
(* the advisory lock on the log file; the anchor file has none, and        *)
(* AcknowledgedLedger::open reads the anchor before it takes the lock.     *)
(***************************************************************************)
EXTENDS Integers, SequencesExt

CONSTANTS Event, MaxRecords, Keep, Policies, Faults, MaxFaults, HostA, HostB, Free

ASSUME DistinctHosts == HostA # HostB /\ Free \notin {HostA, HostB}
ASSUME SetAssumption ==
    /\ MaxRecords \in Nat /\ MaxFaults \in Nat /\ Keep \subseteq Nat
    /\ Policies \subseteq {"Acknowledge", "Discard", "Refuse"}
    /\ Faults \subseteq {"kill", "power", "log_io", "anchor_io", "dir_sync"}

VARIABLES
    files, anchor, shadow, witness, snapshot, promised, faults,   \* shared
    pcA, opA, currentA, logA, poisonedA, fencedA, nextA, planA,   \* handle of HostA
    pcB, opB, currentB, logB, poisonedB, fencedB, nextB, planB    \* handle of HostB

handleA == <<pcA, opA, currentA, logA, poisonedA, fencedA, nextA, planA>>
handleB == <<pcB, opB, currentB, logB, poisonedB, fencedB, nextB, planB>>
vars == <<files, anchor, shadow, witness, snapshot, promised, faults, handleA, handleB>>

A == INSTANCE AckLedger WITH
       Host <- {HostA, HostB}, Me <- HostA,
       pc <- pcA, op <- opA, current <- currentA, log <- logA,
       poisoned <- poisonedA, fenced <- fencedA, next <- nextA, plan <- planA

B == INSTANCE AckLedger WITH
       Host <- {HostA, HostB}, Me <- HostB,
       pc <- pcB, op <- opB, current <- currentB, log <- logB,
       poisoned <- poisonedB, fenced <- fencedB, next <- nextB, plan <- planB

Init == A!Init /\ B!Init

Next ==
    \/ A!Next /\ UNCHANGED handleB
    \/ B!Next /\ UNCHANGED handleA

Spec == Init /\ [][Next]_vars

-----------------------------------------------------------------------------

Holding(pc) == pc \notin {"closed", "reading"}

\* At most one host has the set open: hosts serialize through the log's
\* single-writer lock (anchor.rs, AnchorStore::initialize; file.rs,
\* lock_for_recovery).
WriterIsExclusive == ~(Holding(pcA) /\ Holding(pcB))

\* A history either host was told is committed stays in the live log, even if
\* the other host opened with an anchor read before the commit.
NothingPromisedIsLost ==
    anchor.epoch > 0 => IsPrefix(promised, files[A!FloorOf(anchor)].hist)

=============================================================================
