--------------------------- MODULE MemoryJournal ---------------------------
(***************************************************************************)
(* The journal under both durable memory stores (crates/ptr-memory/src/    *)
(* journal.rs) and the two ways its owners commit through it: the memory   *)
(* store appends first and applies afterwards (memory_store.rs), the       *)
(* knowledge store applies first and rebuilds itself from the file when    *)
(* the append fails (durable_knowledge.rs).                                *)
(*                                                                         *)
(* Abstractions.                                                           *)
(*  - A mutation is a name from Op that applies at most once; the state of *)
(*    a store is the sequence of the mutations it holds.                   *)
(*  - All frames have one size: file lengths and the file cap count them.  *)
(*    A rewritten journal is its image, one frame per mutation it holds    *)
(*    (and one more for the memory store's clock or the frames by which    *)
(*    the knowledge store restores current generations, lifecycles and     *)
(*    revisions), and the frames appended since. An image with a frame     *)
(*    beyond max_record_bytes fails as one beyond the file cap does. The   *)
(*    temporary file an image is written to is read by nobody and left     *)
(*    out.                                                                 *)
(*  - After a power loss a file holds what was synced and a prefix of what *)
(*    was not, possibly with a damaged frame after it, or zeroes; a rename *)
(*    that was not synced may be undone, and so may the creation of the    *)
(*    file. The last two are the faults "zero" and "entry".                *)
(*  - A setting is what a behaviour is configured with and exposed to: the *)
(*    store that owns the journal, JournalOptions.sync_on_append, the file *)
(*    cap, compact_after_records, and the faults that may happen.          *)
(***************************************************************************)
EXTENDS Integers, Sequences, Functions

CONSTANTS
    Op,         \* mutations
    NoOp,       \* no mutation is under way
    Oversized,  \* mutations whose frame exceeds max_record_bytes
    Settings,   \* the settings behaviours are explored under
    MaxFaults   \* bound on the number of faults

FaultKinds == {"kill", "power", "write", "sync", "rollback", "rewrite", "dir_sync", "reopen",
               "reread", "entry", "zero"}
Setting == [wrapper : {"memory", "knowledge"}, sync : BOOLEAN, cap : Nat, after : Nat \ {0},
            faults : SUBSET FaultKinds]

ASSUME JournalAssumption ==
    NoOp \notin Op /\ Oversized \subseteq Op /\ MaxFaults \in Nat /\ Settings \subseteq Setting

VARIABLES
    setting,   \* the store's options, and the faults of this behaviour
    file,      \* the journal the directory names
    older,     \* files a power loss may make the directory name again
    pc,        \* where the store's current call is
    cur,       \* the mutation of that call, or NoOp
    mem,       \* the mutations the store shows its readers
    since,     \* MemoryJournal.appended_since_open_or_rewrite
    poisoned,  \* MemoryJournal.poisoned
    shut,      \* DurableKnowledgeStore.poisoned
    told,      \* history: mutations that returned Ok, in order; an open forgets what it lost
    undone,    \* history: mutations whose frame was rolled back and not tried again
    faults     \* number of faults so far

disk == <<file, older>>
handle == <<mem, since, poisoned, shut>>
ghosts == <<told, undone>>
journalVars == <<setting, file, older, pc, cur, mem, since, poisoned, shut, told, undone, faults>>

Wrapper == setting.wrapper
FileCap == setting.cap
Fault(kind) == kind \in setting.faults /\ faults < MaxFaults /\ faults' = faults + 1

\* ops are the mutations of the complete frames and clock counts the image's extra frame;
\* the first synced mutations are durable; lurking is a frame cut off by a truncation that was not
\* synced; end is what follows the last complete frame.
Journal == [ops : Seq(Op), clock : {0, 1}, synced : Nat, lurking : Op \cup {NoOp},
            end : {"clean", "torn", "zero", "corrupt"}]
File(ops, clock, synced, lurking, end) ==
    [ops |-> ops, clock |-> clock, synced |-> synced, lurking |-> lurking, end |-> end]
EmptyJournal == File(<<>>, 0, 0, NoOp, "clean")

Length(f) == f.clock + Len(f.ops)
Flushed(f) == File(f.ops, f.clock, Len(f.ops), NoOp, f.end)

\* What a power loss may leave of a file.
Upto(f, n, end) == File(SubSeq(f.ops, 1, n), f.clock, n, NoOp, end)

Survivors(f) ==
    {Upto(f, n, end) : n \in f.synced..Len(f.ops), end \in {"clean", f.end}}
    \cup {Upto(f, n, end) : n \in f.synced..Len(f.ops) - 1,
                           end \in {"torn"} \cup ({"zero"} \cap setting.faults)}
    \cup {File(Append(f.ops, o), f.clock, Len(f.ops) + 1, NoOp, f.end) : o \in {f.lurking} \ {NoOp}}

JournalTypeOK ==
    /\ setting \in Settings
    /\ file \in Journal /\ older \subseteq Journal
    /\ file.synced <= Len(file.ops) /\ Length(file) <= FileCap
    /\ poisoned \in BOOLEAN /\ shut \in BOOLEAN
    /\ pc \in {"closed", "denied", "idle", "written", "failed", "compacting", "staged", "renamed"}
    /\ cur \in Op \cup {NoOp} /\ mem \in Seq(Op) /\ since \in Nat
    /\ told \in Seq(Op) /\ undone \subseteq Op /\ faults \in 0..MaxFaults

\* Creating the journal does not sync the directory that names it.
Unnamed == IF "entry" \in setting.faults THEN {EmptyJournal} ELSE {}

JournalInit ==
    /\ setting \in Settings
    /\ file = EmptyJournal /\ older = Unnamed
    /\ pc = "closed" /\ cur = NoOp
    /\ mem = <<>> /\ since = 0 /\ poisoned = FALSE /\ shut = FALSE
    /\ told = <<>> /\ undone = {} /\ faults = 0

-----------------------------------------------------------------------------
(* MemoryJournal::open and the stores' open *)

\* The torn tail is cut off and the cut synced; a clean file is not synced.
Repaired(f) == IF f.end = "torn" THEN File(f.ops, f.clock, Len(f.ops), NoOp, "clean") ELSE f

\* Damage in the middle is Corrupt; a run of zeroes is a run of empty frames whose checksum is
\* right, which the store cannot decode.
OpenRefusal(f) == Length(f) > FileCap \/ f.end \in {"corrupt", "zero"}

\* The first n mutations that were told of are the ones the file still holds.
Kept(n) ==
    /\ \A i \in 1..n : told[i] \in Range(file.ops)
    /\ n < Len(told) => told[n + 1] \notin Range(file.ops)

Open ==
    /\ pc = "closed"
    /\ IF OpenRefusal(file)
       THEN /\ pc' = "denied"
            /\ UNCHANGED <<file, handle, told>>
       ELSE /\ file' = Repaired(file)
            /\ mem' = file.ops /\ since' = 0 /\ poisoned' = FALSE /\ shut' = FALSE
            /\ \E n \in 0..Len(told) : Kept(n) /\ told' = SubSeq(told, 1, n)
            /\ pc' = "idle"
    /\ UNCHANGED <<older, cur, undone, faults>>

-----------------------------------------------------------------------------
(* Answering the caller *)

Answer == pc' = "idle" /\ cur' = NoOp

Acknowledge ==
    /\ Answer
    /\ IF cur = NoOp
       THEN UNCHANGED ghosts
       ELSE /\ told' = Append(told, cur)
            /\ UNCHANGED undone

\* DurableKnowledgeStore::rebuild_from_journal reads whatever frames the file holds; when it
\* cannot, the store is emptied and stays poisoned.
Rebuild(f, journalPoisoned) ==
    \/ /\ Wrapper = "memory"
       /\ UNCHANGED <<mem, shut, faults>>
    \/ /\ Wrapper = "knowledge"
       /\ mem' = f.ops /\ shut' = (shut \/ journalPoisoned)
       /\ UNCHANGED faults
    \/ /\ Wrapper = "knowledge"
       /\ Fault("reread")
       /\ mem' = <<>> /\ shut' = TRUE

Refuse(o, gone) ==
    /\ undone' = IF gone THEN undone \cup {o} ELSE undone
    /\ UNCHANGED told

-----------------------------------------------------------------------------
(* MemoryJournal::append *)

\* A mutation the store accepts: inserting what it already holds is refused before the journal.
Fresh(o) == pc = "idle" /\ o \notin Range(mem) /\ ~shut

\* The knowledge store has applied the mutation before it reaches the journal.
Staged(o) == IF Wrapper = "knowledge" THEN Append(mem, o) ELSE mem

AppendAllowed(o) == ~poisoned /\ o \notin Oversized /\ Length(file) + 1 <= FileCap

\* A poisoned journal, or a frame that is too large or would not fit: nothing is written.
AppendRefused(o) ==
    /\ Fresh(o) /\ ~AppendAllowed(o)
    /\ Rebuild(file, poisoned)
    /\ UNCHANGED <<told, undone, disk, pc, cur, since, poisoned>>

WriteFrame(o) ==
    /\ Fresh(o) /\ AppendAllowed(o)
    /\ file' = File(Append(file.ops, o), file.clock, file.synced, NoOp,
                    IF file.end = "clean" THEN "clean" ELSE "corrupt")
    /\ mem' = Staged(o) /\ cur' = o /\ pc' = "written"
    /\ undone' = undone \ {o}
    /\ UNCHANGED <<older, since, poisoned, shut, told, faults>>

\* write_all fails with nothing or a part of the frame written.
WriteFails(o) ==
    /\ Fresh(o) /\ AppendAllowed(o) /\ Fault("write")
    /\ file' \in {file, [file EXCEPT !.end = IF @ = "clean" THEN "torn" ELSE "corrupt"]}
    /\ mem' = Staged(o) /\ cur' = o /\ pc' = "failed"
    /\ undone' = undone \ {o}
    /\ UNCHANGED <<older, since, poisoned, shut, told>>

\* The mutation is answered before its frame is synced.
NotSynced(f) == f

Synced(f) == IF setting.sync THEN Flushed(f) ELSE f

\* The append succeeds; the memory store applies the mutation now, and either compacts or answers.
SyncFrame ==
    /\ pc = "written"
    /\ file' = Synced(file)
    /\ mem' = IF Wrapper = "memory" THEN Append(mem, cur) ELSE mem
    /\ since' = since + 1
    /\ IF since + 1 >= setting.after
       THEN pc' = "compacting" /\ UNCHANGED <<cur, ghosts>>
       ELSE Acknowledge
    /\ UNCHANGED <<older, poisoned, shut, faults>>

SyncFails ==
    /\ pc = "written" /\ setting.sync /\ Fault("sync")
    /\ pc' = "failed"
    /\ UNCHANGED <<disk, cur, handle, ghosts>>

\* The file without the frame of the failed append.
FrameWritten(f) == f.ops # <<>> /\ f.ops[Len(f.ops)] = cur

Cut(f, lurking) ==
    LET n == IF FrameWritten(f) THEN Len(f.ops) - 1 ELSE Len(f.ops)
    IN  File(SubSeq(f.ops, 1, n), f.clock, f.synced, lurking, "clean")

\* The rollback does nothing and the journal is used further.
RollBackSkipped ==
    /\ pc = "failed"
    /\ Rebuild(file, FALSE)
    /\ Refuse(cur, TRUE) /\ Answer
    /\ UNCHANGED <<disk, since, poisoned>>

RollBack ==
    /\ pc = "failed"
    /\ file' = Flushed(Cut(file, NoOp))
    /\ Rebuild(file', FALSE)
    /\ Refuse(cur, TRUE) /\ Answer
    /\ UNCHANGED <<older, since, poisoned>>

\* The truncation fails, or succeeds without being synced: the journal is poisoned.
RollBackFails ==
    /\ pc = "failed" /\ "rollback" \in setting.faults
    /\ file' \in {file, Cut(file, IF FrameWritten(file) THEN cur ELSE NoOp)}
    /\ poisoned' = TRUE
    /\ Rebuild(file', TRUE)
    /\ Refuse(cur, FALSE) /\ Answer
    /\ UNCHANGED <<older, since>>

-----------------------------------------------------------------------------
(* compact and MemoryJournal::rewrite *)

Compact ==
    /\ pc = "idle" /\ ~poisoned /\ ~shut
    /\ pc' = "compacting"
    /\ UNCHANGED <<disk, cur, handle, ghosts, faults>>

\* A frame per mutation, and one for the memory store's clock or for what the knowledge store
\* restores of a store that is not empty (current generations, lifecycles, revisions).
Image == File(mem, IF Wrapper = "memory" \/ mem # <<>> THEN 1 ELSE 0, Len(mem), NoOp, "clean")

\* The image is written to the temporary file and synced.
WriteImage ==
    /\ pc = "compacting" /\ ~shut /\ Length(Image) <= FileCap
    /\ pc' = "staged"
    /\ UNCHANGED <<disk, cur, handle, ghosts, faults>>

\* The image does not fit, or cannot be written, synced or renamed: the old journal is untouched
\* and the mutation that triggered the compaction still succeeds.
RewriteFails ==
    /\ \/ pc = "compacting" /\ Length(Image) > FileCap /\ UNCHANGED faults
       \/ pc \in {"compacting", "staged"} /\ Fault("rewrite")
    /\ Acknowledge
    /\ UNCHANGED <<disk, handle>>

Rename ==
    /\ pc = "staged"
    /\ file' = Image
    /\ older' = older \cup Survivors(file)
    /\ pc' = "renamed"
    /\ UNCHANGED <<cur, handle, ghosts, faults>>

\* sync_parent ignores its errors, and nothing else ever syncs the directory.
SyncParent == older' = {} \/ ("dir_sync" \in setting.faults /\ UNCHANGED older)

Reopen ==
    /\ pc = "renamed"
    /\ SyncParent
    /\ since' = 0
    /\ Acknowledge
    /\ UNCHANGED <<file, mem, poisoned, shut, faults>>

ReopenFails ==
    /\ pc = "renamed"
    /\ SyncParent /\ Fault("reopen")
    /\ poisoned' = TRUE
    /\ Acknowledge
    /\ UNCHANGED <<file, mem, since, shut>>

-----------------------------------------------------------------------------
(* The process dies, or the machine loses power *)

Down == /\ pc' = "closed" /\ cur' = NoOp /\ mem' = <<>> /\ since' = 0
        /\ poisoned' = FALSE /\ shut' = FALSE
        /\ UNCHANGED <<told, undone>>

Kill ==
    /\ pc \notin {"closed", "denied"}
    /\ IF pc = "idle" THEN UNCHANGED faults ELSE Fault("kill")
    /\ Down
    /\ UNCHANGED disk

PowerLoss ==
    /\ pc # "denied"
    /\ Fault("power")
    /\ \/ file' \in Survivors(file) /\ older' = {}
       \/ file' \in older /\ older' = Unnamed \cap {file'}
    /\ Down

JournalStep ==
    \/ Open
    \/ \E o \in Op : AppendRefused(o) \/ WriteFrame(o) \/ WriteFails(o)
    \/ SyncFrame \/ SyncFails \/ RollBack \/ RollBackFails
    \/ Compact \/ WriteImage \/ RewriteFails \/ Rename \/ Reopen \/ ReopenFails
    \/ Kill \/ PowerLoss

JournalNext == JournalStep /\ UNCHANGED setting

JournalSpec == JournalInit /\ [][JournalNext]_journalVars

-----------------------------------------------------------------------------
(* Properties *)

Rest == pc \in {"idle", "closed"}

\* Every mutation a store acknowledged is in its journal, once and in the order of the
\* acknowledgements, whatever failed, was compacted, or was cut off since. Without a sync per
\* append a power loss may take acknowledged mutations, but only from the end: none survives one
\* that was acknowledged before it.
JournalKeepsAcked ==
    Rest =>
        /\ \A i, j \in DOMAIN told, p, q \in DOMAIN file.ops :
              file.ops[p] = told[i] /\ file.ops[q] = told[j] => (i <= j <=> p <= q)
        /\ \A i, j \in DOMAIN told :
              /\ setting.sync => told[i] \in Range(file.ops)
              /\ i < j /\ told[j] \in Range(file.ops) => told[i] \in Range(file.ops)

\* A mutation whose call failed and whose frame was rolled back never becomes visible, not by a
\* later open, a power loss, a compaction or a rebuild, until it is tried again.
RolledBackNeverReturns ==
    Rest => Range(file.ops) \cap undone = {} /\ Range(mem) \cap undone = {}
=============================================================================
