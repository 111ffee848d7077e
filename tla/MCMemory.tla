------------------------------ MODULE MCMemory -----------------------------
(***************************************************************************)
(* The durable memory of crates/ptr-memory: the records of the memory      *)
(* store, the generations of the knowledge store, and the journal both     *)
(* commit through.  Every mutation of a store is one frame of the journal, *)
(* so the stores and the journal meet only in the order of the frames, and *)
(* a behaviour exercises one of the three; `part' says which.              *)
(***************************************************************************)
EXTENDS MemoryRecords, Knowledge, MemoryJournal, TLC

VARIABLE part

OneObservation == {[source |-> "x", kind |-> "observation", revision |-> 1]}

\* One generation that may be registered without admission, and with no predecessor named.
TrustedKeys == {CHOOSE i \in ObjectId : TRUE} \X {MaxGen}

CallFaults == {"write", "sync", "rollback", "rewrite", "reopen"}

\* Each store on a machine that loses power and in a process that is killed, and a memory
\* store that does not sync its appends where no directory change is certain.
Stores ==
    {[wrapper |-> "memory", sync |-> TRUE, cap |-> 3, after |-> 2,
      faults |-> CallFaults \cup {"power"}],
     [wrapper |-> "memory", sync |-> TRUE, cap |-> 3, after |-> 2,
      faults |-> CallFaults \cup {"kill"}],
     [wrapper |-> "knowledge", sync |-> TRUE, cap |-> 3, after |-> 2,
      faults |-> CallFaults \cup {"power", "reread"}],
     [wrapper |-> "knowledge", sync |-> TRUE, cap |-> 3, after |-> 2,
      faults |-> CallFaults \cup {"kill", "reread"}],
     [wrapper |-> "memory", sync |-> FALSE, cap |-> 3, after |-> 2,
      faults |-> {"kill", "write", "rollback", "rewrite", "power", "dir_sync", "entry"}]}

\* The memory store does not distinguish its records.
Symmetry == Permutations(Id)

MCInit ==
    /\ part \in {"records", "journal", "objects"}
    /\ Init /\ JournalInit /\ KnowledgeInit
    /\ part # "journal" => setting = CHOOSE s \in Settings : TRUE

MCNext ==
    /\ \/ part = "records" /\ Next /\ UNCHANGED <<journalVars, knowledgeVars>>
       \/ part = "journal" /\ JournalNext /\ UNCHANGED <<vars, knowledgeVars>>
       \/ part = "objects" /\ KnowledgeNext /\ UNCHANGED <<vars, journalVars>>
    /\ UNCHANGED part

MCSpec == MCInit /\ [][MCNext]_<<vars, part, journalVars, knowledgeVars>>
=============================================================================
