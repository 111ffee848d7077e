----------------------------- MODULE MCEvents ------------------------------
(***************************************************************************)
(* The two buses of crates/ptr-events: the file log and the in-memory bus. *)
(* They share no state, so a behaviour exercises one of them while the     *)
(* other stays as it was created; `part' says which.                       *)
(***************************************************************************)
EXTENDS FileEventLog, EventBus, TLC

VARIABLE part

Retention(r, b, t) == [records |-> r, bytes |-> b, ticks |-> t]

\* A process that is killed, a machine that loses power, a directory that cannot
\* be synced; each with the failures of single calls.
LogSettings ==
    {[sync |-> 2, keep |-> Retention(0, NoLimit, NoLimit),
      faults |-> {"kill", "open", "write", "sync", "rollback", "delete", "offsets"}],
     [sync |-> 1, keep |-> Retention(2, 2, 0),
      faults |-> {"power", "open", "write", "sync", "delete", "offsets"}],
     [sync |-> 1, keep |-> Retention(0, NoLimit, NoLimit),
      faults |-> {"kill", "sync", "dir_sync", "delete"}]}

\* Neither bus distinguishes its consumers.
Symmetry == Permutations(Consumer)

MCInit ==
    /\ part \in {"log", "bus"} /\ Init /\ BusInit
    /\ part # "log" => setting = CHOOSE s \in Settings : TRUE

MCNext ==
    \/ part = "log" /\ Next /\ UNCHANGED <<part, busVars>>
    \/ part = "bus" /\ BusNext /\ UNCHANGED <<part, vars>>

MCSpec == MCInit /\ [][MCNext]_<<vars, part, busVars>>
=============================================================================
