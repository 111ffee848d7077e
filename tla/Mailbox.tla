------------------------------ MODULE Mailbox ------------------------------
(***************************************************************************)
(* The bounded mailbox of crates/ptr-exec/src/mailbox.rs: a queue behind a *)
(* mutex, three atomics that mirror it (depth, peak, closed), one owner    *)
(* that receives and any number of sending threads.                        *)
(*                                                                         *)
(* The queue and state.closed are read and written only under the lock, so *)
(* taking the lock and changing them is one step; every store to an atomic *)
(* is a step of its own, because depth(), peak_depth() and is_closed()     *)
(* read them without the lock.  Payloads are <<sender, number>> pairs.     *)
(***************************************************************************)
EXTENDS Integers, Sequences

CONSTANTS
    Capacity,  \* Shared.capacity
    Thread,    \* the threads that hold the mailbox or one of its senders
    Owner,     \* the thread that holds the Mailbox
    Free,      \* the lock nobody holds
    MaxSends   \* bound on the values one thread offers

ASSUME CapacityAssumption == Capacity \in Nat /\ MaxSends \in Nat
ASSUME ThreadAssumption == Owner \in Thread /\ Free \notin Thread

VARIABLES
    queue,     \* State.queue
    closed,    \* State.closed
    holder,    \* the thread inside the critical section
    depth,     \* Shared.depth
    peak,      \* Shared.peak
    flag,      \* Shared.closed
    alive,     \* the Mailbox was not dropped
    pc,        \* what each thread does next
    seen,      \* the depth a thread loaded before it loads the peak
    sent,      \* history: how many values each thread offered
    accepted,  \* history: the values a send returned Ok for, in lock order
    received,  \* history: the values handed to the owner
    released,  \* history: the payloads dropped with the mailbox
    final      \* history: the owner was told Receive::Closed

vars == <<queue, closed, holder, depth, peak, flag, alive, pc, seen,
          sent, accepted, received, released, final>>

atomics == <<depth, peak, flag>>
history == <<accepted, received, released, final>>

Payload == Thread \X (1..MaxSends)

\* Everything has its type, and neither the queue nor what a reader is told of it
\* (depth, peak_depth) ever exceeds the capacity try_send checks under the lock.
TypeOK ==
    /\ queue \in Seq(Payload) /\ accepted \in Seq(Payload)
    /\ received \in Seq(Payload) /\ released \in Seq(Payload)
    /\ closed \in BOOLEAN /\ flag \in BOOLEAN /\ alive \in BOOLEAN /\ final \in BOOLEAN
    /\ holder \in Thread \cup {Free}
    /\ Len(queue) <= Capacity /\ depth \in 0..Capacity /\ peak \in 0..Capacity
    /\ pc \in [Thread -> {"idle", "peak", "depth", "flag", "dropflag", "zero", "take", "loaded"}]
    /\ seen \in [Thread -> Nat] /\ sent \in [Thread -> 0..MaxSends]

Init ==
    /\ queue = <<>> /\ closed = FALSE /\ holder = Free /\ alive = TRUE
    /\ depth = 0 /\ peak = 0 /\ flag = FALSE
    /\ pc = [t \in Thread |-> "idle"] /\ seen = [t \in Thread |-> 0]
    /\ sent = [t \in Thread |-> 0]
    /\ accepted = <<>> /\ received = <<>> /\ released = <<>> /\ final = FALSE

-----------------------------------------------------------------------------
(* Threads outside and inside the critical section *)

\* A handle the thread still has: the owner's is gone once it dropped it.
Holds(t) == t = Owner => alive

CanLock(t) == Holds(t) /\ pc[t] = "idle" /\ holder = Free

Enter(t, label) == holder' = t /\ pc' = [pc EXCEPT ![t] = label]
Leave(t) == holder' = Free /\ pc' = [pc EXCEPT ![t] = "idle"]

-----------------------------------------------------------------------------
(* Shared::try_send *)

Refused == closed \/ Len(queue) >= Capacity

TrySendRefused(t) ==
    /\ CanLock(t) /\ sent[t] < MaxSends
    /\ Refused
    /\ sent' = [sent EXCEPT ![t] = @ + 1]
    /\ UNCHANGED <<queue, closed, holder, atomics, alive, pc, seen, history>>

TrySendAccepted(t) ==
    /\ CanLock(t) /\ sent[t] < MaxSends
    /\ ~Refused
    /\ sent' = [sent EXCEPT ![t] = @ + 1]
    /\ LET m == <<t, sent[t] + 1>>
       IN queue' = Append(queue, m) /\ accepted' = Append(accepted, m)
    /\ Enter(t, "peak")
    /\ UNCHANGED <<closed, atomics, alive, seen, received, released, final>>

\* peak.fetch_max comes before depth.store, still under the lock.
PeakOfMirror(t) ==
    /\ pc[t] = "peak"
    /\ peak' = IF depth > peak THEN depth ELSE peak
    /\ pc' = [pc EXCEPT ![t] = "depth"]
    /\ UNCHANGED <<queue, closed, holder, depth, flag, alive, seen, sent, history>>

StorePeak(t) ==
    /\ pc[t] = "peak"
    /\ peak' = IF Len(queue) > peak THEN Len(queue) ELSE peak
    /\ pc' = [pc EXCEPT ![t] = "depth"]
    /\ UNCHANGED <<queue, closed, holder, depth, flag, alive, seen, sent, history>>

StoreDepth(t) ==
    /\ pc[t] = "depth"
    /\ depth' = Len(queue)
    /\ Leave(t)
    /\ UNCHANGED <<queue, closed, peak, flag, alive, seen, sent, history>>

-----------------------------------------------------------------------------
(* Shared::receive, Shared::close, Drop for Mailbox *)

ReceiveNewest(t) ==
    /\ t = Owner /\ CanLock(t) /\ queue # <<>>
    /\ queue' = SubSeq(queue, 1, Len(queue) - 1)
    /\ received' = Append(received, queue[Len(queue)])
    /\ Enter(t, "depth")
    /\ UNCHANGED <<closed, atomics, alive, seen, sent, accepted, released, final>>

TryReceiveMessage(t) ==
    /\ t = Owner /\ CanLock(t) /\ queue # <<>>
    /\ queue' = Tail(queue) /\ received' = Append(received, Head(queue))
    /\ Enter(t, "depth")
    /\ UNCHANGED <<closed, atomics, alive, seen, sent, accepted, released, final>>

\* Receive::Closed, or Receive::Empty while the mailbox is open.
TryReceiveNothing(t) ==
    /\ t = Owner /\ CanLock(t) /\ queue = <<>>
    /\ final' = (final \/ closed)
    /\ UNCHANGED <<queue, closed, holder, atomics, alive, pc, seen, sent,
                   accepted, received, released>>

Close(t) ==
    /\ CanLock(t)
    /\ closed' = TRUE
    /\ Enter(t, "flag")
    /\ UNCHANGED <<queue, atomics, alive, seen, sent, history>>

StoreFlag(t) ==
    /\ pc[t] = "flag"
    /\ flag' = TRUE
    /\ Leave(t)
    /\ UNCHANGED <<queue, closed, depth, peak, alive, seen, sent, history>>

DropMailbox(t) ==
    /\ t = Owner /\ CanLock(t)
    /\ closed' = TRUE /\ alive' = FALSE
    /\ Enter(t, "dropflag")
    /\ UNCHANGED <<queue, atomics, seen, sent, history>>

DropStoreFlag(t) ==
    /\ pc[t] = "dropflag"
    /\ flag' = TRUE
    /\ pc' = [pc EXCEPT ![t] = "zero"]
    /\ UNCHANGED <<queue, closed, holder, depth, peak, alive, seen, sent, history>>

DropStoreDepth(t) ==
    /\ pc[t] = "zero"
    /\ depth' = 0
    /\ pc' = [pc EXCEPT ![t] = "take"]
    /\ UNCHANGED <<queue, closed, holder, peak, flag, alive, seen, sent, history>>

DropWithoutTake(t) ==
    /\ pc[t] = "take"
    /\ Leave(t)
    /\ UNCHANGED <<queue, closed, atomics, alive, seen, sent, history>>

DropTake(t) ==
    /\ pc[t] = "take"
    /\ queue' = <<>> /\ released' = queue
    /\ Leave(t)
    /\ UNCHANGED <<closed, atomics, alive, seen, sent, accepted, received, final>>

-----------------------------------------------------------------------------
(* depth() and then peak_depth(), by any thread, without the lock *)

LoadDepth(t) ==
    /\ Holds(t) /\ pc[t] = "idle"
    /\ seen' = [seen EXCEPT ![t] = depth]
    /\ pc' = [pc EXCEPT ![t] = "loaded"]
    /\ UNCHANGED <<queue, closed, holder, atomics, alive, sent, history>>

LoadPeak(t) ==
    /\ pc[t] = "loaded"
    /\ seen' = [seen EXCEPT ![t] = 0]
    /\ pc' = [pc EXCEPT ![t] = "idle"]
    /\ UNCHANGED <<queue, closed, holder, atomics, alive, sent, history>>

-----------------------------------------------------------------------------

Inside(t) ==
    \/ StorePeak(t) \/ StoreDepth(t) \/ StoreFlag(t)
    \/ DropStoreFlag(t) \/ DropStoreDepth(t) \/ DropTake(t)

Step(t) ==
    \/ TrySendRefused(t) \/ TrySendAccepted(t)
    \/ TryReceiveMessage(t) \/ TryReceiveNothing(t)
    \/ Close(t) \/ DropMailbox(t)
    \/ LoadDepth(t) \/ LoadPeak(t)
    \/ Inside(t)

Next == \E t \in Thread : Step(t)

Spec == Init /\ [][Next]_vars

\* A thread inside the critical section is scheduled until it leaves.
FairSpec == Spec /\ \A t \in Thread : WF_vars(Inside(t))

-----------------------------------------------------------------------------
(* Properties *)

\* A thread that loads the depth and then the peak never sees depth above peak,
\* whatever the other threads did in between (the order of the two stores in
\* try_send).
ReadersNeverInvert == \A t \in Thread : pc[t] = "loaded" => seen[t] <= peak

\* Every value a send returned Ok for is delivered once, in the order the sends
\* took the lock, or is still queued, or was dropped with the mailbox; and an owner
\* that was told Closed, and stops receiving, leaves nothing behind.
AcceptedAreConserved ==
    /\ received \o released \o queue = accepted
    /\ final => queue = <<>>

\* Dropping the mailbox releases the queued payloads although sender handles
\* are still alive, and no sender brings the depth back.
DropReleases == ~alive ~> [](queue = <<>> /\ depth = 0)
=============================================================================
