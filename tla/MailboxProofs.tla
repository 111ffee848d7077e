--------------------------- MODULE MailboxProofs ---------------------------
(***************************************************************************)
(* Proofs about Mailbox, for any capacity and any number of threads: the   *)
(* type invariant, that unlocked readers never see the depth above the     *)
(* peak, and that accepted values are conserved in order.                  *)
(*                                                                         *)
(* Neither property is inductive by itself.  A reader is safe because the  *)
(* peak already covers the queue whenever the depth is stored, which the   *)
(* lock guarantees between the two stores of try_send; conservation needs  *)
(* that nothing is released before the drop reaches the queue, and that a  *)
(* mailbox whose end was reported stays closed.                            *)
(***************************************************************************)
EXTENDS Mailbox, SequenceTheorems, TLAPS

Critical == {"peak", "depth", "flag", "dropflag", "zero", "take"}
Dropping == {"dropflag", "zero", "take"}

\* A thread is between two stores exactly while it holds the lock.
LockDiscipline == \A t \in Thread : pc[t] \in Critical <=> holder = t

\* The peak covers the published depth, and the queue except between the push of a
\* send and its update of the peak.
PeakCovers ==
    /\ depth <= peak
    /\ (\A t \in Thread : pc[t] # "peak") => Len(queue) <= peak

\* Nothing is released before the one drop takes the queue, and the owner is gone then.
ReleasedLast ==
    /\ alive => released = <<>>
    /\ \A t \in Thread : pc[t] \in Dropping => released = <<>> /\ ~alive

\* An owner is told Closed only by a closed, empty mailbox.
FinalIsClosed == final => closed

MailboxInv ==
    /\ TypeOK /\ LockDiscipline
    /\ ReadersNeverInvert /\ PeakCovers
    /\ AcceptedAreConserved /\ ReleasedLast /\ FinalIsClosed

-----------------------------------------------------------------------------
(* Sequences *)

\* Appending to the last of three parts appends to the whole (try_send).
LEMMA AppendToLast ==
    ASSUME NEW S, NEW a \in Seq(S), NEW b \in Seq(S), NEW c \in Seq(S), NEW e \in S
    PROVE  a \o b \o Append(c, e) = Append(a \o b \o c, e)
<1>1. a \o b \in Seq(S) /\ <<e>> \in Seq(S) /\ a \o b \o c \in Seq(S)
  BY ConcatProperties
<1>2. Append(c, e) = c \o <<e>> /\ Append(a \o b \o c, e) = (a \o b \o c) \o <<e>>
  BY <1>1, AppendIsConcat
<1> QED BY <1>1, <1>2, ConcatAssociative

\* A nonempty sequence is its head and its tail.
LEMMA HeadThenTail ==
    ASSUME NEW S, NEW q \in Seq(S), q # <<>>
    PROVE  /\ <<Head(q)>> \o Tail(q) = q
           /\ <<Head(q)>> \in Seq(S) /\ Tail(q) \in Seq(S) /\ Head(q) \in S
           /\ Len(Tail(q)) = Len(q) - 1 /\ Len(q) \in Nat
<1>1. /\ Head(q) \in S /\ Tail(q) \in Seq(S) /\ Len(Tail(q)) = Len(q) - 1
      /\ \A i \in 1..Len(Tail(q)) : Tail(q)[i] = q[i + 1]
  BY HeadTailProperties
<1>2. /\ <<Head(q)>> \in Seq(S) /\ Len(<<Head(q)>>) = 1 /\ <<Head(q)>>[1] = Head(q)
      /\ Len(q) \in Nat \ {0} /\ Head(q) = q[1]
  BY <1>1, EmptySeq
<1>3. /\ <<Head(q)>> \o Tail(q) \in Seq(S)
      /\ Len(<<Head(q)>> \o Tail(q)) = Len(q)
      /\ \A i \in 1..Len(q) : (<<Head(q)>> \o Tail(q))[i] =
            IF i <= 1 THEN <<Head(q)>>[i] ELSE Tail(q)[i - 1]
  BY <1>1, <1>2, ConcatProperties
<1>4. \A i \in 1..Len(q) : (<<Head(q)>> \o Tail(q))[i] = q[i]
  BY <1>1, <1>2, <1>3
<1>5. <<Head(q)>> \o Tail(q) = q
  BY <1>3, <1>4, SeqEqual
<1> QED BY <1>1, <1>2, <1>5

\* The head of the queue moves to the end of what was received (receive).
LEMMA MoveHead ==
    ASSUME NEW S, NEW a \in Seq(S), NEW q \in Seq(S), q # <<>>
    PROVE  Append(a, Head(q)) \o <<>> \o Tail(q) = a \o <<>> \o q
<1>1. /\ <<Head(q)>> \o Tail(q) = q /\ <<Head(q)>> \in Seq(S) /\ Tail(q) \in Seq(S)
      /\ Head(q) \in S
  BY HeadThenTail
<1>2. Append(a, Head(q)) = a \o <<Head(q)>> /\ Append(a, Head(q)) \in Seq(S)
  BY <1>1, AppendIsConcat, AppendProperties
<1>3. (a \o <<Head(q)>>) \o Tail(q) = a \o q
  BY <1>1, ConcatAssociative
<1> QED BY <1>2, <1>3, ConcatEmptySeq

-----------------------------------------------------------------------------
(* The type invariant, in the parts one prover each can follow *)

SeqTypes ==
    /\ queue \in Seq(Payload) /\ accepted \in Seq(Payload)
    /\ received \in Seq(Payload) /\ released \in Seq(Payload)
FlagTypes == closed \in BOOLEAN /\ flag \in BOOLEAN /\ alive \in BOOLEAN /\ final \in BOOLEAN
NumTypes ==
    /\ Len(queue) <= Capacity /\ depth \in 0..Capacity /\ peak \in 0..Capacity
    /\ seen \in [Thread -> Nat] /\ sent \in [Thread -> 0..MaxSends]
PlaceTypes ==
    /\ holder \in Thread \cup {Free}
    /\ pc \in [Thread -> {"idle", "peak", "depth", "flag", "dropflag", "zero", "take", "loaded"}]

\* The four parts are the type invariant.
LEMMA TypeParts == TypeOK <=> SeqTypes /\ FlagTypes /\ NumTypes /\ PlaceTypes
  BY DEF TypeOK, SeqTypes, FlagTypes, NumTypes, PlaceTypes

\* The same in the next state.
LEMMA TypePartsNext == TypeOK' <=> SeqTypes' /\ FlagTypes' /\ NumTypes' /\ PlaceTypes'
  BY DEF TypeOK, SeqTypes, FlagTypes, NumTypes, PlaceTypes

\* The mailbox starts empty.
LEMMA MailboxInit == Init => MailboxInv
<1> SUFFICES ASSUME Init PROVE MailboxInv
  OBVIOUS
<1>1. SeqTypes /\ NumTypes
  BY CapacityAssumption, EmptySeq DEF Init, SeqTypes, NumTypes
<1>2. FlagTypes
  BY DEF Init, FlagTypes
<1>3. PlaceTypes
  BY DEF Init, PlaceTypes
<1>4. LockDiscipline /\ ReadersNeverInvert /\ PeakCovers /\ ReleasedLast /\ FinalIsClosed
  BY ThreadAssumption, EmptySeq DEF Init, LockDiscipline, Critical, ReadersNeverInvert, PeakCovers,
     ReleasedLast, FinalIsClosed, Dropping
<1>5. AcceptedAreConserved
  BY ConcatEmptySeq, EmptySeq DEF Init, AcceptedAreConserved
<1> QED BY <1>1, <1>2, <1>3, <1>4, <1>5, TypeParts DEF MailboxInv

-----------------------------------------------------------------------------
(* One lemma per part of the type invariant *)

\* What a send appends is a payload, and it fits.
LEMMA AcceptedFits ==
    ASSUME SeqTypes, NumTypes, NEW t \in Thread, TrySendAccepted(t)
    PROVE  /\ <<t, sent[t] + 1>> \in Payload
           /\ Append(queue, <<t, sent[t] + 1>>) \in Seq(Payload)
           /\ Append(accepted, <<t, sent[t] + 1>>) \in Seq(Payload)
           /\ Len(Append(queue, <<t, sent[t] + 1>>)) = Len(queue) + 1
           /\ Len(queue) \in Nat /\ Len(queue) < Capacity
<1> USE CapacityAssumption DEF SeqTypes, NumTypes
<1>1. <<t, sent[t] + 1>> \in Payload
  BY DEF TrySendAccepted, Payload
<1>2. Len(queue) \in Nat /\ Len(queue) < Capacity
  BY DEF TrySendAccepted, Refused
<1> QED BY <1>1, <1>2, AppendProperties

\* Every step keeps sequences of payloads.
LEMMA SeqTypesStep ==
    ASSUME SeqTypes, NumTypes, NEW t \in Thread, Step(t)
    PROVE  SeqTypes'
<1>1. CASE TrySendAccepted(t)
  BY <1>1, AcceptedFits DEF TrySendAccepted, SeqTypes
<1>2. CASE TryReceiveMessage(t)
  <2>1. queue # <<>>
    BY <1>2 DEF TryReceiveMessage
  <2>2. Tail(queue) \in Seq(Payload) /\ Append(received, Head(queue)) \in Seq(Payload)
    BY <2>1, HeadThenTail, AppendProperties DEF SeqTypes
  <2> QED BY <1>2, <2>2 DEF TryReceiveMessage, SeqTypes
<1>3. CASE DropTake(t)
  BY <1>3, EmptySeq DEF DropTake, SeqTypes
<1>4. CASE UNCHANGED <<queue, accepted, received, released>>
  BY <1>4 DEF SeqTypes
<1> QED
  BY <1>1, <1>2, <1>3, <1>4 DEF Step, Inside, TrySendRefused, TryReceiveNothing, Close,
     DropMailbox, LoadDepth, LoadPeak, StorePeak, StoreDepth, StoreFlag, DropStoreFlag,
     DropStoreDepth, history

\* Every step keeps the flags Boolean.
LEMMA FlagTypesStep ==
    ASSUME FlagTypes, NEW t \in Thread, Step(t)
    PROVE  FlagTypes'
<1>1. CASE TryReceiveNothing(t)
  BY <1>1 DEF TryReceiveNothing, FlagTypes, atomics
<1>2. CASE Close(t)
  BY <1>2 DEF Close, FlagTypes, atomics, history
<1>3. CASE DropMailbox(t)
  BY <1>3 DEF DropMailbox, FlagTypes, atomics, history
<1>4. CASE StoreFlag(t)
  BY <1>4 DEF StoreFlag, FlagTypes, history
<1>5. CASE DropStoreFlag(t)
  BY <1>5 DEF DropStoreFlag, FlagTypes, history
<1>6. CASE UNCHANGED <<closed, flag, alive, final>>
  BY <1>6 DEF FlagTypes
<1> QED
  BY <1>1, <1>2, <1>3, <1>4, <1>5, <1>6 DEF Step, Inside, TrySendRefused, TrySendAccepted,
     TryReceiveMessage, LoadDepth, LoadPeak, StorePeak, StoreDepth, DropStoreDepth, DropTake,
     atomics, history

\* Every step keeps the capacity and the counters.
LEMMA NumTypesStep ==
    ASSUME SeqTypes, NumTypes, NEW t \in Thread, Step(t)
    PROVE  NumTypes'
<1> USE CapacityAssumption DEF NumTypes
<1>0. Len(queue) \in Nat
  BY DEF SeqTypes
<1>1. CASE TrySendRefused(t)
  BY <1>1 DEF TrySendRefused, atomics
<1>2. CASE TrySendAccepted(t)
  <2>1. queue' = Append(queue, <<t, sent[t] + 1>>) /\ sent' = [sent EXCEPT ![t] = @ + 1]
        /\ sent[t] < MaxSends /\ UNCHANGED <<depth, peak, seen>>
    BY <1>2 DEF TrySendAccepted, atomics
  <2>2. /\ Len(Append(queue, <<t, sent[t] + 1>>)) = Len(queue) + 1
        /\ Len(queue) < Capacity
    BY ONLY SeqTypes, NumTypes, t \in Thread, <1>2, AcceptedFits, Zenon
  <2>3. Len(queue') <= Capacity
    BY <1>0, <2>1, <2>2
  <2> QED BY <2>1, <2>3
<1>3. CASE TryReceiveMessage(t)
  <2>1. queue # <<>> /\ queue' = Tail(queue) /\ UNCHANGED <<depth, peak, seen, sent>>
    BY <1>3 DEF TryReceiveMessage, atomics
  <2>2. Len(queue') <= Capacity
    BY <1>0, <2>1, HeadThenTail DEF SeqTypes
  <2> QED BY <2>1, <2>2
<1>4. CASE LoadDepth(t)
  BY <1>4 DEF LoadDepth, atomics
<1>5. CASE LoadPeak(t)
  BY <1>5 DEF LoadPeak, atomics
<1>6. CASE StorePeak(t)
  BY <1>0, <1>6 DEF StorePeak
<1>7. CASE StoreDepth(t)
  BY <1>0, <1>7 DEF StoreDepth
<1>8. CASE DropStoreDepth(t)
  BY <1>8 DEF DropStoreDepth
<1>9. CASE DropTake(t)
  BY <1>9, EmptySeq DEF DropTake, atomics
<1>10. CASE UNCHANGED <<queue, depth, peak, seen, sent>>
  BY <1>10
<1> HIDE DEF NumTypes
<1> QED
  BY <1>1, <1>2, <1>3, <1>4, <1>5, <1>6, <1>7, <1>8, <1>9, <1>10 DEF Step, Inside,
     TryReceiveNothing, Close, DropMailbox, StoreFlag, DropStoreFlag, atomics, history

\* Every step keeps the lock and the program counters.
LEMMA PlaceTypesStep ==
    ASSUME PlaceTypes, NEW t \in Thread, Step(t)
    PROVE  PlaceTypes'
<1> USE DEF PlaceTypes, Enter, Leave
<1>1. CASE TrySendAccepted(t) \/ StorePeak(t) \/ StoreDepth(t)
  BY <1>1 DEF TrySendAccepted, StorePeak, StoreDepth
<1>2. CASE TryReceiveMessage(t) \/ Close(t) \/ StoreFlag(t)
  BY <1>2 DEF TryReceiveMessage, Close, StoreFlag
<1>3. CASE DropMailbox(t) \/ DropStoreFlag(t) \/ DropStoreDepth(t) \/ DropTake(t)
  BY <1>3 DEF DropMailbox, DropStoreFlag, DropStoreDepth, DropTake
<1>4. CASE LoadDepth(t) \/ LoadPeak(t)
  BY <1>4 DEF LoadDepth, LoadPeak
<1>5. CASE TrySendRefused(t) \/ TryReceiveNothing(t)
  BY <1>5 DEF TrySendRefused, TryReceiveNothing
<1> HIDE DEF PlaceTypes, Enter, Leave
<1> QED BY <1>1, <1>2, <1>3, <1>4, <1>5 DEF Step, Inside

\* Every step keeps the type invariant.
LEMMA TypeStep ==
    ASSUME TypeOK, NEW t \in Thread, Step(t)
    PROVE  TypeOK'
  BY TypeParts, TypePartsNext, SeqTypesStep, FlagTypesStep, NumTypesStep, PlaceTypesStep

-----------------------------------------------------------------------------
(* One lemma per part of the invariant *)

\* Every step keeps the lock discipline: a critical section is entered from the free
\* lock and left by freeing it.
LEMMA LockStep ==
    ASSUME PlaceTypes, LockDiscipline, NEW t \in Thread, Step(t)
    PROVE  LockDiscipline'
<1> USE ThreadAssumption DEF PlaceTypes, LockDiscipline, Critical, Enter, Leave, CanLock
<1>1. CASE TrySendAccepted(t) \/ StorePeak(t) \/ StoreDepth(t)
  BY <1>1 DEF TrySendAccepted, StorePeak, StoreDepth
<1>2. CASE TryReceiveMessage(t) \/ Close(t) \/ StoreFlag(t)
  BY <1>2 DEF TryReceiveMessage, Close, StoreFlag
<1>3. CASE DropMailbox(t) \/ DropStoreFlag(t) \/ DropStoreDepth(t) \/ DropTake(t)
  BY <1>3 DEF DropMailbox, DropStoreFlag, DropStoreDepth, DropTake
<1>4. CASE LoadDepth(t) \/ LoadPeak(t)
  BY <1>4 DEF LoadDepth, LoadPeak
<1>5. CASE TrySendRefused(t) \/ TryReceiveNothing(t)
  BY <1>5 DEF TrySendRefused, TryReceiveNothing
<1> HIDE DEF PlaceTypes, LockDiscipline, Critical, Enter, Leave, CanLock
<1> QED BY <1>1, <1>2, <1>3, <1>4, <1>5 DEF Step, Inside

\* While a thread is in the critical section no other thread is, and while the lock is
\* free nobody is.
LEMMA OneInside ==
    ASSUME LockDiscipline, NEW t \in Thread, NEW u \in Thread, pc[u] \in Critical
    PROVE  /\ CanLock(t) => FALSE
           /\ pc[t] \in Critical => t = u
  BY ThreadAssumption DEF LockDiscipline, CanLock

\* Every step keeps the peak above the depth, above the queue outside a push, and above
\* what any reader holds.
LEMMA ReaderStep ==
    ASSUME TypeOK, TypeOK', LockDiscipline, PeakCovers, ReadersNeverInvert,
           NEW t \in Thread, Step(t)
    PROVE  PeakCovers' /\ ReadersNeverInvert'
<1>0. /\ Len(queue) \in Nat /\ depth \in Nat /\ peak \in Nat
      /\ seen \in [Thread -> Nat]
      /\ pc \in [Thread -> {"idle", "peak", "depth", "flag", "dropflag", "zero", "take", "loaded"}]
      /\ Len(queue') \in Nat /\ depth' \in Nat /\ peak' \in Nat
      /\ queue \in Seq(Payload)
  <2>1. SeqTypes /\ NumTypes /\ PlaceTypes /\ SeqTypes' /\ NumTypes'
    BY TypeParts, TypePartsNext
  <2>2. Len(queue) \in Nat /\ Len(queue') \in Nat /\ queue \in Seq(Payload)
    BY <2>1 DEF SeqTypes
  <2> QED BY <2>1, <2>2, CapacityAssumption DEF NumTypes, PlaceTypes
<1> USE <1>0 DEF PeakCovers, ReadersNeverInvert, Enter, Leave
<1>1. CASE TrySendAccepted(t)
  BY <1>1 DEF TrySendAccepted, atomics
<1>2. CASE StorePeak(t)
  BY <1>2 DEF StorePeak
<1>3. CASE StoreDepth(t)
  <2>1. \A u \in Thread : pc[u] # "peak"
    BY <1>3, OneInside DEF StoreDepth, Critical
  <2> QED BY <1>3, <2>1 DEF StoreDepth
<1>4. CASE TryReceiveMessage(t)
  <2>1. Len(queue') <= Len(queue)
    BY <1>4, HeadThenTail DEF TryReceiveMessage
  <2> QED BY <1>4, <2>1 DEF TryReceiveMessage, atomics, CanLock
<1>5. CASE Close(t)
  BY <1>5 DEF Close, atomics, CanLock
<1>6. CASE StoreFlag(t)
  BY <1>6 DEF StoreFlag
<1>7. CASE DropMailbox(t)
  BY <1>7 DEF DropMailbox, atomics, CanLock
<1>8. CASE DropStoreFlag(t) \/ DropStoreDepth(t)
  BY <1>8 DEF DropStoreFlag, DropStoreDepth
<1>9. CASE DropTake(t)
  BY <1>9, EmptySeq DEF DropTake, atomics
<1>10. CASE LoadDepth(t)
  BY <1>10 DEF LoadDepth, atomics
<1>11. CASE LoadPeak(t)
  BY <1>11 DEF LoadPeak, atomics
<1>12. CASE TrySendRefused(t) \/ TryReceiveNothing(t)
  BY <1>12 DEF TrySendRefused, TryReceiveNothing, atomics
<1> HIDE DEF PeakCovers, ReadersNeverInvert, Enter, Leave
<1> QED
  BY <1>1, <1>2, <1>3, <1>4, <1>5, <1>6, <1>7, <1>8, <1>9, <1>10, <1>11, <1>12
  DEF Step, Inside

-----------------------------------------------------------------------------
(* Conservation *)

\* Every step keeps the accepted values: each moves from the queue to the owner in
\* order, or to the payloads released with the mailbox, which come last.
LEMMA ConserveStep ==
    ASSUME TypeOK, LockDiscipline, AcceptedAreConserved, ReleasedLast, FinalIsClosed,
           NEW t \in Thread, Step(t)
    PROVE  AcceptedAreConserved'
<1>0. SeqTypes /\ NumTypes
  BY TypeParts
<1>1. CASE TrySendAccepted(t)
  <2>1. received \o released \o Append(queue, <<t, sent[t] + 1>>)
          = Append(received \o released \o queue, <<t, sent[t] + 1>>)
    BY <1>0, <1>1, AcceptedFits, AppendToLast DEF SeqTypes
  <2>2. ~final
    BY <1>1 DEF TrySendAccepted, Refused, FinalIsClosed
  <2> QED BY <1>1, <2>1, <2>2 DEF TrySendAccepted, AcceptedAreConserved
<1>2. CASE TryReceiveMessage(t)
  <2>1. queue # <<>> /\ released = <<>>
    BY <1>2 DEF TryReceiveMessage, CanLock, Holds, ReleasedLast
  <2>2. Append(received, Head(queue)) \o <<>> \o Tail(queue) = received \o <<>> \o queue
    BY <1>0, <2>1, MoveHead DEF SeqTypes
  <2> QED BY <1>2, <2>1, <2>2 DEF TryReceiveMessage, AcceptedAreConserved
<1>3. CASE DropTake(t)
  <2>1. released = <<>>
    BY <1>3 DEF DropTake, ReleasedLast, Dropping
  <2>2. received \o queue \in Seq(Payload) /\ received \o <<>> = received
    BY <1>0, ConcatProperties, ConcatEmptySeq DEF SeqTypes
  <2>3. received \o queue \o <<>> = received \o <<>> \o queue
    BY <2>2, ConcatEmptySeq
  <2> QED BY <1>3, <2>1, <2>3 DEF DropTake, AcceptedAreConserved
<1>4. CASE TryReceiveNothing(t)
  BY <1>4 DEF TryReceiveNothing, AcceptedAreConserved
<1>5. CASE UNCHANGED <<queue, accepted, received, released, final>>
  BY <1>5 DEF AcceptedAreConserved
<1> QED
  BY <1>1, <1>2, <1>3, <1>4, <1>5 DEF Step, Inside, TrySendRefused, Close, DropMailbox,
     LoadDepth, LoadPeak, StorePeak, StoreDepth, StoreFlag, DropStoreFlag, DropStoreDepth, history

\* Every step keeps what conservation rests on.
LEMMA ReleaseStep ==
    ASSUME TypeOK, LockDiscipline, ReleasedLast, FinalIsClosed, NEW t \in Thread, Step(t)
    PROVE  ReleasedLast' /\ FinalIsClosed'
<1>0. PlaceTypes /\ FlagTypes
  BY TypeParts
<1> USE DEF ReleasedLast, Dropping, FinalIsClosed
<1>1. CASE TrySendAccepted(t) \/ TryReceiveMessage(t)
  BY <1>0, <1>1 DEF TrySendAccepted, TryReceiveMessage, Enter, atomics, PlaceTypes
<1>2. CASE Close(t)
  BY <1>0, <1>2 DEF Close, Enter, history, PlaceTypes
<1>3. CASE DropMailbox(t)
  BY <1>0, <1>3 DEF DropMailbox, Enter, history, PlaceTypes, CanLock, Holds
<1>4. CASE StorePeak(t) \/ StoreDepth(t) \/ StoreFlag(t)
  BY <1>0, <1>4 DEF StorePeak, StoreDepth, StoreFlag, Leave, history, PlaceTypes
<1>5. CASE DropStoreFlag(t) \/ DropStoreDepth(t)
  BY <1>0, <1>5 DEF DropStoreFlag, DropStoreDepth, history, PlaceTypes
<1>6. CASE DropTake(t)
  <2>1. \A u \in Thread : u # t => pc[u] \notin Dropping
    BY <1>6, OneInside DEF DropTake, Critical
  <2>2. ~alive /\ ~alive'
    BY <1>6 DEF DropTake
  <2> QED BY <1>0, <1>6, <2>1, <2>2 DEF DropTake, Leave, PlaceTypes
<1>7. CASE LoadDepth(t) \/ LoadPeak(t)
  BY <1>0, <1>7 DEF LoadDepth, LoadPeak, history, PlaceTypes
<1>8. CASE TrySendRefused(t)
  BY <1>8 DEF TrySendRefused, history
<1>9. CASE TryReceiveNothing(t)
  BY <1>0, <1>9 DEF TryReceiveNothing, FlagTypes
<1> HIDE DEF ReleasedLast, Dropping, FinalIsClosed
<1> QED
  BY <1>1, <1>2, <1>3, <1>4, <1>5, <1>6, <1>7, <1>8, <1>9 DEF Step, Inside

\* The invariant is inductive.
LEMMA MailboxStep == MailboxInv /\ [Next]_vars => MailboxInv'
<1> SUFFICES ASSUME MailboxInv, [Next]_vars PROVE MailboxInv'
  OBVIOUS
<1>1. CASE UNCHANGED vars
  BY <1>1 DEF vars, MailboxInv, TypeOK, LockDiscipline, ReadersNeverInvert, PeakCovers,
     AcceptedAreConserved, ReleasedLast, FinalIsClosed
<1>2. ASSUME NEW t \in Thread, Step(t) PROVE MailboxInv'
  BY <1>2, TypeParts, TypeStep, LockStep, ReaderStep, ConserveStep, ReleaseStep DEF MailboxInv
<1> QED BY <1>1, <1>2 DEF Next

-----------------------------------------------------------------------------
(* Theorems *)

\* The queue and what a reader is told of it never exceed the capacity (try_send).
THEOREM MailboxTypeCorrect == Spec => []TypeOK
<1>1. MailboxInv => TypeOK
  BY DEF MailboxInv
<1> QED BY <1>1, MailboxInit, MailboxStep, PTL DEF Spec

\* Two unlocked loads, depth() and then peak_depth(), never show the depth above the
\* peak, for any number of threads (the order of the two stores in try_send).
THEOREM ReadersAreSafe == Spec => []ReadersNeverInvert
<1>1. MailboxInv => ReadersNeverInvert
  BY DEF MailboxInv
<1> QED BY <1>1, MailboxInit, MailboxStep, PTL DEF Spec

\* Every accepted value is received once and in order, queued, or released with the
\* mailbox, and nothing is left behind a reported end (try_send, receive, Drop).
THEOREM NothingAcceptedIsLost == Spec => []AcceptedAreConserved
<1>1. MailboxInv => AcceptedAreConserved
  BY DEF MailboxInv
<1> QED BY <1>1, MailboxInit, MailboxStep, PTL DEF Spec
=============================================================================
