---------------------------- MODULE MemoryProofs ----------------------------
(***************************************************************************)
(* Proofs about the durable memory, in three parts.                        *)
(*                                                                         *)
(* MemoryRecords, for any set of records and any limits: the type          *)
(* invariant, that revocations flow along derivations and that authority   *)
(* is earned.  MarkersFlow is not inductive by itself.  Making a record    *)
(* authoritative clears its markers, which is sound only because a marker  *)
(* always names a revoked record, so the gate lets no marked record        *)
(* through; and a record may be inserted only because nothing is derived   *)
(* from an id that is not held yet.                                        *)
(*                                                                         *)
(* Knowledge, for any set of objects, any number of generations and any    *)
(* trusted registrations: the type invariant, that a valid admitted        *)
(* generation rests on valid ones, and that a takeover is clean.           *)
(* Everything rests on two facts.  What an invalidation reaches is closed  *)
(* under dependence, so it never leaves a valid dependent behind; and      *)
(* every other operation leaves each held generation as valid as it was.   *)
(*                                                                         *)
(* MemoryJournal, for any mutations, caps, compaction thresholds and       *)
(* faults: the type invariant, that what was acknowledged is recovered and *)
(* that what was rolled back never returns.  The invariant says of a file  *)
(* what makes it a good one to recover from (Sound), of the memory how it  *)
(* differs from the file in the middle of a call (MemInv, FrameInv), and   *)
(* of the files a power loss may bring back that each is a good one too    *)
(* (OlderInv).                                                             *)
(***************************************************************************)
EXTENDS MemoryRecords, Knowledge, MemoryJournal, SequenceTheorems, TLAPS

-----------------------------------------------------------------------------
(* MemoryRecords *)

\* A marker names a record that is revoked (and stays so).
MarkersAreRevoked == \A i \in Id : \A a \in rec[i].revoked_ancestors : Revoked(a)

\* Records are derived from records that are held.
ParentsAreHeld == \A i \in Id : rec[i].derived_from \subseteq Held

RecordsInv ==
    /\ TypeOK /\ MarkersFlow /\ AuthorityIsEarned
    /\ MarkersAreRevoked /\ ParentsAreHeld

-----------------------------------------------------------------------------
(* MemoryRecords: operators *)

\* Flagging marks a live record and leaves every other as it is.
LEMMA FlagEffect ==
    ASSUME NEW r \in Record, NEW markers \in SUBSET Id
    PROVE  /\ Flag(r, markers) \in Record
           /\ Flag(r, markers).derived_from = r.derived_from
           /\ Flag(r, markers).supports = r.supports
           /\ Live(r) => /\ Flag(r, markers).state = "NeedsRevalidation"
                         /\ Flag(r, markers).revoked_ancestors = r.revoked_ancestors \cup markers
           /\ ~Live(r) => Flag(r, markers) = r
  BY DEF Flag, Live, Record, State

\* Authority clears the markers and changes nothing else.
LEMMA AuthorityEffect ==
    ASSUME NEW r \in Record
    PROVE  /\ MadeAuthoritative(r) \in Record
           /\ MadeAuthoritative(r).state = "Authoritative"
           /\ MadeAuthoritative(r).revoked_ancestors = {}
           /\ MadeAuthoritative(r).derived_from = r.derived_from
           /\ MadeAuthoritative(r).supports = r.supports
  BY DEF MadeAuthoritative, Record, State

\* A record with another state or class is a record.
LEMMA Restated ==
    ASSUME NEW r \in Record, NEW s \in State \cup {"Absent"}
    PROVE  /\ [r EXCEPT !.state = s] \in Record
           /\ [r EXCEPT !.state = s].state = s
           /\ [r EXCEPT !.state = s].revoked_ancestors = r.revoked_ancestors
           /\ [r EXCEPT !.state = s].derived_from = r.derived_from
           /\ [r EXCEPT !.state = s].supports = r.supports
           /\ r.state = s => [r EXCEPT !.state = s] = r
  BY DEF Record

\* Promotion moves a record to another class and leaves the rest of it (promote).
LEMMA Reclassed ==
    ASSUME NEW r \in Record, NEW c \in Class
    PROVE  /\ [r EXCEPT !.class = c] \in Record
           /\ [r EXCEPT !.class = c].state = r.state
           /\ [r EXCEPT !.class = c].revoked_ancestors = r.revoked_ancestors
           /\ [r EXCEPT !.class = c].derived_from = r.derived_from
           /\ [r EXCEPT !.class = c].supports = r.supports
  BY DEF Record

\* The dependents of a record, with the record, are closed under derivation.
LEMMA DependentsClosed ==
    ASSUME NEW root \in Id, NEW p \in Dependents(root) \cup {root},
           NEW i \in Held, p \in rec[i].derived_from
    PROVE  i \in Dependents(root) \cup {root}
<1>1. SUFFICES ASSUME NEW S \in SUBSET Id, {root} \cup Children(S) \subseteq S
               PROVE  i \in S
  BY DEF Dependents, Held
<1>2. p \in S
  BY <1>1 DEF Dependents
<1>3. i \in Children(S)
  BY <1>2 DEF Children
<1> QED BY <1>1, <1>3

\* An observation that is committed stays committed as the horizon advances.
LEMMA CommittedStays ==
    ASSUME NEW r \in Record, NEW h \in Nat, NEW k \in Nat, h <= k,
           HasCommittedSupport(r, h)
    PROVE  HasCommittedSupport(r, k)
<1>1. PICK s \in r.supports : IsCommitted(s, h)
  BY DEF HasCommittedSupport
<1>2. s \in Support
  BY RecordAssumption DEF Record
<1>3. IsCommitted(s, k)
  BY <1>1, <1>2 DEF IsCommitted, Support
<1> QED BY <1>3 DEF HasCommittedSupport

-----------------------------------------------------------------------------
(* MemoryRecords: types *)

\* Every operation keeps records well typed (memory_store.rs).
LEMMA TypeStep == ASSUME TypeOK, [Next]_vars PROVE TypeOK'
<1> USE DEF TypeOK
<1>1. CASE UNCHANGED vars
  BY <1>1 DEF vars
<1>2. ASSUME NEW i \in Id, NEW c \in NewClass, NEW supports \in SUBSET Supports,
             NEW parents \in SUBSET Id, Insert(i, c, supports, parents)
      PROVE  TypeOK'
  <2>1. UNION {rec[p].revoked_ancestors : p \in parents} \in SUBSET Id
    BY DEF Record
  <2>2. c \in Class
    BY RecordAssumption
  <2> QED BY <1>2, <2>1, <2>2 DEF Insert, Record, State
<1>3. ASSUME NEW i \in Id, NEW s \in Supports, AddSupport(i, s) PROVE TypeOK'
  BY <1>3 DEF AddSupport, Record
<1>4. ASSUME NEW i \in Id, NEW from \in Id, AddDerivation(i, from) PROVE TypeOK'
  <2> DEFINE linked == [rec[i] EXCEPT !.derived_from = @ \cup {from}]
             markers == rec[from].revoked_ancestors
  <2>1. linked \in Record /\ markers \in SUBSET Id
    BY DEF Record
  <2>2. CASE rec' = [rec EXCEPT ![i] = linked]
    BY <1>4, <2>1, <2>2 DEF AddDerivation
  <2>3. CASE rec' = [j \in Id |-> IF j = i THEN Flag(linked, markers)
                                  ELSE IF j \in Dependents(i) THEN Flag(rec[j], markers)
                                  ELSE rec[j]]
    <3>1. ASSUME NEW j \in Id PROVE rec'[j] \in Record
      BY <2>1, <2>3, FlagEffect
    <3> QED BY <1>4, <2>3, <3>1 DEF AddDerivation
  <2> QED BY <1>4, <2>2, <2>3 DEF AddDerivation
<1>5. ASSUME NEW i \in Id, Revoke(i) PROVE TypeOK'
  <2>1. [rec[i] EXCEPT !.state = "Revoked"] \in Record
    BY DEF Record, State
  <2>2. ASSUME NEW j \in Id PROVE rec'[j] \in Record
    BY <1>5, <2>1, FlagEffect DEF Revoke
  <2> QED BY <1>5, <2>2 DEF Revoke
<1>6. ASSUME NEW i \in Id, NEW to \in State, Transition(i, to) PROVE TypeOK'
  <2>1. MadeAuthoritative(rec[i]) \in Record /\ [rec[i] EXCEPT !.state = to] \in Record
    BY AuthorityEffect, Restated
  <2> QED BY <1>6, <2>1 DEF Transition
<1>7. ASSUME NEW i \in Id, NEW need \in 1..2, Promote(i, need) PROVE TypeOK'
  <2> DEFINE r == IF rec[i].state = "Authoritative" THEN rec[i] ELSE MadeAuthoritative(rec[i])
  <2>1. r \in Record
    BY AuthorityEffect
  <2>2. [r EXCEPT !.class = "semantic"] \in Record
    BY <2>1, Reclassed DEF Class
  <2> QED BY <1>7, <2>2 DEF Promote
<1>8. ASSUME NEW r \in 0..MaxRevision, AdvanceCommittedRevision(r) PROVE TypeOK'
  BY <1>8 DEF AdvanceCommittedRevision
<1>9. ASSUME NEW aged \in SUBSET Id, NEW contradicted \in SUBSET Id,
             ApplyRetention(aged, contradicted)
      PROVE  TypeOK'
  <2>1. ASSUME NEW i \in Id PROVE rec'[i] \in Record
    <3>1. Verdict(i, aged, contradicted) \in State \cup {"Absent"}
      BY DEF Verdict, Record, State
    <3> QED BY <1>9, <3>1, Restated DEF ApplyRetention
  <2> QED BY <1>9, <2>1 DEF ApplyRetention
<1> QED BY <1>1, <1>2, <1>3, <1>4, <1>5, <1>6, <1>7, <1>8, <1>9 DEF Next

-----------------------------------------------------------------------------
(* MemoryRecords: the invariant *)

\* Derivations and markers stay, nothing becomes held, revoked or live again.
Quiet(j) ==
    /\ rec'[j].derived_from = rec[j].derived_from
    /\ rec'[j].revoked_ancestors = rec[j].revoked_ancestors
    /\ rec'[j].state = "Absent" <=> rec[j].state = "Absent"
    /\ rec'[j].state = "Revoked" <=> rec[j].state = "Revoked"
    /\ Live(rec'[j]) => Live(rec[j])

\* A quiet step keeps what the invariant says of lineage.
LEMMA QuietStep ==
    ASSUME RecordsInv, TypeOK', \A j \in Id : Quiet(j)
    PROVE  MarkersFlow' /\ MarkersAreRevoked' /\ ParentsAreHeld'
<1> USE DEF RecordsInv
<1>1. \A j \in Id : rec[j].derived_from \subseteq Id /\ rec[j].revoked_ancestors \subseteq Id
  BY DEF TypeOK, Record
<1>2. MarkersFlow'
  BY <1>1 DEF MarkersFlow, Quiet, Revoked
<1>3. MarkersAreRevoked'
  BY <1>1 DEF MarkersAreRevoked, Quiet, Revoked
<1>4. ParentsAreHeld'
  BY <1>1 DEF ParentsAreHeld, Quiet, Held
<1> QED BY <1>2, <1>3, <1>4

\* The gate lets no marked record through (authority_gate).
LEMMA GateIsClean ==
    ASSUME MarkersAreRevoked, NEW i \in Id, AuthorityGate(rec[i])
    PROVE  rec[i].revoked_ancestors = {} /\ HasCommittedSupport(rec[i], horizon)
  BY DEF MarkersAreRevoked, AuthorityGate

\* A new record takes over its parents' markers, and nothing is derived from it yet (insert).
LEMMA InsertStep ==
    ASSUME RecordsInv, TypeOK', NEW i \in Id, NEW c \in NewClass,
           NEW supports \in SUBSET Supports, NEW parents \in SUBSET Id,
           Insert(i, c, supports, parents)
    PROVE  RecordsInv'
<1> USE DEF RecordsInv
<1> DEFINE markers == UNION {rec[p].revoked_ancestors : p \in parents}
           new == [state |-> IF markers = {} THEN "Provisional" ELSE "NeedsRevalidation",
                   class |-> c, supports |-> supports, derived_from |-> parents,
                   revoked_ancestors |-> markers]
<1>1. rec' = [rec EXCEPT ![i] = new] /\ horizon' = horizon
  BY DEF Insert
<1>2. \A j \in Id : rec'[j] = IF j = i THEN new ELSE rec[j]
  BY <1>1 DEF TypeOK
<1>3. \A j \in Id : rec[j].derived_from \subseteq Id /\ rec[j].revoked_ancestors \subseteq Id
  BY DEF TypeOK, Record
<1>4. i \notin Held /\ i \notin parents /\ parents \subseteq Held
  BY DEF Insert, Held
<1>5. \A j \in Id : i \notin rec[j].derived_from
  BY <1>4 DEF ParentsAreHeld
<1>6. /\ new.state # "Absent" /\ new.state # "Revoked" /\ new.state # "Authoritative"
      /\ new.derived_from = parents /\ new.revoked_ancestors = markers
      /\ \A p \in parents : rec[p].revoked_ancestors \subseteq markers
      /\ \A a \in markers : \E p \in parents : a \in rec[p].revoked_ancestors
  OBVIOUS
<1> HIDE DEF markers, new
<1>7. ~Revoked(i) /\ \A p \in parents : ~Revoked(p)
  BY DEF Insert, Revoked
<1>8. MarkersFlow'
  <2> SUFFICES ASSUME NEW j \in Id, Live(rec'[j]), NEW p \in rec'[j].derived_from
               PROVE  /\ rec'[p].revoked_ancestors \subseteq rec'[j].revoked_ancestors
                      /\ rec'[p].state = "Revoked" => p \in rec'[j].revoked_ancestors
    BY DEF MarkersFlow, Revoked
  <2>1. CASE j = i
    BY <1>2, <1>4, <1>6, <1>7, <2>1 DEF Revoked
  <2>2. CASE j # i
    BY <1>2, <1>3, <1>5, <2>2 DEF MarkersFlow, Revoked
  <2> QED BY <2>1, <2>2
<1>9. MarkersAreRevoked'
  <2> SUFFICES ASSUME NEW j \in Id, NEW a \in rec'[j].revoked_ancestors
               PROVE  rec'[a].state = "Revoked"
    BY DEF MarkersAreRevoked, Revoked
  <2>1. PICK k \in Id : a \in rec[k].revoked_ancestors
    BY <1>2, <1>6
  <2>2. a \in Id /\ rec[a].state = "Revoked"
    BY <1>3, <2>1 DEF MarkersAreRevoked, Revoked
  <2> QED BY <1>2, <1>7, <2>2 DEF Revoked
<1>10. ParentsAreHeld'
  BY <1>2, <1>3, <1>4, <1>6 DEF ParentsAreHeld, Held
<1>11. AuthorityIsEarned'
  BY <1>1, <1>2, <1>6 DEF AuthorityIsEarned, Held
<1> QED BY <1>8, <1>9, <1>10, <1>11

\* A late derivation brings the parent's markers to the record and to all its dependents
\* (add_derivation, flag_inheriting).
LEMMA AddDerivationStep ==
    ASSUME RecordsInv, TypeOK', NEW i \in Id, NEW from \in Id, AddDerivation(i, from)
    PROVE  RecordsInv'
<1> USE DEF RecordsInv
<1> DEFINE linked == [rec[i] EXCEPT !.derived_from = @ \cup {from}]
           markers == rec[from].revoked_ancestors
<1>1. /\ linked \in Record /\ markers \in SUBSET Id
      /\ \A j \in Id : /\ rec[j] \in Record
                       /\ rec[j].derived_from \subseteq Id /\ rec[j].revoked_ancestors \subseteq Id
  BY DEF TypeOK, Record
<1>2. /\ linked.state = rec[i].state /\ linked.supports = rec[i].supports
      /\ linked.derived_from = rec[i].derived_from \cup {from}
      /\ linked.revoked_ancestors = rec[i].revoked_ancestors
  BY <1>1 DEF Record
<1>3. Live(rec[i]) /\ Live(linked) /\ from \in Held /\ ~Revoked(from) /\ horizon' = horizon
  BY <1>2 DEF AddDerivation, Live
<1>4. \A a \in markers : Revoked(a)
  BY DEF MarkersAreRevoked
<1>5. \/ markers = {} /\ rec' = [rec EXCEPT ![i] = linked]
      \/ rec' = [j \in Id |-> IF j = i THEN Flag(linked, markers)
                              ELSE IF j \in Dependents(i) THEN Flag(rec[j], markers)
                              ELSE rec[j]]
  BY DEF AddDerivation
<1>6. CASE markers = {} /\ rec' = [rec EXCEPT ![i] = linked]
  <2>1. \A j \in Id : rec'[j] = IF j = i THEN linked ELSE rec[j]
    BY <1>6 DEF TypeOK
  <2>2. \A j \in Id : /\ rec'[j].state = rec[j].state
                     /\ rec'[j].supports = rec[j].supports
                     /\ rec'[j].revoked_ancestors = rec[j].revoked_ancestors
                     /\ rec'[j].derived_from = IF j = i THEN rec[i].derived_from \cup {from}
                                              ELSE rec[j].derived_from
    BY <1>2, <2>1
  <2>3. rec[from].revoked_ancestors = {} /\ rec[from].state # "Revoked"
    BY <1>3, <1>6 DEF Revoked
  <2> HIDE DEF linked, markers
  <2>4. MarkersFlow'
    BY <1>1, <2>2, <2>3 DEF MarkersFlow, Revoked, Live
  <2>5. MarkersAreRevoked'
    BY <1>1, <2>2 DEF MarkersAreRevoked, Revoked
  <2>6. ParentsAreHeld'
    BY <1>1, <1>3, <2>2 DEF ParentsAreHeld, Held
  <2>7. AuthorityIsEarned'
    BY <1>3, <2>2 DEF AuthorityIsEarned, Held, HasCommittedSupport
  <2> QED BY <2>4, <2>5, <2>6, <2>7
<1>7. CASE rec' = [j \in Id |-> IF j = i THEN Flag(linked, markers)
                                ELSE IF j \in Dependents(i) THEN Flag(rec[j], markers)
                                ELSE rec[j]]
  <2> HIDE DEF linked, markers
  <2> DEFINE Marked == Dependents(i) \cup {i}
  <2>1. \A j \in Id : rec'[j] = IF j = i THEN Flag(linked, markers)
                               ELSE IF j \in Dependents(i) THEN Flag(rec[j], markers)
                               ELSE rec[j]
    BY <1>7
  <2>2. ASSUME NEW j \in Id
        PROVE  /\ rec'[j].supports = rec[j].supports
               /\ rec'[j].derived_from = IF j = i THEN rec[i].derived_from \cup {from}
                                        ELSE rec[j].derived_from
               /\ ~(j \in Marked /\ Live(rec[j])) =>
                     /\ rec'[j].state = rec[j].state
                     /\ rec'[j].revoked_ancestors = rec[j].revoked_ancestors
               /\ j \in Marked /\ Live(rec[j]) =>
                     /\ rec'[j].state = "NeedsRevalidation"
                     /\ rec'[j].revoked_ancestors = rec[j].revoked_ancestors \cup markers
    <3>1. CASE j = i
      <4>1. rec'[i] = Flag(linked, markers) /\ Live(linked)
        BY <1>3, <2>1
      <4>2. /\ rec'[i].derived_from = linked.derived_from
            /\ rec'[i].supports = linked.supports
            /\ rec'[i].state = "NeedsRevalidation"
            /\ rec'[i].revoked_ancestors = linked.revoked_ancestors \cup markers
        BY <1>1, <4>1, FlagEffect
      <4> QED BY <1>2, <1>3, <3>1, <4>2
    <3>2. CASE j # i
      BY <1>1, <2>1, <3>2, FlagEffect
    <3> QED BY <3>1, <3>2
  <2>3. \A j \in Id : Live(rec'[j]) => Live(rec[j])
    BY <2>2 DEF Live
  <2>4. \A j \in Id : (rec'[j].state = "Revoked" <=> rec[j].state = "Revoked")
                     /\ (rec'[j].state = "Absent" <=> rec[j].state = "Absent")
    BY <2>2 DEF Live
  <2>5. \A j \in Id, p \in Marked : Live(rec[j]) /\ p \in rec[j].derived_from => j \in Marked
    BY DependentsClosed DEF Live, Held
  <2> HIDE DEF Marked
  <2>6. MarkersFlow'
    <3> SUFFICES ASSUME NEW j \in Id, Live(rec'[j]), NEW p \in rec'[j].derived_from
                 PROVE  /\ rec'[p].revoked_ancestors \subseteq rec'[j].revoked_ancestors
                        /\ rec'[p].state = "Revoked" => p \in rec'[j].revoked_ancestors
      BY DEF MarkersFlow, Revoked
    <3>1. Live(rec[j]) /\ p \in Id
      BY <1>1, <2>2, <2>3
    <3>2. CASE p \in rec[j].derived_from
      <4>1. /\ rec[p].revoked_ancestors \subseteq rec[j].revoked_ancestors
            /\ rec[p].state = "Revoked" => p \in rec[j].revoked_ancestors
        BY <3>1, <3>2 DEF MarkersFlow, Revoked
      <4>2. rec[j].revoked_ancestors \subseteq rec'[j].revoked_ancestors
        BY <2>2
      <4>3. p \in Marked => markers \subseteq rec'[j].revoked_ancestors
        BY <2>2, <2>5, <3>1, <3>2
      <4>4. rec'[p].revoked_ancestors \subseteq rec[p].revoked_ancestors \cup markers
        BY <2>2, <3>1
      <4>5. p \notin Marked => rec'[p].revoked_ancestors = rec[p].revoked_ancestors
        BY <2>2, <3>1
      <4> QED BY <2>4, <3>1, <4>1, <4>2, <4>3, <4>4, <4>5
    <3>3. CASE p \notin rec[j].derived_from
      <4>1. j = i /\ p = from
        BY <2>2, <3>3
      <4>2. i \in Marked
        BY DEF Marked
      <4>3. rec'[i].revoked_ancestors = rec[i].revoked_ancestors \cup markers
        BY <1>3, <2>2, <4>2
      <4>4. rec'[from].revoked_ancestors \subseteq rec[from].revoked_ancestors \cup markers
        BY <2>2 DEF markers
      <4>5. rec'[from].state # "Revoked"
        BY <1>3, <2>4 DEF Revoked
      <4> QED BY <4>1, <4>3, <4>4, <4>5 DEF markers
    <3> QED BY <3>2, <3>3
  <2>7. MarkersAreRevoked'
    <3> SUFFICES ASSUME NEW j \in Id, NEW a \in rec'[j].revoked_ancestors
                 PROVE  rec'[a].state = "Revoked"
      BY DEF MarkersAreRevoked, Revoked
    <3>1. a \in rec[j].revoked_ancestors \/ a \in markers
      BY <2>2
    <3>2. a \in Id /\ rec[a].state = "Revoked"
      BY <1>1, <1>4, <3>1 DEF MarkersAreRevoked, Revoked
    <3> QED BY <2>4, <3>2
  <2>8. ParentsAreHeld'
    BY <1>1, <1>3, <2>2, <2>4 DEF ParentsAreHeld, Held
  <2>9. AuthorityIsEarned'
    BY <1>3, <2>2, <2>4 DEF AuthorityIsEarned, Held, HasCommittedSupport
  <2> QED BY <2>6, <2>7, <2>8, <2>9
<1> QED BY <1>5, <1>6, <1>7

\* A revocation marks every dependent that is live (revoke, dependents_closure).
LEMMA RevokeStep ==
    ASSUME RecordsInv, TypeOK', NEW i \in Id, Revoke(i)
    PROVE  RecordsInv'
<1> USE DEF RecordsInv
<1> DEFINE Marked == Dependents(i) \cup {i}
           revoked == [rec[i] EXCEPT !.state = "Revoked"]
<1>1. \A j \in Id : /\ rec[j] \in Record
                    /\ rec[j].derived_from \subseteq Id /\ rec[j].revoked_ancestors \subseteq Id
  BY DEF TypeOK, Record
<1>2. /\ revoked.state = "Revoked" /\ revoked.supports = rec[i].supports
      /\ revoked.derived_from = rec[i].derived_from
      /\ revoked.revoked_ancestors = rec[i].revoked_ancestors
  BY <1>1 DEF Record
<1>3. /\ i \in Held /\ horizon' = horizon
      /\ rec' = [j \in Id |-> IF j = i THEN revoked
                              ELSE IF j \in Dependents(i) THEN Flag(rec[j], {i}) ELSE rec[j]]
  BY DEF Revoke
<1> HIDE DEF revoked
<1>4. ASSUME NEW j \in Id
      PROVE  /\ rec'[j].supports = rec[j].supports
             /\ rec'[j].derived_from = rec[j].derived_from
             /\ j = i => rec'[j].state = "Revoked"
             /\ ~(j # i /\ j \in Marked /\ Live(rec[j])) =>
                   /\ j # i => rec'[j].state = rec[j].state
                   /\ rec'[j].revoked_ancestors = rec[j].revoked_ancestors
             /\ j # i /\ j \in Marked /\ Live(rec[j]) =>
                   /\ rec'[j].state = "NeedsRevalidation"
                   /\ rec'[j].revoked_ancestors = rec[j].revoked_ancestors \cup {i}
  <2>1. CASE j = i
    BY <1>2, <1>3, <2>1
  <2>2. CASE j # i
    BY <1>1, <1>3, <2>2, FlagEffect
  <2> QED BY <2>1, <2>2
<1>5. \A j \in Id : Live(rec'[j]) => j # i /\ Live(rec[j])
  BY <1>4 DEF Live
<1>6. \A j \in Id : /\ j = i \/ rec[j].state = "Revoked" => rec'[j].state = "Revoked"
                    /\ rec'[j].state = "Revoked" => j = i \/ rec[j].state = "Revoked"
                    /\ (rec'[j].state = "Absent" <=> rec[j].state = "Absent")
  BY <1>3, <1>4 DEF Live, Held
<1>7. \A j \in Id, p \in Marked : Live(rec[j]) /\ p \in rec[j].derived_from => j \in Marked
  BY DependentsClosed DEF Live, Held
<1>8. i \in Marked
  OBVIOUS
<1> HIDE DEF Marked
<1>9. MarkersFlow'
  <2> SUFFICES ASSUME NEW j \in Id, Live(rec'[j]), NEW p \in rec'[j].derived_from
               PROVE  /\ rec'[p].revoked_ancestors \subseteq rec'[j].revoked_ancestors
                      /\ rec'[p].state = "Revoked" => p \in rec'[j].revoked_ancestors
    BY DEF MarkersFlow, Revoked
  <2>1. Live(rec[j]) /\ j # i /\ p \in rec[j].derived_from /\ p \in Id
    BY <1>1, <1>4, <1>5
  <2>2. /\ rec[p].revoked_ancestors \subseteq rec[j].revoked_ancestors
        /\ rec[p].state = "Revoked" => p \in rec[j].revoked_ancestors
    BY <2>1 DEF MarkersFlow, Revoked
  <2>3. rec[j].revoked_ancestors \subseteq rec'[j].revoked_ancestors
    BY <1>4
  <2>4. p \in Marked => i \in rec'[j].revoked_ancestors
    BY <1>4, <1>7, <2>1
  <2>5. /\ rec'[p].revoked_ancestors \subseteq rec[p].revoked_ancestors \cup {i}
        /\ p \notin Marked => rec'[p].revoked_ancestors = rec[p].revoked_ancestors
    BY <1>4, <2>1
  <2> QED BY <1>6, <1>8, <2>1, <2>2, <2>3, <2>4, <2>5
<1>10. MarkersAreRevoked'
  <2> SUFFICES ASSUME NEW j \in Id, NEW a \in rec'[j].revoked_ancestors
               PROVE  rec'[a].state = "Revoked"
    BY DEF MarkersAreRevoked, Revoked
  <2>1. a \in rec[j].revoked_ancestors \/ a = i
    BY <1>4
  <2>2. CASE a = i
    BY <1>4, <2>2
  <2>3. CASE a \in rec[j].revoked_ancestors
    <3>1. a \in Id /\ rec[a].state = "Revoked"
      BY <1>1, <2>3 DEF MarkersAreRevoked, Revoked
    <3>2. ~Live(rec[a])
      BY <3>1 DEF Live
    <3> QED BY <1>4, <3>1, <3>2
  <2> QED BY <2>1, <2>2, <2>3
<1>11. ParentsAreHeld'
  BY <1>1, <1>4, <1>6 DEF ParentsAreHeld, Held
<1>12. AuthorityIsEarned'
  <2> SUFFICES ASSUME NEW j \in Id, rec'[j].state = "Authoritative"
               PROVE  HasCommittedSupport(rec[j], horizon)' /\ rec'[j].revoked_ancestors = {}
    BY DEF AuthorityIsEarned, Held
  <2>1. /\ rec[j].state = "Authoritative" /\ rec'[j].supports = rec[j].supports
        /\ rec'[j].revoked_ancestors = rec[j].revoked_ancestors
    BY <1>4
  <2> QED BY <1>3, <2>1 DEF AuthorityIsEarned, Held, HasCommittedSupport
<1> QED BY <1>9, <1>10, <1>11, <1>12

\* The steps that touch no lineage: support, horizon, transitions, promotion, retention.
LEMMA OtherSteps ==
    ASSUME RecordsInv, TypeOK'
    PROVE  /\ \A i \in Id, s \in Supports : AddSupport(i, s) => RecordsInv'
           /\ \A i \in Id, to \in State : Transition(i, to) => RecordsInv'
           /\ \A i \in Id, need \in 1..2 : Promote(i, need) => RecordsInv'
           /\ \A r \in 0..MaxRevision : AdvanceCommittedRevision(r) => RecordsInv'
           /\ \A aged, contradicted \in SUBSET Id :
                 ApplyRetention(aged, contradicted) => RecordsInv'
<1> USE DEF RecordsInv
<1>1. \A j \in Id : rec[j] \in Record
  BY DEF TypeOK
<1>2. ASSUME NEW i \in Id, NEW s \in Supports, AddSupport(i, s) PROVE RecordsInv'
  <2>1. ASSUME NEW j \in Id
        PROVE  /\ Quiet(j) /\ rec'[j].state = rec[j].state
               /\ rec[j].supports \subseteq rec'[j].supports
    BY <1>1, <1>2 DEF AddSupport, Quiet, Record, Live, TypeOK
  <2>2. AuthorityIsEarned'
    BY <1>2, <2>1 DEF AuthorityIsEarned, Held, HasCommittedSupport, AddSupport, Quiet
  <2> QED BY <2>1, <2>2, QuietStep
<1>3. ASSUME NEW i \in Id, NEW to \in State, Transition(i, to) PROVE RecordsInv'
  <2> DEFINE new == IF to = "Authoritative" THEN MadeAuthoritative(rec[i])
                    ELSE [rec[i] EXCEPT !.state = to]
  <2>1. /\ new.state = to /\ new.supports = rec[i].supports
        /\ new.derived_from = rec[i].derived_from
        /\ to # "Authoritative" => new.revoked_ancestors = rec[i].revoked_ancestors
        /\ to = "Authoritative" => new.revoked_ancestors = {}
    BY <1>1, AuthorityEffect, Restated
  <2>2. to = "Authoritative" =>
            rec[i].revoked_ancestors = {} /\ HasCommittedSupport(rec[i], horizon)
    BY <1>3, GateIsClean DEF Transition
  <2>3. Live(rec[i]) /\ to # "Revoked" /\ to # "Absent"
    BY <1>3 DEF Transition, CanTransitionTo, Live, State
  <2>4. /\ \A j \in Id : rec'[j] = IF j = i THEN new ELSE rec[j]
        /\ horizon' = horizon
    BY <1>3 DEF Transition, TypeOK
  <2> HIDE DEF new
  <2>5. \A j \in Id : Quiet(j)
    BY <2>1, <2>2, <2>3, <2>4 DEF Quiet, Live
  <2>6. AuthorityIsEarned'
    BY <2>1, <2>2, <2>4 DEF AuthorityIsEarned, Held, HasCommittedSupport
  <2> QED BY <2>5, <2>6, QuietStep
<1>4. ASSUME NEW i \in Id, NEW need \in 1..2, Promote(i, need) PROVE RecordsInv'
  <2> DEFINE r == IF rec[i].state = "Authoritative" THEN rec[i] ELSE MadeAuthoritative(rec[i])
             new == [r EXCEPT !.class = "semantic"]
  <2>1. /\ r \in Record /\ r.state = "Authoritative" /\ r.supports = rec[i].supports
        /\ r.derived_from = rec[i].derived_from
        /\ rec[i].state = "Authoritative" => r.revoked_ancestors = rec[i].revoked_ancestors
        /\ rec[i].state # "Authoritative" => r.revoked_ancestors = {}
    BY <1>1, AuthorityEffect
  <2>2. rec[i].revoked_ancestors = {} /\ HasCommittedSupport(rec[i], horizon)
    <3>1. CASE rec[i].state = "Authoritative"
      BY <3>1 DEF AuthorityIsEarned, Held
    <3>2. CASE rec[i].state # "Authoritative"
      BY <1>4, <3>2, GateIsClean DEF Promote
    <3> QED BY <3>1, <3>2
  <2>3. Live(rec[i])
    BY <1>4 DEF Promote
  <2>4. /\ \A j \in Id : rec'[j] = IF j = i THEN new ELSE rec[j]
        /\ horizon' = horizon
    BY <1>4 DEF Promote, TypeOK
  <2> HIDE DEF r
  <2>5. /\ new.state = "Authoritative" /\ new.supports = rec[i].supports
        /\ new.derived_from = rec[i].derived_from /\ new.revoked_ancestors = {}
    BY <2>1, <2>2, Reclassed DEF Class
  <2> HIDE DEF new
  <2>6. \A j \in Id : Quiet(j)
    BY <2>2, <2>3, <2>4, <2>5 DEF Quiet, Live
  <2>7. AuthorityIsEarned'
    BY <2>2, <2>4, <2>5 DEF AuthorityIsEarned, Held, HasCommittedSupport
  <2> QED BY <2>6, <2>7, QuietStep
<1>5. ASSUME NEW r \in 0..MaxRevision, AdvanceCommittedRevision(r) PROVE RecordsInv'
  <2>1. rec' = rec /\ horizon \in Nat /\ horizon' \in Nat /\ horizon <= horizon'
    BY <1>5, RecordAssumption DEF AdvanceCommittedRevision, TypeOK
  <2>2. \A j \in Id : Quiet(j)
    BY <2>1 DEF Quiet
  <2>3. AuthorityIsEarned'
    BY <1>1, <2>1, CommittedStays DEF AuthorityIsEarned, Held
  <2> QED BY <2>2, <2>3, QuietStep
<1>6. ASSUME NEW aged \in SUBSET Id, NEW contradicted \in SUBSET Id,
             ApplyRetention(aged, contradicted)
      PROVE  RecordsInv'
  <2>1. ASSUME NEW j \in Id
        PROVE  /\ Verdict(j, aged, contradicted) \in State \cup {"Absent"}
               /\ Verdict(j, aged, contradicted) # rec[j].state =>
                     /\ Live(rec[j])
                     /\ Verdict(j, aged, contradicted) \in {"NeedsRevalidation", "Retired"}
    BY <1>1 DEF Verdict, Record, State, Live
  <2>2. ASSUME NEW j \in Id
        PROVE  /\ rec'[j].state = Verdict(j, aged, contradicted)
               /\ rec'[j].supports = rec[j].supports
               /\ rec'[j].derived_from = rec[j].derived_from
               /\ rec'[j].revoked_ancestors = rec[j].revoked_ancestors
    <3>1. rec'[j] = [rec[j] EXCEPT !.state = Verdict(j, aged, contradicted)]
      BY <1>6 DEF ApplyRetention
    <3> QED BY <1>1, <2>1, <3>1, Restated
  <2>3. \A j \in Id : Quiet(j)
    BY <2>1, <2>2 DEF Quiet, Live
  <2>4. \A j \in Id : rec'[j].state = "Authoritative" => rec[j].state = "Authoritative"
    BY <2>1, <2>2
  <2>5. AuthorityIsEarned'
    BY <1>6, <2>2, <2>4 DEF AuthorityIsEarned, Held, HasCommittedSupport, ApplyRetention
  <2> QED BY <2>3, <2>5, QuietStep
<1> QED BY <1>2, <1>3, <1>4, <1>5, <1>6

-----------------------------------------------------------------------------
(* MemoryRecords: theorems *)

\* The store starts with no records.
LEMMA RecordsInit == Init => RecordsInv
<1> SUFFICES ASSUME Init PROVE RecordsInv
  OBVIOUS
<1>1. TypeOK
  BY RecordAssumption DEF Init, TypeOK, Record, Class
<1>2. \A i \in Id : /\ rec[i].state = "Absent" /\ rec[i].derived_from = {}
                   /\ rec[i].revoked_ancestors = {}
  BY DEF Init
<1> QED
  BY <1>1, <1>2 DEF RecordsInv, MarkersFlow, AuthorityIsEarned, MarkersAreRevoked,
                    ParentsAreHeld, Held, Live

\* Every operation of the store keeps the invariant.
LEMMA RecordsStep == RecordsInv /\ [Next]_vars => RecordsInv'
<1> SUFFICES ASSUME RecordsInv, [Next]_vars PROVE RecordsInv'
  OBVIOUS
<1>1. TypeOK'
  BY TypeStep DEF RecordsInv
<1>2. CASE UNCHANGED vars
  BY <1>2 DEF vars, RecordsInv, TypeOK, MarkersFlow, AuthorityIsEarned, MarkersAreRevoked,
              ParentsAreHeld, Held, Revoked
<1>3. CASE Next
  BY <1>1, <1>3, InsertStep, AddDerivationStep, RevokeStep, OtherSteps DEF Next
<1> QED BY <1>2, <1>3

\* Every reachable store is well typed, and the horizon stays within its bound.
THEOREM RecordsTypeCorrect == Spec => []TypeOK
<1>1. RecordsInv => TypeOK
  BY DEF RecordsInv
<1> QED BY <1>1, RecordsInit, RecordsStep, PTL DEF Spec

\* Whatever is revoked above a live record, in any order of derivations, revocations and
\* revalidations, and through cycles, its markers say so (revoke, add_derivation, insert,
\* authority_gate).
THEOREM RevocationsFlow == Spec => []MarkersFlow
<1>1. RecordsInv => MarkersFlow
  BY DEF RecordsInv
<1> QED BY <1>1, RecordsInit, RecordsStep, PTL DEF Spec

\* Authority always rests on a committed observation and on no revoked ancestry
\* (transition, promote, apply_retention).
THEOREM AuthorityAlwaysEarned == Spec => []AuthorityIsEarned
<1>1. RecordsInv => AuthorityIsEarned
  BY DEF RecordsInv
<1> QED BY <1>1, RecordsInit, RecordsStep, PTL DEF Spec

\* One step of the store leaves a revoked record as it is and brings no retired one back.
LEMMA TerminalStep ==
    ASSUME TypeOK, [Next]_vars
    PROVE  \A i \in Id : /\ Revoked(i) => rec'[i] = rec[i]
                         /\ rec[i].state = "Retired" => rec'[i].state \in {"Retired", "Revoked"}
<1> SUFFICES ASSUME NEW i \in Id, rec[i].state \in {"Revoked", "Retired"}
             PROVE  \/ rec'[i] = rec[i]
                    \/ rec[i].state = "Retired" /\ rec'[i].state = "Revoked"
  BY DEF Revoked
<1>1. rec[i] \in Record /\ ~Live(rec[i]) /\ rec[i].state # "Absent" /\ rec \in [Id -> Record]
  BY DEF TypeOK, Live
<1>2. CASE UNCHANGED vars
  BY <1>2 DEF vars
<1>3. ASSUME NEW j \in Id, NEW c \in NewClass, NEW supports \in SUBSET Supports,
             NEW parents \in SUBSET Id, Insert(j, c, supports, parents)
      PROVE  rec'[i] = rec[i]
  BY <1>1, <1>3 DEF Insert
<1>4. ASSUME NEW j \in Id, NEW s \in Supports, AddSupport(j, s)
      PROVE  rec'[i] = rec[i]
  BY <1>1, <1>4 DEF AddSupport
<1>5. ASSUME NEW j \in Id, NEW from \in Id, AddDerivation(j, from)
      PROVE  rec'[i] = rec[i]
  BY <1>1, <1>5 DEF AddDerivation, Flag
<1>6. ASSUME NEW j \in Id, Revoke(j)
      PROVE  \/ rec'[i] = rec[i]
             \/ rec[i].state = "Retired" /\ rec'[i].state = "Revoked"
  <2>1. CASE i = j
    <3>1. rec'[i] = [rec[i] EXCEPT !.state = "Revoked"] /\ rec[i].state = "Retired"
      BY <1>6, <2>1 DEF Revoke, Revoked
    <3> QED BY <1>1, <3>1 DEF Record
  <2>2. CASE i # j
    BY <1>1, <1>6, <2>2 DEF Revoke, Flag
  <2> QED BY <2>1, <2>2
<1>7. ASSUME NEW j \in Id, NEW to \in State, Transition(j, to)
      PROVE  rec'[i] = rec[i]
  <2>1. i # j
    BY <1>7 DEF Transition, CanTransitionTo
  <2> QED BY <1>1, <1>7, <2>1 DEF Transition
<1>8. ASSUME NEW j \in Id, NEW need \in 1..2, Promote(j, need)
      PROVE  rec'[i] = rec[i]
  BY <1>1, <1>8 DEF Promote
<1>9. ASSUME NEW r \in 0..MaxRevision, AdvanceCommittedRevision(r)
      PROVE  rec'[i] = rec[i]
  BY <1>9 DEF AdvanceCommittedRevision
<1>10. ASSUME NEW aged \in SUBSET Id, NEW contradicted \in SUBSET Id,
              ApplyRetention(aged, contradicted)
       PROVE  rec'[i] = rec[i]
  <2>1. Verdict(i, aged, contradicted) = rec[i].state
    BY <1>1 DEF Verdict
  <2>2. rec'[i] = [rec[i] EXCEPT !.state = rec[i].state]
    BY <1>10, <2>1 DEF ApplyRetention
  <2> QED BY <1>1, <2>2 DEF Record
<1> QED BY <1>2, <1>3, <1>4, <1>5, <1>6, <1>7, <1>8, <1>9, <1>10 DEF Next

\* Revoked is for ever, and nothing brings a retired record back (can_transition_to, and the
\* is_terminal checks of flag_inheriting, revoke, promote and apply_retention).
THEOREM RevocationIsForEver == Spec => TerminalStays
<1>1. Spec => []TypeOK
  BY RecordsTypeCorrect
<1>2. TypeOK /\ [Next]_vars =>
        [\A i \in Id : /\ Revoked(i) => rec'[i] = rec[i]
                       /\ rec[i].state = "Retired" => rec'[i].state \in {"Retired", "Revoked"}]_vars
  BY TerminalStep
<1> QED BY <1>1, <1>2, PTL DEF Spec, TerminalStays

-----------------------------------------------------------------------------
(* Knowledge *)

KnowledgeInv == KnowledgeTypeOK /\ ValidRestsOnValid

\* The clean takeover, as what one step may do.
CleanStep ==
    \A i \in ObjectId, old, new \in Gen :
        /\ Invalid(<<i, old>>) /\ <<i, old>> \in HeldObjects => Invalid(<<i, old>>)'
        /\ old # new /\ current[i] = old /\ current'[i] = new =>
              Invalid(<<i, old>>)' /\ ~Invalid(<<i, new>>)'

-----------------------------------------------------------------------------
(* Knowledge: operators *)

\* The cascade reaches the generation it starts from and, with any generation it reaches,
\* every held one that depends on it (invalidation_closure).
LEMMA ClosureClosed ==
    ASSUME NEW k
    PROVE  /\ Closure(k) \subseteq Key
           /\ k \in Key => k \in Closure(k)
           /\ \A j \in HeldObjects : objects[j].deps \cap Closure(k) # {} => j \in Closure(k)
<1>1. Closure(k) \subseteq Key /\ (k \in Key => k \in Closure(k))
  BY DEF Closure
<1>2. ASSUME NEW j \in HeldObjects, objects[j].deps \cap Closure(k) # {}
      PROVE  j \in Closure(k)
  <2>1. PICK p \in Closure(k) : p \in objects[j].deps
    BY <1>2
  <2>2. SUFFICES ASSUME NEW S \in SUBSET Key, k \in S,
                        \A d \in HeldObjects : objects[d].deps \cap S # {} => d \in S
                 PROVE  j \in S
    BY DEF Closure, HeldObjects
  <2>3. p \in S
    BY <2>1, <2>2 DEF Closure
  <2> QED BY <2>1, <2>2, <2>3
<1> QED BY <1>1, <1>2

\* What a caller builds is an object, told apart from no entry.
LEMMA BuildableIsObject ==
    ASSUME NEW k \in Key, NEW o \in Buildable(k)
    PROVE  o \in Object /\ o # Absent
<1>1. k[2] # 1 => <<k[1], k[2] - 1>> \in Key
  BY KnowledgeAssumption DEF Key, Gen
<1>2. o.supersedes \in Key \cup {NoKey}
  BY <1>1 DEF Buildable
<1> QED BY <1>2, KnowledgeAssumption DEF Buildable, Object

\* The stages a generation passes are lifecycles, and none of them is Invalidated.
LEMMA HotIsValid ==
    /\ "Hot" \in KnowledgeLifecycle /\ "Invalidated" \in KnowledgeLifecycle
    /\ "Hot" # Absent /\ "Invalidated" # Absent
<1>1. 1 \in 1..MaxStage /\ Stages[1] = "Hot"
  BY KnowledgeAssumption DEF Stages
<1> QED BY <1>1, KnowledgeAssumption DEF KnowledgeLifecycle

\* A lifecycle step never leaves Invalidated except to Invalidated (allowed transitions).
LEMMA InvalidIsFinal ==
    ASSUME NEW from, NEW to, LifecycleAllowed(from, to), to # "Invalidated"
    PROVE  from # "Invalidated"
<1>1. \A n \in 1..4 : Stages[n] # "Invalidated"
  BY DEF Stages
<1> QED BY <1>1 DEF LifecycleAllowed

-----------------------------------------------------------------------------
(* Knowledge: the two kinds of steps *)

\* The objects stay, and exactly the generations of S become invalid.
Cascades(S) ==
    /\ objects' = objects /\ admitted' = admitted
    /\ \A j \in Key : Invalid(j)' <=> j \in S \/ Invalid(j)

\* An invalidation that is closed under dependence leaves no valid dependent behind.
LEMMA CascadeKeeps ==
    ASSUME KnowledgeInv, NEW S \in SUBSET Key, Cascades(S),
           \A j \in HeldObjects : objects[j].deps \cap S # {} => j \in S
    PROVE  ValidRestsOnValid'
<1> SUFFICES ASSUME NEW k \in admitted, ~Invalid(k)', NEW d \in objects[k].deps
             PROVE  ~Invalid(d)'
  BY DEF ValidRestsOnValid, Cascades
<1>1. k \in HeldObjects /\ k \in Key /\ d \in Key
  BY DEF KnowledgeInv, KnowledgeTypeOK, HeldObjects, Object
<1>2. k \notin S /\ ~Invalid(k)
  BY <1>1 DEF Cascades
<1>3. ~Invalid(d)
  BY <1>2 DEF KnowledgeInv, ValidRestsOnValid
<1>4. d \notin S
  BY <1>1, <1>2
<1> QED BY <1>1, <1>3, <1>4 DEF Cascades

\* A generation that is recorded as invalid is invalid, and one outside the cascade is what it
\* was (apply_invalidation).
LEMMA InvalidatedCascades ==
    ASSUME KnowledgeTypeOK, NEW S \in SUBSET Key, lifecycle' = Invalidated(S),
           objects' = objects, admitted' = admitted
    PROVE  Cascades(S) /\ lifecycle' \in [Key -> KnowledgeLifecycle \cup {Absent}]
<1>1. lifecycle' \in [Key -> KnowledgeLifecycle \cup {Absent}]
  BY HotIsValid DEF Invalidated, KnowledgeTypeOK
<1>2. ASSUME NEW j \in Key PROVE Invalid(j)' <=> j \in S \/ Invalid(j)
  BY HotIsValid DEF Invalid, LifecycleOf, Invalidated, HeldObjects
<1> QED BY <1>1, <1>2 DEF Cascades

\* Activation invalidates what rests on the generation it replaces and nothing else
\* (activate_generation).
LEMMA ActivateCascades ==
    ASSUME KnowledgeTypeOK, NEW k \in Key, ActivateGeneration(k)
    PROVE  \E S \in SUBSET Key :
             /\ Cascades(S) /\ k \notin S
             /\ \A j \in HeldObjects : objects[j].deps \cap S # {} => j \in S
             /\ \A old \in Gen : old # k[2] /\ current[k[1]] = old => <<k[1], old>> \in S
             /\ lifecycle' \in [Key -> KnowledgeLifecycle \cup {Absent}]
<1> DEFINE previous == <<k[1], current[k[1]]>>
           S == IF previous = k THEN {} ELSE Closure(previous)
<1>1. S \in SUBSET Key /\ \A j \in HeldObjects : objects[j].deps \cap S # {} => j \in S
  BY ClosureClosed
<1>2. ASSUME NEW old \in Gen, old # k[2], current[k[1]] = old PROVE <<k[1], old>> \in S
  <2>1. previous \in Key /\ previous # k
    BY <1>2 DEF Key
  <2> QED BY <1>2, <2>1, ClosureClosed
<1>3. /\ k \in HeldObjects /\ objects[k].lifecycle \in KnowledgeLifecycle /\ ~Invalid(k)
      /\ objects[k].lifecycle # Absent
      /\ lifecycle[k] = Absent => objects[k].lifecycle # "Invalidated"
  BY KnowledgeAssumption
  DEF ActivateGeneration, KnowledgeTypeOK, HeldObjects, Object, Invalid, LifecycleOf
<1>4. /\ k \notin S /\ objects' = objects /\ admitted' = admitted
      /\ lifecycle' = [j \in Key |-> IF j \in S THEN "Invalidated"
                                     ELSE IF j = k /\ lifecycle[j] = Absent
                                          THEN objects[k].lifecycle
                                     ELSE lifecycle[j]]
  BY DEF ActivateGeneration
<1> HIDE DEF S
<1>5. lifecycle' \in [Key -> KnowledgeLifecycle \cup {Absent}]
  BY <1>3, <1>4, HotIsValid DEF KnowledgeTypeOK
<1>6. ASSUME NEW j \in Key PROVE Invalid(j)' <=> j \in S \/ Invalid(j)
  <2>1. CASE j \in S
    BY <1>4, <2>1, HotIsValid DEF Invalid, LifecycleOf
  <2>2. CASE j \notin S /\ ~(j = k /\ lifecycle[j] = Absent)
    BY <1>4, <2>2 DEF Invalid, LifecycleOf, HeldObjects
  <2>3. CASE j \notin S /\ j = k /\ lifecycle[j] = Absent
    BY <1>3, <1>4, <2>3, HotIsValid DEF Invalid, LifecycleOf, HeldObjects
  <2> QED BY <2>1, <2>2, <2>3
<1>7. Cascades(S)
  BY <1>4, <1>6 DEF Cascades
<1> QED BY <1>1, <1>2, <1>4, <1>5, <1>7

\* Demotion records another valid stage of the generation that is current (transition).
LEMMA DemotionCascades ==
    ASSUME KnowledgeTypeOK, NEW i \in ObjectId, NEW to \in KnowledgeLifecycle,
           TransitionObject(i, to), to # "Invalidated"
    PROVE  Cascades({}) /\ lifecycle' \in [Key -> KnowledgeLifecycle \cup {Absent}]
<1> DEFINE k == <<i, current[i]>>
<1>1. k \in Key /\ ~Invalid(k) /\ lifecycle' = [lifecycle EXCEPT ![k] = to]
  BY InvalidIsFinal DEF TransitionObject, KnowledgeTypeOK, HeldObjects, Invalid
<1>2. objects' = objects /\ admitted' = admitted
  BY DEF TransitionObject
<1>3. to # Absent
  BY KnowledgeAssumption
<1> HIDE DEF k
<1>4. lifecycle' \in [Key -> KnowledgeLifecycle \cup {Absent}]
  BY <1>1 DEF KnowledgeTypeOK
<1>5. ASSUME NEW j \in Key PROVE Invalid(j)' <=> Invalid(j)
  <2>1. CASE j = k
    BY <1>1, <1>3, <2>1 DEF Invalid, LifecycleOf, KnowledgeTypeOK
  <2>2. CASE j # k
    BY <1>1, <1>2, <2>2 DEF Invalid, LifecycleOf, KnowledgeTypeOK, HeldObjects
  <2> QED BY <2>1, <2>2
<1> QED BY <1>2, <1>4, <1>5 DEF Cascades

\* Registration adds a generation and invalidates none (register_object).
LEMMA RegisterEffect ==
    ASSUME KnowledgeTypeOK, NEW k \in Key, NEW o \in Object, RegisterObject(k, o),
           admitted' \subseteq admitted \cup {k}
    PROVE  /\ KnowledgeTypeOK' /\ (k \in HeldObjects => objects[k] = o)
           /\ objects'[k] = o
           /\ \A j \in Key \ {k} : objects'[j] = objects[j] /\ (Invalid(j)' <=> Invalid(j))
           /\ \A j \in Key : Invalid(j)' => Invalid(j)
<1>1. /\ k \in HeldObjects => objects[k] = o
      /\ objects' = [objects EXCEPT ![k] = o]
      /\ raw' = raw /\ lifecycle' = lifecycle /\ o # Absent
      /\ current' = IF current[k[1]] = 0 THEN [current EXCEPT ![k[1]] = k[2]] ELSE current
  BY KnowledgeAssumption DEF RegisterObject, HeldObjects
<1>2. objects'[k] = o /\ \A j \in Key \ {k} : objects'[j] = objects[j]
  BY <1>1 DEF KnowledgeTypeOK
<1>3. HeldObjects' = HeldObjects \cup {k}
  BY <1>1, <1>2 DEF HeldObjects
<1>4. k[1] \in ObjectId /\ k[2] \in 1..MaxGen /\ k = <<k[1], k[2]>> /\ k[2] \in 0..MaxGen
  BY KnowledgeAssumption DEF Key, Gen
<1>5. current' \in [ObjectId -> 0..MaxGen]
  BY <1>1, <1>4 DEF KnowledgeTypeOK
<1>6. \A i \in ObjectId : current'[i] # 0 => <<i, current'[i]>> \in HeldObjects'
  BY <1>1, <1>3, <1>4 DEF KnowledgeTypeOK
<1>7. KnowledgeTypeOK'
  BY <1>1, <1>2, <1>3, <1>5, <1>6 DEF KnowledgeTypeOK
<1>8. \A j \in Key \ {k} : Invalid(j)' <=> Invalid(j)
  BY <1>1, <1>2 DEF Invalid, LifecycleOf, HeldObjects
<1>9. Invalid(k)' => Invalid(k)
  BY <1>1, <1>2 DEF Invalid, LifecycleOf, HeldObjects
<1> QED BY <1>1, <1>2, <1>7, <1>8, <1>9

\* A registration that admits only what rests on valid generations keeps the invariant, and a
\* takeover needs more than a registration.
LEMMA RegisterKeeps ==
    ASSUME KnowledgeInv, NEW k \in Key, NEW o \in Object,
           RegisterObject(k, o), admitted' \subseteq admitted \cup {k},
           k \in admitted' => k \in admitted \/ \A d \in o.deps : ~Invalid(d)
    PROVE  KnowledgeInv' /\ CleanStep
<1>1. /\ KnowledgeTypeOK' /\ (k \in HeldObjects => objects[k] = o)
      /\ objects'[k] = o
      /\ \A j \in Key \ {k} : objects'[j] = objects[j] /\ (Invalid(j)' <=> Invalid(j))
      /\ \A j \in Key : Invalid(j)' => Invalid(j)
  BY RegisterEffect DEF KnowledgeInv
<1>2. k \in HeldObjects => \A j \in Key : objects'[j] = objects[j] /\ (Invalid(j)' <=> Invalid(j))
  BY <1>1 DEF RegisterObject, Invalid, LifecycleOf, HeldObjects
<1>3. ValidRestsOnValid'
  <2> SUFFICES ASSUME NEW j \in admitted', ~Invalid(j)', NEW d \in objects'[j].deps
               PROVE  ~Invalid(d)'
    BY DEF ValidRestsOnValid
  <2>1. j \in Key /\ d \in Key
    BY <1>1 DEF KnowledgeTypeOK, HeldObjects, Object
  <2>2. CASE k \in HeldObjects /\ j \in admitted
    BY <1>2, <2>1, <2>2 DEF KnowledgeInv, ValidRestsOnValid
  <2>3. CASE j = k /\ j \notin admitted
    BY <1>1, <2>1, <2>3
  <2>4. CASE j # k
    BY <1>1, <2>1, <2>4 DEF KnowledgeInv, ValidRestsOnValid
  <2>5. j \in admitted => j \in HeldObjects
    BY DEF KnowledgeInv, KnowledgeTypeOK
  <2> QED BY <2>2, <2>3, <2>4, <2>5
<1>4. CleanStep
  <2> SUFFICES ASSUME NEW i \in ObjectId, NEW old \in Gen, NEW new \in Gen
               PROVE  /\ (Invalid(<<i, old>>) /\ <<i, old>> \in HeldObjects => Invalid(<<i, old>>)')
                      /\ ~(old # new /\ current[i] = old /\ current'[i] = new)
    BY DEF CleanStep
  <2>1. <<i, old>> \in Key
    BY DEF Key
  <2>2. Invalid(<<i, old>>) /\ <<i, old>> \in HeldObjects => Invalid(<<i, old>>)'
    BY <1>1, <1>2, <2>1
  <2>3. ~(old # new /\ current[i] = old /\ current'[i] = new)
    BY DEF RegisterObject, KnowledgeInv, KnowledgeTypeOK, Key, Gen
  <2> QED BY <2>2, <2>3
<1> QED BY <1>1, <1>3, <1>4 DEF KnowledgeInv

\* A cascade that leaves the current generations where they are keeps the invariant and takes
\* over nothing.
LEMMA CascadeStep ==
    ASSUME KnowledgeInv, NEW S \in SUBSET Key, Cascades(S),
           \A j \in HeldObjects : objects[j].deps \cap S # {} => j \in S,
           raw' = raw, current' = current,
           lifecycle' \in [Key -> KnowledgeLifecycle \cup {Absent}]
    PROVE  KnowledgeInv' /\ CleanStep
<1>1. ValidRestsOnValid'
  BY CascadeKeeps
<1>2. objects' = objects /\ admitted' = admitted
  BY DEF Cascades
<1>3. KnowledgeTypeOK'
  BY <1>2 DEF KnowledgeInv, KnowledgeTypeOK, HeldObjects
<1>4. CleanStep
  BY DEF CleanStep, Cascades, Key
<1> QED BY <1>1, <1>3, <1>4 DEF KnowledgeInv

\* A takeover invalidates what rests on the replaced generation and not the new one.
LEMMA ActivateStep ==
    ASSUME KnowledgeInv, NEW k \in Key, ActivateGeneration(k)
    PROVE  KnowledgeInv' /\ CleanStep
<1>1. PICK S \in SUBSET Key :
        /\ Cascades(S) /\ k \notin S
        /\ \A j \in HeldObjects : objects[j].deps \cap S # {} => j \in S
        /\ \A old \in Gen : old # k[2] /\ current[k[1]] = old => <<k[1], old>> \in S
        /\ lifecycle' \in [Key -> KnowledgeLifecycle \cup {Absent}]
  BY ActivateCascades DEF KnowledgeInv
<1>2. /\ raw' = raw /\ objects' = objects /\ admitted' = admitted
      /\ current' = [current EXCEPT ![k[1]] = k[2]] /\ k \in HeldObjects /\ ~Invalid(k)
  BY DEF ActivateGeneration
<1>3. k[1] \in ObjectId /\ k[2] \in Gen /\ k = <<k[1], k[2]>> /\ Gen \subseteq 0..MaxGen
  BY DEF Key, Gen
<1>4. KnowledgeTypeOK'
  BY <1>1, <1>2, <1>3 DEF KnowledgeInv, KnowledgeTypeOK, HeldObjects
<1>5. ValidRestsOnValid'
  BY <1>1, CascadeKeeps
<1>6. CleanStep
  <2> SUFFICES ASSUME NEW i \in ObjectId, NEW old \in Gen, NEW new \in Gen
               PROVE  /\ (Invalid(<<i, old>>) /\ <<i, old>> \in HeldObjects => Invalid(<<i, old>>)')
                      /\ (old # new /\ current[i] = old /\ current'[i] = new
                            => Invalid(<<i, old>>)' /\ ~Invalid(<<i, new>>)')
    BY DEF CleanStep
  <2>1. <<i, old>> \in Key
    BY DEF Key
  <2>2. Invalid(<<i, old>>) => Invalid(<<i, old>>)'
    BY <1>1, <2>1 DEF Cascades
  <2>3. ASSUME old # new, current[i] = old, current'[i] = new
        PROVE  Invalid(<<i, old>>)' /\ ~Invalid(<<i, new>>)'
    <3>1. i = k[1] /\ new = k[2]
      BY <1>2, <1>3, <2>3 DEF KnowledgeInv, KnowledgeTypeOK
    <3>2. <<i, old>> \in S /\ <<i, new>> = k
      BY <1>1, <1>3, <2>3, <3>1
    <3>3. Invalid(<<i, old>>)'
      BY <1>1, <2>1, <3>2 DEF Cascades
    <3>4. ~Invalid(k)'
      BY <1>1, <1>2 DEF Cascades
    <3> QED BY <3>2, <3>3, <3>4
  <2> QED BY <2>2, <2>3
<1> QED BY <1>4, <1>5, <1>6 DEF KnowledgeInv

-----------------------------------------------------------------------------
(* Knowledge: the invariant *)

\* Every operation keeps the invariant and takes over cleanly.
LEMMA KnowledgeStep ==
    ASSUME KnowledgeInv, [KnowledgeNext]_knowledgeVars
    PROVE  KnowledgeInv' /\ (CleanStep \/ UNCHANGED knowledgeVars)
<1>1. CASE UNCHANGED knowledgeVars
  BY <1>1 DEF KnowledgeInv, KnowledgeTypeOK, ValidRestsOnValid, Invalid,
           LifecycleOf, HeldObjects, knowledgeVars
<1>2. ASSUME NEW r \in Raw, AppendRaw(r) PROVE KnowledgeInv' /\ CleanStep
  <2>1. KnowledgeInv'
    BY <1>2 DEF AppendRaw, KnowledgeInv, KnowledgeTypeOK, ValidRestsOnValid, Invalid,
           LifecycleOf, HeldObjects
  <2>2. CleanStep
    BY <1>2 DEF AppendRaw, CleanStep, Invalid, LifecycleOf, HeldObjects
  <2> QED BY <2>1, <2>2
<1>3. ASSUME NEW k \in Key, NEW o \in Buildable(k), AdmitObject(k, o)
      PROVE  KnowledgeInv' /\ CleanStep
  BY <1>3, BuildableIsObject, RegisterKeeps DEF AdmitObject
<1>4. ASSUME NEW k \in Key, NEW o \in Buildable(k), RegisterObject(k, o), admitted' = admitted
      PROVE  KnowledgeInv' /\ CleanStep
  BY <1>4, BuildableIsObject, RegisterKeeps
<1>5. ASSUME NEW k \in Key, ActivateGeneration(k) PROVE KnowledgeInv' /\ CleanStep
  BY <1>5, ActivateStep
<1>6. ASSUME NEW k, raw' = raw, objects' = objects, current' = current, admitted' = admitted,
             lifecycle' = Invalidated(Closure(k))
      PROVE  KnowledgeInv' /\ CleanStep
  <2>1. /\ Closure(k) \in SUBSET Key
        /\ \A j \in HeldObjects : objects[j].deps \cap Closure(k) # {} => j \in Closure(k)
    BY ClosureClosed
  <2>2. Cascades(Closure(k)) /\ lifecycle' \in [Key -> KnowledgeLifecycle \cup {Absent}]
    BY <1>6, <2>1, InvalidatedCascades DEF KnowledgeInv
  <2> QED BY <1>6, <2>1, <2>2, CascadeStep
<1>7. ASSUME NEW i \in ObjectId, Invalidate(i) PROVE KnowledgeInv' /\ CleanStep
  <2>1. PICK k : k = <<i, current[i]>>
    OBVIOUS
  <2> QED BY <1>6, <1>7, <2>1 DEF Invalidate
<1>8. ASSUME NEW i \in ObjectId, NEW to \in KnowledgeLifecycle, TransitionObject(i, to)
      PROVE  KnowledgeInv' /\ CleanStep
  <2>1. PICK k : k = <<i, current[i]>>
    OBVIOUS
  <2>2. CASE to = "Invalidated"
    BY <1>6, <1>8, <2>1, <2>2 DEF TransitionObject
  <2>3. CASE to # "Invalidated"
    <3>1. Cascades({}) /\ lifecycle' \in [Key -> KnowledgeLifecycle \cup {Absent}]
      BY <1>8, <2>3, DemotionCascades DEF KnowledgeInv
    <3>2. raw' = raw /\ current' = current
      BY <1>8 DEF TransitionObject
    <3> QED BY <3>1, <3>2, CascadeStep
  <2> QED BY <2>2, <2>3
<1> QED BY <1>1, <1>2, <1>3, <1>4, <1>5, <1>7, <1>8 DEF KnowledgeNext

\* The store starts empty.
LEMMA KnowledgeStarts == ASSUME KnowledgeInit PROVE KnowledgeInv
  BY KnowledgeAssumption DEF KnowledgeInit, KnowledgeInv, KnowledgeTypeOK,
                             ValidRestsOnValid, HeldObjects

\* The knowledge store stays well typed: what is admitted and what is current is held
\* (knowledge.rs).
THEOREM KnowledgeTypeCorrect == KnowledgeSpec => []KnowledgeTypeOK
<1>1. KnowledgeInv => KnowledgeTypeOK
  BY DEF KnowledgeInv
<1>2. KnowledgeInit => KnowledgeInv
  BY KnowledgeStarts
<1>3. KnowledgeInv /\ [KnowledgeNext]_knowledgeVars => KnowledgeInv'
  BY KnowledgeStep
<1> QED BY <1>1, <1>2, <1>3, PTL DEF KnowledgeSpec

\* No admitted generation is valid while something it rests on is invalid, whatever is
\* registered without admission, activated, demoted and invalidated in between (admit_object,
\* activate_generation, transition, invalidate).
THEOREM ValidityIsGrounded == KnowledgeSpec => []ValidRestsOnValid
<1>1. KnowledgeInv => ValidRestsOnValid
  BY DEF KnowledgeInv
<1>2. KnowledgeInit => KnowledgeInv
  BY KnowledgeStarts
<1>3. KnowledgeInv /\ [KnowledgeNext]_knowledgeVars => KnowledgeInv'
  BY KnowledgeStep
<1> QED BY <1>1, <1>2, <1>3, PTL DEF KnowledgeSpec

\* A generation that takes over is valid, the one it replaces is not, and nothing held and
\* invalid is ever valid again (activate_generation).
THEOREM TakeoversAreClean == KnowledgeSpec => TakeoverIsClean
<1>1. KnowledgeInit => KnowledgeInv
  BY KnowledgeStarts
<1>2. KnowledgeInv /\ [KnowledgeNext]_knowledgeVars => KnowledgeInv' /\ [CleanStep]_knowledgeVars
  BY KnowledgeStep
<1> QED BY <1>1, <1>2, PTL DEF KnowledgeSpec, TakeoverIsClean, CleanStep

-----------------------------------------------------------------------------
(* MemoryJournal *)

\* What the code's own durability rests on where every append is synced: no directory change is
\* left unsynced, by a kill after the rename, by a sync_parent that fails, or by the creation.
DirectoryIsDurable ==
    \A s \in Settings :
        s.sync /\ "power" \in s.faults => s.faults \cap {"kill", "dir_sync", "entry"} = {}

Ends == {"clean", "torn", "zero", "corrupt"}

Holds(f, o) == \E p \in DOMAIN f.ops : f.ops[p] = o

Distinct(f) == \A p, q \in DOMAIN f.ops : f.ops[p] = f.ops[q] => p = q

\* The mutations t stand in the file in their order, none without the ones before it; with a
\* sync per append all of them, in the durable part.
Ordered(f, t) ==
    \A i, j \in DOMAIN t, p, q \in DOMAIN f.ops :
        f.ops[p] = t[i] /\ f.ops[q] = t[j] => (i <= j <=> p <= q)
NoGaps(f, t) == \A i, j \in DOMAIN t : i < j /\ Holds(f, t[j]) => Holds(f, t[i])
Durable(f, t) == \A i \in DOMAIN t : \E p \in 1..f.synced : f.ops[p] = t[i]
Holding(f, t) == \A i \in DOMAIN t : Holds(f, t[i])

Bounded(f, s) == f.synced <= Len(f.ops) /\ Length(f) <= s.cap
Clear(f, u) == \A p \in DOMAIN f.ops : f.ops[p] \notin u
Lurks(f, u, s) ==
    f.lurking # NoOp => /\ s.sync /\ ~Holds(f, f.lurking) /\ f.lurking \notin u
                        /\ Length(f) + 1 <= s.cap

\* A file from which everything told is recovered, nothing undone, now or after a power loss.
Sound(f, t, u, s) ==
    /\ f \in Journal /\ Bounded(f, s) /\ Distinct(f) /\ Clear(f, u)
    /\ Ordered(f, t) /\ NoGaps(f, t) /\ (s.sync => Durable(f, t))
    /\ Lurks(f, u, s)

Given(t, u, s) == t \in Seq(Op) /\ u \subseteq Op /\ s \in Setting

\* The types of the fields of a file.
LEMMA JournalFields ==
    ASSUME NEW f \in Journal
    PROVE  /\ f.ops \in Seq(Op) /\ f.clock \in {0, 1} /\ f.synced \in Nat
           /\ f.lurking \in Op \cup {NoOp} /\ f.end \in Ends
           /\ Len(f.ops) \in Nat /\ DOMAIN f.ops = 1..Len(f.ops)
BY DEF Journal, Ends

\* A file that differs from a sound one in its end, or in more of it being durable, is sound.
LEMMA SoundFields ==
    ASSUME NEW t, NEW u, NEW s, Given(t, u, s), NEW f, NEW g \in Journal, Sound(f, t, u, s),
           g.ops = f.ops, g.clock = f.clock, f.synced <= g.synced, g.synced <= Len(f.ops),
           g.lurking \in {f.lurking, NoOp}
    PROVE  Sound(g, t, u, s)
<1> USE JournalFields DEF Sound, Holds
<1>1. Bounded(g, s) /\ Distinct(g) /\ Clear(g, u) /\ Ordered(g, t) /\ NoGaps(g, t)
  BY DEF Bounded, Distinct, Clear, Ordered, NoGaps, Length
<1>2. s.sync => Durable(g, t)
  BY DEF Durable
<1>3. Lurks(g, u, s)
  BY DEF Lurks, Length
<1> QED  BY <1>1, <1>2, <1>3

\* A prefix of a sound file that keeps its durable part is sound.
LEMMA PrefixSound ==
    ASSUME NEW t, NEW u, NEW s, Given(t, u, s), NEW f, NEW g \in Journal, Sound(f, t, u, s),
           Len(g.ops) <= Len(f.ops), \A p \in 1..Len(g.ops) : g.ops[p] = f.ops[p],
           g.clock + Len(g.ops) <= s.cap, g.synced <= Len(g.ops), g.lurking = NoOp,
           s.sync => f.synced <= g.synced
    PROVE  Sound(g, t, u, s)
<1>0. /\ f \in Journal /\ f.ops \in Seq(Op) /\ Len(f.ops) \in Nat /\ DOMAIN f.ops = 1..Len(f.ops)
      /\ f.synced \in Nat /\ g.synced \in Nat
      /\ g.ops \in Seq(Op) /\ Len(g.ops) \in Nat /\ DOMAIN g.ops = 1..Len(g.ops)
  BY JournalFields DEF Sound
<1>1. Bounded(g, s)
  BY DEF Bounded, Length
<1>2. Distinct(g) /\ Clear(g, u) /\ Ordered(g, t)
  <2>1. \A p \in DOMAIN g.ops : p \in DOMAIN f.ops /\ g.ops[p] = f.ops[p]
    BY <1>0
  <2>2. Distinct(f) /\ Clear(f, u) /\ Ordered(f, t)
    BY DEF Sound
  <2> QED  BY <2>1, <2>2, Zenon DEF Distinct, Clear, Ordered
<1>3. NoGaps(g, t)
  <2> SUFFICES ASSUME NEW i \in DOMAIN t, NEW j \in DOMAIN t, i < j, Holds(g, t[j])
               PROVE  Holds(g, t[i])
    BY DEF NoGaps
  <2>1. PICK q \in 1..Len(g.ops) : g.ops[q] = t[j]
    BY <1>0 DEF Holds
  <2>2. q \in DOMAIN f.ops /\ f.ops[q] = t[j]
    BY <2>1, <1>0
  <2>3. Holds(f, t[i])
    BY <2>2 DEF Sound, NoGaps, Holds
  <2>4. PICK p \in DOMAIN f.ops : f.ops[p] = t[i]
    BY <2>3 DEF Holds
  <2>5. i \in Nat /\ j \in Nat
    BY DEF Given
  <2>6. p <= q
    BY <2>2, <2>4, <2>5 DEF Sound, Ordered
  <2> QED  BY <2>1, <2>4, <2>6, <1>0 DEF Holds
<1>4. s.sync => Durable(g, t)
  BY <1>0 DEF Durable, Sound, Bounded
<1>5. Lurks(g, u, s)
  BY DEF Lurks
<1> QED  BY <1>1, <1>2, <1>3, <1>4, <1>5 DEF Sound

\* A frame appended after the last one, of a mutation the file did not hold.
LEMMA AppendSound ==
    ASSUME NEW t, NEW u, NEW v, NEW s, Given(t, u, s), v \subseteq u, NEW f, NEW o \in Op,
           NEW synced \in {f.synced, Len(f.ops) + 1}, NEW end \in Ends,
           Sound(f, t, u, s), ~Holds(f, o), o \notin v, \A i \in DOMAIN t : t[i] # o,
           Length(f) + 1 <= s.cap
    PROVE  Sound(File(Append(f.ops, o), f.clock, synced, NoOp, end), t, v, s)
<1>0. /\ f \in Journal /\ f.ops \in Seq(Op) /\ Len(f.ops) \in Nat /\ DOMAIN f.ops = 1..Len(f.ops)
      /\ f.synced \in Nat /\ f.clock \in {0, 1} /\ f.synced <= Len(f.ops)
  BY JournalFields DEF Sound, Bounded
<1>1. PICK ops : ops = Append(f.ops, o)
  OBVIOUS
<1>2. /\ ops \in Seq(Op) /\ Len(ops) = Len(f.ops) + 1 /\ ops[Len(ops)] = o
      /\ \A p \in 1..Len(f.ops) : ops[p] = f.ops[p]
      /\ DOMAIN ops = 1..Len(f.ops) + 1
  BY <1>0, <1>1
<1> DEFINE g == File(ops, f.clock, synced, NoOp, end)
<1>3. g \in Journal /\ g.ops = ops /\ g.clock = f.clock /\ g.synced = synced /\ g.lurking = NoOp
  <2>1. synced \in Nat
    BY <1>0
  <2>2. end \in Ends /\ NoOp \in Op \cup {NoOp}
    OBVIOUS
  <2> QED  BY <1>0, <1>2, <2>1, <2>2 DEF File, Journal, Ends
<1> HIDE DEF g
<1>4. Bounded(g, s)
  BY <1>0, <1>2, <1>3 DEF Bounded, Length
<1>5. Distinct(g)
  BY <1>0, <1>2, <1>3 DEF Distinct, Sound, Holds
<1>6. Clear(g, v)
  BY <1>0, <1>2, <1>3 DEF Clear, Sound
<1>7. Ordered(g, t)
  <2>1. \A p \in DOMAIN g.ops, i \in DOMAIN t :
            g.ops[p] = t[i] => p \in DOMAIN f.ops /\ f.ops[p] = t[i]
    BY <1>0, <1>2, <1>3
  <2>2. Ordered(f, t)
    BY DEF Sound
  <2> QED  BY <2>1, <2>2, Zenon DEF Ordered
<1>8. NoGaps(g, t)
  BY <1>0, <1>2, <1>3 DEF NoGaps, Sound, Holds
<1>9. s.sync => Durable(g, t)
  BY <1>0, <1>2, <1>3 DEF Durable, Sound
<1>10. Lurks(g, v, s)
  BY <1>3 DEF Lurks
<1>11. Sound(g, t, v, s)
  BY <1>3, <1>4, <1>5, <1>6, <1>7, <1>8, <1>9, <1>10 DEF Sound
<1> QED  BY <1>1, <1>11 DEF g

\* A mutation that is told of when its frame is the last of the file.
LEMMA TellSound ==
    ASSUME NEW t, NEW u, NEW s, Given(t, u, s), NEW f, NEW o \in Op, Sound(f, t, u, s),
           Holding(f, t), \A i \in DOMAIN t : t[i] # o,
           f.ops # <<>>, f.ops[Len(f.ops)] = o, s.sync => f.synced = Len(f.ops)
    PROVE  Sound(f, Append(t, o), u, s) /\ Holding(f, Append(t, o))
<1>0. /\ f \in Journal /\ f.ops \in Seq(Op) /\ Len(f.ops) \in Nat \ {0}
      /\ DOMAIN f.ops = 1..Len(f.ops) /\ f.synced \in Nat
  <2>1. f \in Journal
    BY DEF Sound
  <2> QED  BY <2>1, JournalFields, EmptySeq
<1>1. PICK t1 : t1 = Append(t, o)
  OBVIOUS
<1>2. /\ t \in Seq(Op) /\ Len(t) \in Nat /\ DOMAIN t = 1..Len(t)
      /\ t1 \in Seq(Op) /\ Len(t1) = Len(t) + 1 /\ t1[Len(t) + 1] = o
      /\ DOMAIN t1 = 1..Len(t) + 1 /\ \A i \in 1..Len(t) : t1[i] = t[i]
  BY <1>1 DEF Given
<1>3. Ordered(f, t1)
  <2> SUFFICES ASSUME NEW i \in 1..Len(t) + 1, NEW j \in 1..Len(t) + 1,
                      NEW p \in 1..Len(f.ops), NEW q \in 1..Len(f.ops),
                      f.ops[p] = t1[i], f.ops[q] = t1[j]
               PROVE  i <= j <=> p <= q
    BY <1>0, <1>2 DEF Ordered
  <2>1. \A k \in 1..Len(t), x \in 1..Len(f.ops) : f.ops[x] = t[k] => x < Len(f.ops)
    <3> SUFFICES ASSUME NEW k \in 1..Len(t), NEW x \in 1..Len(f.ops), f.ops[x] = t[k]
                 PROVE  x < Len(f.ops)
      OBVIOUS
    <3>1. x # Len(f.ops)
      BY <1>2
    <3> QED  BY <1>0, <3>1
  <2>2. \A x \in 1..Len(f.ops) : f.ops[x] = o => x = Len(f.ops)
    <3>1. Distinct(f) /\ Len(f.ops) \in DOMAIN f.ops
      BY <1>0 DEF Sound
    <3> QED  BY <1>0, <3>1 DEF Distinct
  <2>3. CASE i \in 1..Len(t) /\ j \in 1..Len(t)
    BY <1>0, <1>2, <2>3 DEF Ordered, Sound
  <2>4. CASE i = Len(t) + 1 /\ j = Len(t) + 1
    BY <1>0, <1>2, <2>2, <2>4
  <2>5. CASE i \in 1..Len(t) /\ j = Len(t) + 1
    BY <1>0, <1>2, <2>1, <2>2, <2>5
  <2>6. CASE i = Len(t) + 1 /\ j \in 1..Len(t)
    BY <1>0, <1>2, <2>1, <2>2, <2>6
  <2> QED  BY <1>2, <2>3, <2>4, <2>5, <2>6
<1>4. Holding(f, t1)
  BY <1>0, <1>2 DEF Holding, Holds
<1>5. NoGaps(f, t1)
  BY <1>4 DEF NoGaps, Holding
<1>6. s.sync => Durable(f, t1)
  BY <1>0, <1>2 DEF Durable, Sound
<1> QED  BY <1>1, <1>3, <1>4, <1>5, <1>6 DEF Sound

\* Forgetting the end of what was told.
LEMMA ForgetSound ==
    ASSUME NEW t, NEW u, NEW s, Given(t, u, s), NEW f, Sound(f, t, u, s), NEW n \in 0..Len(t)
    PROVE  /\ Sound(f, SubSeq(t, 1, n), u, s) /\ SubSeq(t, 1, n) \in Seq(Op)
           /\ (\A i \in 1..n : Holds(f, t[i])) => Holding(f, SubSeq(t, 1, n))
<1>1. PICK t1 : t1 = SubSeq(t, 1, n)
  OBVIOUS
<1>2. /\ t \in Seq(Op) /\ Len(t) \in Nat /\ DOMAIN t = 1..Len(t)
      /\ t1 \in Seq(Op) /\ Len(t1) = n /\ DOMAIN t1 = 1..n /\ \A i \in 1..n : t1[i] = t[i]
  BY <1>1 DEF Given
<1>3. 1..n \subseteq 1..Len(t)
  BY <1>2
<1>4. Ordered(f, t1) /\ NoGaps(f, t1) /\ (s.sync => Durable(f, t1))
  BY <1>2, <1>3 DEF Ordered, NoGaps, Durable, Sound
<1> QED  BY <1>1, <1>2, <1>4 DEF Sound, Holding

\* A mutation the file neither holds nor hides may be added to the undone ones.
LEMMA UndoSound ==
    ASSUME NEW t, NEW u, NEW s, NEW f, Sound(f, t, u, s), NEW o, ~Holds(f, o), f.lurking = NoOp
    PROVE  Sound(f, t, u \cup {o}, s)
BY DEF Sound, Clear, Lurks, Holds

\* Fewer mutations are undone.
LEMMA RetrySound ==
    ASSUME NEW t, NEW u, NEW s, NEW f, Sound(f, t, u, s), NEW o
    PROVE  Sound(f, t, u \ {o}, s)
BY DEF Sound, Clear, Lurks

\* A file cut back before its last frame, which was not durable and not told of.
LEMMA CutSound ==
    ASSUME NEW t, NEW u, NEW s, Given(t, u, s), NEW f, NEW o \in Op, Sound(f, t, u, s),
           Holding(f, t), \A i \in DOMAIN t : t[i] # o, o \notin u, s.sync,
           f.ops # <<>>, f.ops[Len(f.ops)] = o, f.synced < Len(f.ops),
           NEW lurking \in {NoOp, o}
    PROVE  LET g == File(SubSeq(f.ops, 1, Len(f.ops) - 1), f.clock, f.synced, lurking, "clean")
           IN  Sound(g, t, u, s) /\ Holding(g, t) /\ ~Holds(g, o)
<1>0. /\ f \in Journal /\ f.ops \in Seq(Op) /\ Len(f.ops) \in Nat \ {0}
      /\ DOMAIN f.ops = 1..Len(f.ops) /\ f.synced \in Nat /\ f.clock \in {0, 1}
  <2>1. f \in Journal
    BY DEF Sound
  <2> QED  BY <2>1, JournalFields, EmptySeq
<1>1. PICK ops : ops = SubSeq(f.ops, 1, Len(f.ops) - 1)
  OBVIOUS
<1>2. /\ ops \in Seq(Op) /\ Len(ops) = Len(f.ops) - 1 /\ DOMAIN ops = 1..Len(f.ops) - 1
      /\ \A p \in 1..Len(f.ops) - 1 : ops[p] = f.ops[p]
  BY <1>0, <1>1
<1> DEFINE g == File(ops, f.clock, f.synced, lurking, "clean")
<1>3. g \in Journal /\ g.ops = ops /\ g.clock = f.clock /\ g.synced = f.synced /\ g.lurking = lurking
  <2>1. lurking \in Op \cup {NoOp} /\ "clean" \in Ends
    BY DEF Ends
  <2> QED  BY <1>0, <1>2, <2>1 DEF File, Journal, Ends
<1> HIDE DEF g
<1>4. ~Holds(g, o)
  <2>1. Distinct(f) /\ Len(f.ops) \in DOMAIN f.ops
    BY <1>0 DEF Sound
  <2>2. \A p \in 1..Len(f.ops) : f.ops[p] = o => p = Len(f.ops)
    BY <1>0, <2>1 DEF Distinct
  <2> QED  BY <1>0, <1>2, <1>3, <2>2 DEF Holds
<1>5. Holding(g, t)
  <2> SUFFICES ASSUME NEW i \in DOMAIN t  PROVE Holds(g, t[i])
    BY DEF Holding
  <2>1. PICK p \in 1..Len(f.ops) : f.ops[p] = t[i]
    BY <1>0 DEF Holding, Holds
  <2>2. p # Len(f.ops)
    BY <2>1
  <2>3. p \in 1..Len(f.ops) - 1
    BY <1>0, <2>1, <2>2
  <2>4. p \in DOMAIN g.ops /\ g.ops[p] = t[i]
    BY <1>2, <1>3, <2>1, <2>3
  <2> QED  BY <2>4 DEF Holds
<1>6. Bounded(g, s) /\ Length(g) + 1 <= s.cap
  <2>1. s.cap \in Nat
    BY DEF Given, Setting
  <2> QED  BY <1>0, <1>2, <1>3, <2>1 DEF Bounded, Length, Sound
<1>7. Distinct(g) /\ Clear(g, u) /\ Ordered(g, t)
  <2>1. \A p \in DOMAIN g.ops : p \in DOMAIN f.ops /\ g.ops[p] = f.ops[p]
    BY <1>0, <1>2, <1>3
  <2>2. Distinct(f) /\ Clear(f, u) /\ Ordered(f, t)
    BY DEF Sound
  <2> QED  BY <2>1, <2>2, Zenon DEF Distinct, Clear, Ordered
<1>8. NoGaps(g, t)
  BY <1>5 DEF NoGaps, Holding
<1>9. Durable(g, t)
  BY <1>0, <1>2, <1>3 DEF Sound, Durable
<1>10. Lurks(g, u, s)
  BY <1>3, <1>4, <1>6 DEF Lurks
<1>11. Sound(g, t, u, s)
  BY <1>3, <1>6, <1>7, <1>8, <1>9, <1>10 DEF Sound
<1> QED  BY <1>1, <1>4, <1>5, <1>11 DEF g

\* Whatever a power loss leaves of a sound file is sound, and hides nothing.
LEMMA SurvivorSound ==
    ASSUME NEW t, NEW u, Given(t, u, setting), NEW f, Sound(f, t, u, setting), NEW g \in Survivors(f)
    PROVE  /\ Sound(g, t, u, setting) /\ g.lurking = NoOp
           /\ ~setting.sync => /\ Len(g.ops) <= Len(f.ops) /\ g.synced <= Len(g.ops)
                               /\ \A p \in 1..Len(g.ops) : g.ops[p] = f.ops[p]
                               /\ Length(g) <= setting.cap
<1>0. /\ f \in Journal /\ f.ops \in Seq(Op) /\ Len(f.ops) \in Nat /\ f.end \in Ends
      /\ DOMAIN f.ops = 1..Len(f.ops) /\ f.synced \in Nat /\ f.clock \in {0, 1}
      /\ f.synced <= Len(f.ops) /\ setting.cap \in Nat /\ f.clock + Len(f.ops) <= setting.cap
  BY JournalFields DEF Sound, Bounded, Length, Given, Setting
<1>1. CASE \E n \in f.synced..Len(f.ops), end \in Ends : g = Upto(f, n, end)
  <2>1. PICK n \in f.synced..Len(f.ops), end \in Ends : g = Upto(f, n, end)
    BY <1>1
  <2>2. PICK ops : ops = SubSeq(f.ops, 1, n)
    OBVIOUS
  <2>3. /\ n \in Nat /\ ops \in Seq(Op) /\ Len(ops) = n
        /\ \A p \in 1..n : ops[p] = f.ops[p]
    BY <1>0, <2>2
  <2>4. /\ g \in Journal /\ g.ops = ops /\ g.clock = f.clock /\ g.synced = n
        /\ g.lurking = NoOp
    <3>1. end \in Ends /\ NoOp \in Op \cup {NoOp}
      OBVIOUS
    <3> QED  BY <1>0, <2>1, <2>2, <2>3, <3>1 DEF Upto, File, Journal, Ends
  <2>5. Len(g.ops) <= Len(f.ops) /\ g.clock + Len(g.ops) <= setting.cap /\ f.synced <= g.synced
    BY <1>0, <2>3, <2>4
  <2>6. Sound(g, t, u, setting)
    <3>1. \A p \in 1..Len(g.ops) : g.ops[p] = f.ops[p]
      BY <2>3, <2>4
    <3>2. g \in Journal /\ g.synced <= Len(g.ops) /\ g.lurking = NoOp
      BY <2>3, <2>4
    <3> QED  BY <2>5, <3>1, <3>2, PrefixSound
  <2> QED  BY <2>3, <2>4, <2>5, <2>6 DEF Length
<1>2. CASE f.lurking # NoOp /\ g = File(Append(f.ops, f.lurking), f.clock, Len(f.ops) + 1, NoOp, f.end)
  <2>1. f.lurking \in Op
    BY <1>0, <1>2, JournalFields
  <2>2. setting.sync /\ ~Holds(f, f.lurking) /\ f.lurking \notin u /\ Length(f) + 1 <= setting.cap
    BY <1>2 DEF Sound, Lurks
  <2>3. \A i \in DOMAIN t : t[i] # f.lurking
    BY <1>0, <2>2 DEF Sound, Durable, Holds
  <2>4. Sound(g, t, u, setting)
    BY <1>0, <1>2, <2>1, <2>2, <2>3, AppendSound
  <2>5. g.lurking = NoOp
    BY <1>2 DEF File
  <2> QED  BY <2>2, <2>4, <2>5
<1>3. {"clean", f.end} \subseteq Ends /\ {"torn"} \cup ({"zero"} \cap setting.faults) \subseteq Ends
  BY <1>0 DEF Ends
<1>4. f.synced..Len(f.ops) - 1 \subseteq f.synced..Len(f.ops)
  BY <1>0
<1> QED  BY <1>1, <1>2, <1>3, <1>4 DEF Survivors

-----------------------------------------------------------------------------
(* MemoryJournal: the invariant *)

\* The call under way: while the store runs, its file holds everything told, and the mutation of
\* the call is not among it.
CallInv ==
    /\ pc \in {"idle", "closed", "denied"} => cur = NoOp
    /\ pc \in {"written", "failed"} => cur \in Op \ undone
    /\ pc \notin {"closed", "denied"} =>
          Holding(file, told) /\ \A i \in DOMAIN told : told[i] # cur

\* What readers see is what the file holds, but for the frame of the call under way.
MemInv ==
    /\ \A p \in DOMAIN mem : mem[p] \notin undone
    /\ pc \in {"written", "failed", "compacting", "staged", "renamed"} => ~poisoned /\ ~shut
    /\ pc \in {"idle", "compacting", "staged", "renamed"} /\ ~poisoned /\ ~shut => mem = file.ops
    /\ pc = "failed" /\ Wrapper = "memory" =>
          IF FrameWritten(file) THEN file.ops = Append(mem, cur) ELSE file.ops = mem
    /\ pc = "written" => file.ops = IF Wrapper = "memory" THEN Append(mem, cur) ELSE mem

\* Where the frame of the call under way is, and how much of the file is durable.
FrameInv ==
    /\ pc = "written" => FrameWritten(file) /\ file.synced < Len(file.ops) /\ file.lurking = NoOp
    /\ pc = "failed" => IF FrameWritten(file)
                        THEN setting.sync /\ file.synced < Len(file.ops) /\ file.lurking = NoOp
                        ELSE ~Holds(file, cur)
    /\ pc \in {"compacting", "staged", "renamed"} /\ cur # NoOp =>
          FrameWritten(file) /\ (setting.sync => file.synced = Len(file.ops))
    /\ pc = "staged" => Length(Image) <= FileCap

\* An earlier state of the file f.
Earlier(g, f) ==
    /\ g.synced <= Len(g.ops) /\ Length(g) <= FileCap /\ g.lurking = NoOp
    /\ Len(g.ops) <= Len(f.ops) /\ \A p \in 1..Len(g.ops) : g.ops[p] = f.ops[p]

\* The files a power loss may bring back: with a sync per append only between the rename and the
\* sync of the directory, and then each as good as the file it would replace; otherwise earlier
\* states of it, without the frame of the call under way.
OlderInv ==
    "power" \in setting.faults =>
        IF setting.sync
        THEN \A g \in older : pc = "renamed" /\ Sound(g, told, undone, setting)
        ELSE \A g \in older : Earlier(g, file) /\ (pc = "written" => Len(g.ops) < Len(file.ops))

\* The inductive invariant of the journal.
JournalInv ==
    /\ JournalTypeOK /\ Sound(file, told, undone, setting)
    /\ CallInv /\ MemInv /\ FrameInv /\ OlderInv

\* What the lemmas about files ask of the state.
LEMMA StateGiven ==
    ASSUME JournalTypeOK
    PROVE  /\ Given(told, undone, setting) /\ setting.cap \in Nat /\ setting.sync \in BOOLEAN
           /\ DOMAIN told = 1..Len(told) /\ Len(told) \in Nat
           /\ \A i \in DOMAIN told : told[i] \in Op
BY JournalAssumption DEF JournalTypeOK, Given, Setting

\* A sequence is Append's result without its last element.
LEMMA FrontOfAppend ==
    ASSUME NEW m \in Seq(Op), NEW o
    PROVE  SubSeq(Append(m, o), 1, Len(Append(m, o)) - 1) = m
<1>1. PICK x : x = SubSeq(Append(m, o), 1, Len(Append(m, o)) - 1)
  OBVIOUS
<1>2. Len(m) \in Nat /\ Len(Append(m, o)) = Len(m) + 1 /\ \A i \in 1..Len(m) : Append(m, o)[i] = m[i]
  OBVIOUS
<1>3. x \in Seq(Op \cup {o}) /\ Len(x) = Len(m) /\ \A i \in 1..Len(m) : x[i] = m[i]
  <2>1. Append(m, o) \in Seq(Op \cup {o})
    <3>1. m \in Seq(Op \cup {o})
      OBVIOUS
    <3> QED  BY <3>1
  <2> QED  BY <1>1, <1>2, <2>1
<1>4. m \in Seq(Op \cup {o})
  OBVIOUS
<1>5. x = m
  BY <1>3, <1>4, SeqEqual
<1> QED  BY <1>1, <1>5

\* All of a sequence is the sequence.
LEMMA AllOfIt ==
    ASSUME NEW m \in Seq(Op)
    PROVE  SubSeq(m, 1, Len(m)) = m
<1>1. PICK x : x = SubSeq(m, 1, Len(m))
  OBVIOUS
<1>2. x \in Seq(Op) /\ Len(x) = Len(m) /\ \A i \in 1..Len(m) : x[i] = m[i]
  BY <1>1
<1>3. x = m
  BY <1>2, SeqEqual
<1> QED  BY <1>1, <1>3

\* The older files after a step that leaves them alone, outside of a rename, and does not
\* shorten a file that is not synced.
LEMMA OlderStays ==
    ASSUME OlderInv, pc # "renamed", older' = older, setting' = setting, JournalTypeOK,
           file' \in Journal,
           ~setting.sync => /\ Len(file.ops) <= Len(file'.ops)
                            /\ \A p \in 1..Len(file.ops) : file'.ops[p] = file.ops[p]
                            /\ pc' = "written" => Len(file.ops) < Len(file'.ops)
    PROVE  OlderInv'
<1>1. CASE setting.sync
  BY <1>1 DEF OlderInv
<1>2. CASE ~setting.sync
  <2> SUFFICES ASSUME "power" \in setting.faults, NEW g \in older
               PROVE  Earlier(g, file)' /\ (pc' = "written" => Len(g.ops) < Len(file'.ops))
    BY <1>2 DEF OlderInv
  <2>1. Earlier(g, file)
    BY <1>2 DEF OlderInv
  <2>2. g \in Journal /\ file \in Journal
    BY DEF JournalTypeOK
  <2>3. Len(g.ops) \in Nat /\ Len(file.ops) \in Nat /\ Len(file'.ops) \in Nat
    BY <2>2, JournalFields
  <2> QED  BY <1>2, <2>1, <2>3 DEF Earlier, FileCap
<1> QED  BY <1>1, <1>2

\* A successful answer: the mutation of the call, if there is one, is told of; its frame is the
\* last of the file, and durable where appends are synced.
LEMMA AcknowledgeSound ==
    ASSUME JournalTypeOK, Acknowledge, setting' = setting,
           NEW f, Sound(f, told, undone, setting), Holding(f, told),
           \A i \in DOMAIN told : told[i] # cur,
           cur # NoOp => /\ f.ops # <<>> /\ f.ops[Len(f.ops)] = cur
                         /\ setting.sync => f.synced = Len(f.ops)
    PROVE  /\ Sound(f, told', undone, setting) /\ Holding(f, told') /\ told' \in Seq(Op)
           /\ undone' = undone /\ pc' = "idle" /\ cur' = NoOp
           /\ \A i \in DOMAIN told' : told'[i] # NoOp
<1>1. CASE cur = NoOp
  <2>1. told' = told /\ undone' = undone /\ pc' = "idle" /\ cur' = NoOp
    BY <1>1 DEF Acknowledge, ghosts, Answer
  <2>2. told \in Seq(Op)
    BY DEF JournalTypeOK
  <2>3. Sound(f, told', undone, setting) /\ Holding(f, told') /\ \A i \in DOMAIN told' : told'[i] # NoOp
    BY <2>1, <1>1, Zenon
  <2> QED  BY <2>1, <2>2, <2>3
<1>2. CASE cur # NoOp
  <2>1. told' = Append(told, cur) /\ undone' = undone /\ pc' = "idle" /\ cur' = NoOp
    BY <1>2 DEF Acknowledge, ghosts, Answer
  <2>2. cur \in Op /\ told \in Seq(Op)
    BY <1>2 DEF JournalTypeOK
  <2>3. Given(told, undone, setting)
    BY StateGiven
  <2>4. Sound(f, Append(told, cur), undone, setting) /\ Holding(f, Append(told, cur))
    BY <1>2, <2>2, <2>3, TellSound
  <2>5. Append(told, cur) \in Seq(Op)
    BY <2>2
  <2>6. \A i \in DOMAIN told' : told'[i] \in Op
    BY <2>1, <2>5
  <2>7. Sound(f, told', undone, setting) /\ Holding(f, told')
    BY <2>1, <2>4, Zenon
  <2> QED  BY <2>1, <2>5, <2>6, <2>7, JournalAssumption
<1> QED  BY <1>1, <1>2

-----------------------------------------------------------------------------
(* MemoryJournal: the steps *)

\* Every open keeps the invariant.
LEMMA OpenKeeps ==
    ASSUME JournalInv, Open, setting' = setting
    PROVE  JournalInv'
<1> USE DEF JournalInv
<1>0. Given(told, undone, setting) /\ file \in Journal /\ setting.cap \in Nat
  BY StateGiven DEF JournalTypeOK
<1>1. CASE OpenRefusal(file)
  <2>1. /\ pc = "closed" /\ pc' = "denied" /\ file' = file /\ mem' = mem /\ since' = since
        /\ poisoned' = poisoned /\ shut' = shut /\ told' = told /\ older' = older /\ cur' = cur
        /\ undone' = undone /\ faults' = faults
    BY <1>1 DEF Open, handle
  <2>2. JournalTypeOK'
    BY <2>1 DEF JournalTypeOK, FileCap, Length
  <2>3. Sound(file, told, undone, setting)'
    BY <2>1
  <2>4. CallInv' /\ MemInv' /\ FrameInv'
    BY <2>1 DEF CallInv, MemInv, FrameInv
  <2>5. OlderInv'
    <3>1. file' \in Journal /\ Len(file.ops) \in Nat
      BY <1>0, <2>1, JournalFields
    <3> QED  BY <2>1, <3>1, OlderStays
  <2> QED  BY <2>2, <2>3, <2>4, <2>5
<1>2. CASE ~OpenRefusal(file)
  <2>1. /\ pc = "closed" /\ pc' = "idle" /\ file' = Repaired(file) /\ mem' = file.ops /\ since' = 0
        /\ poisoned' = FALSE /\ shut' = FALSE /\ older' = older /\ cur' = cur
        /\ undone' = undone /\ faults' = faults
    BY <1>2 DEF Open
  <2>2. PICK n \in 0..Len(told) : Kept(n) /\ told' = SubSeq(told, 1, n)
    BY <1>2 DEF Open
  <2>3. /\ file' \in Journal /\ file'.ops = file.ops /\ file'.clock = file.clock
        /\ file'.synced \in {file.synced, Len(file.ops)} /\ file'.lurking \in {file.lurking, NoOp}
    BY <1>0, <2>1, JournalFields DEF Repaired, File, Journal
  <2>4. file.ops \in Seq(Op) /\ file.synced \in Nat /\ file.synced <= Len(file.ops) /\ Len(file.ops) \in Nat
    BY <1>0, JournalFields DEF JournalTypeOK
  <2>5. Sound(file', told, undone, setting)
    <3>1. file.synced <= file'.synced /\ file'.synced <= Len(file.ops)
      BY <2>3, <2>4
    <3> QED  BY <1>0, <2>3, <3>1, SoundFields
  <2>6. \A i \in 1..n : Holds(file', told[i])
    BY <2>2, <2>3, <2>4 DEF Kept, Range, Holds
  <2>7. /\ Sound(file', told', undone, setting) /\ told' \in Seq(Op) /\ Holding(file', told')
    BY <1>0, <2>2, <2>5, <2>6, ForgetSound
  <2>8. Sound(file, told, undone, setting)'
    BY <2>1, <2>7
  <2>9. JournalTypeOK'
    <3>1. file'.synced <= Len(file'.ops) /\ Length(file') <= setting.cap
      BY <2>3, <2>4 DEF JournalTypeOK, FileCap, Length
    <3> QED  BY <2>1, <2>3, <2>4, <2>7, <3>1 DEF JournalTypeOK, FileCap
  <2>10. cur = NoOp /\ \A i \in DOMAIN told' : told'[i] # NoOp
    BY <2>1, <2>7, JournalAssumption DEF CallInv
  <2>11. CallInv'
    BY <2>1, <2>7, <2>10 DEF CallInv
  <2>12. MemInv'
    BY <2>1, <2>3 DEF MemInv, Sound, Clear
  <2>13. FrameInv'
    BY <2>1 DEF FrameInv
  <2>14. OlderInv'
    BY <2>1, <2>3, <2>4, OlderStays
  <2> QED  BY <2>8, <2>9, <2>11, <2>12, <2>13, <2>14
<1> QED  BY <1>1, <1>2

\* What a store's readers see after it rebuilt itself.
LEMMA RebuildShows ==
    ASSUME JournalTypeOK, NEW f \in Journal, NEW b \in BOOLEAN, Rebuild(f, b)
    PROVE  /\ mem' \in Seq(Op) /\ shut' \in BOOLEAN /\ faults' \in 0..MaxFaults
           /\ mem' = f.ops \/ mem' = <<>> \/ (Wrapper = "memory" /\ mem' = mem)
           /\ ~shut' => /\ ~shut /\ (Wrapper = "memory" => mem' = mem)
                        /\ Wrapper = "knowledge" => ~b /\ mem' = f.ops
<1>1. f.ops \in Seq(Op) /\ <<>> \in Seq(Op) /\ mem \in Seq(Op) /\ shut \in BOOLEAN
      /\ faults \in 0..MaxFaults /\ MaxFaults \in Nat
  BY JournalFields, JournalAssumption DEF JournalTypeOK
<1>2. setting.wrapper \in {"memory", "knowledge"}
  BY JournalAssumption DEF JournalTypeOK, Setting
<1>3. CASE Wrapper = "memory" /\ UNCHANGED <<mem, shut, faults>>
  BY <1>1, <1>2, <1>3 DEF Wrapper
<1>4. CASE Wrapper = "knowledge" /\ mem' = f.ops /\ shut' = (shut \/ b) /\ UNCHANGED faults
  <2>1. shut' \in BOOLEAN
    BY <1>4
  <2>2. ~shut' => ~shut /\ ~b
    BY <1>4
  <2> QED  BY <1>1, <1>4, <2>1, <2>2
<1>5. CASE Wrapper = "knowledge" /\ Fault("reread") /\ mem' = <<>> /\ shut' = TRUE
  BY <1>1, <1>5 DEF Fault
<1> QED  BY <1>3, <1>4, <1>5 DEF Rebuild

\* An append that is refused before it writes keeps the invariant.
LEMMA AppendRefusedKeeps ==
    ASSUME JournalInv, setting' = setting, NEW o \in Op, AppendRefused(o)
    PROVE  JournalInv'
<1> USE DEF JournalInv
<1>0. /\ pc = "idle" /\ told' = told /\ undone' = undone /\ file' = file /\ older' = older /\ pc' = pc
      /\ cur' = cur /\ since' = since /\ poisoned' = poisoned /\ ~shut /\ Rebuild(file, poisoned)
  BY DEF AppendRefused, disk, Fresh
<1>1. file \in Journal /\ poisoned \in BOOLEAN
  BY DEF JournalTypeOK
<1>2. /\ mem' \in Seq(Op) /\ shut' \in BOOLEAN /\ faults' \in 0..MaxFaults
      /\ mem' = file.ops \/ mem' = <<>> \/ (Wrapper = "memory" /\ mem' = mem)
      /\ ~shut' => /\ Wrapper = "memory" => mem' = mem
                   /\ Wrapper = "knowledge" => mem' = file.ops
  BY <1>0, <1>1, RebuildShows
<1>3. JournalTypeOK'
  BY <1>0, <1>2 DEF JournalTypeOK, FileCap, Length
<1>4. Sound(file, told, undone, setting)' /\ CallInv' /\ FrameInv'
  BY <1>0 DEF CallInv, FrameInv
<1>5. MemInv'
  <2>1. setting.wrapper \in {"memory", "knowledge"}
    BY JournalAssumption DEF JournalTypeOK, Setting
  <2>2. ~poisoned' /\ ~shut' => mem' = file.ops
    BY <1>0, <1>2, <2>1 DEF MemInv, Wrapper
  <2>3. \A p \in DOMAIN mem' : mem'[p] \notin undone
    BY <1>0, <1>2 DEF MemInv, Sound, Clear
  <2> QED  BY <1>0, <2>2, <2>3 DEF MemInv
<1>6. OlderInv'
  <2>1. Len(file.ops) \in Nat
    BY <1>1, JournalFields
  <2> QED  BY <1>0, <1>1, <2>1, OlderStays
<1> QED  BY <1>3, <1>4, <1>5, <1>6

\* A frame that is written keeps the invariant.
LEMMA WriteFrameKeeps ==
    ASSUME JournalInv, setting' = setting, NEW o \in Op, WriteFrame(o)
    PROVE  JournalInv'
<1> USE DEF JournalInv
<1>0. Given(told, undone, setting) /\ setting.cap \in Nat /\ setting.wrapper \in {"memory", "knowledge"}
  BY StateGiven, JournalAssumption DEF JournalTypeOK, Setting
<1>1. PICK end \in Ends : file' = File(Append(file.ops, o), file.clock, file.synced, NoOp, end)
  BY DEF WriteFrame, Ends
<1>2. /\ pc = "idle" /\ ~shut /\ ~poisoned /\ Length(file) + 1 <= setting.cap
      /\ mem' = Staged(o) /\ cur' = o /\ pc' = "written" /\ undone' = undone \ {o}
      /\ older' = older /\ since' = since /\ poisoned' = poisoned /\ shut' = shut
      /\ told' = told /\ faults' = faults /\ \A p \in DOMAIN mem : mem[p] # o
  BY DEF WriteFrame, Fresh, AppendAllowed, FileCap, Range
<1>3. mem = file.ops /\ ~Holds(file, o)
  BY <1>2 DEF MemInv, Holds
<1>4. Holding(file, told) /\ \A i \in DOMAIN told : told[i] # o
  BY <1>2, <1>3 DEF CallInv, Holding, Holds
<1>5. /\ file.ops \in Seq(Op) /\ Len(file.ops) \in Nat /\ file.synced \in Nat /\ file.clock \in {0, 1}
      /\ file.synced <= Len(file.ops) /\ file \in Journal
  BY JournalFields DEF JournalTypeOK
<1>6. PICK ops : ops = Append(file.ops, o)
  OBVIOUS
<1>7. /\ ops \in Seq(Op) /\ Len(ops) = Len(file.ops) + 1 /\ ops[Len(ops)] = o
      /\ \A p \in 1..Len(file.ops) : ops[p] = file.ops[p] /\ ops # <<>>
      /\ DOMAIN ops = 1..Len(file.ops) + 1 /\ DOMAIN file.ops = 1..Len(file.ops)
  BY <1>5, <1>6
<1>8. /\ file' \in Journal /\ file'.ops = ops /\ file'.clock = file.clock /\ file'.synced = file.synced
      /\ file'.lurking = NoOp
  BY <1>1, <1>5, <1>6, <1>7 DEF File, Journal, Ends
<1>9. Sound(file, told, undone, setting)'
  <2>1. undone \ {o} \subseteq undone /\ o \notin undone \ {o} /\ file.synced \in {file.synced, Len(file.ops) + 1}
    OBVIOUS
  <2>2. Sound(file', told, undone \ {o}, setting)
    BY <1>0, <1>1, <1>2, <1>3, <1>4, <2>1, AppendSound
  <2> QED  BY <1>2, <2>2
<1>10. Staged(o) = IF setting.wrapper = "knowledge" THEN ops ELSE mem
  BY <1>3, <1>6 DEF Staged, Wrapper
<1>11. JournalTypeOK'
  <2>1. file'.synced <= Len(file'.ops) /\ Length(file') <= setting.cap
    BY <1>0, <1>2, <1>5, <1>7, <1>8 DEF Length
  <2>2. mem' \in Seq(Op)
    BY <1>2, <1>7, <1>10 DEF JournalTypeOK
  <2> QED  BY <1>2, <1>8, <2>1, <2>2 DEF JournalTypeOK, FileCap
<1>12. CallInv'
  <2>1. Holding(file', told')
    BY <1>2, <1>4, <1>7, <1>8 DEF Holding, Holds
  <2> QED  BY <1>2, <1>4, <2>1 DEF CallInv
<1>13. MemInv'
  <2>1. \A p \in DOMAIN mem' : mem'[p] \notin undone'
    BY <1>2, <1>3, <1>7, <1>10 DEF MemInv
  <2>2. file'.ops = IF Wrapper' = "memory" THEN Append(mem', cur') ELSE mem'
    BY <1>0, <1>2, <1>3, <1>6, <1>8, <1>10 DEF Wrapper
  <2> QED  BY <1>2, <2>1, <2>2 DEF MemInv
<1>14. FrameInv'
  <2>1. FrameWritten(file)' /\ file'.synced < Len(file'.ops)
    <3>1. ops # <<>>
      BY <1>5, <1>7, EmptySeq
    <3> QED  BY <1>2, <1>5, <1>7, <1>8, <3>1 DEF FrameWritten
  <2> QED  BY <1>2, <1>8, <2>1 DEF FrameInv
<1>15. OlderInv'
  <2>1. Len(file.ops) <= Len(file'.ops) /\ Len(file.ops) < Len(file'.ops) /\ pc # "renamed"
        /\ \A p \in 1..Len(file.ops) : file'.ops[p] = file.ops[p]
    BY <1>2, <1>5, <1>7, <1>8
  <2> QED  BY <1>2, <1>8, <2>1, OlderStays
<1> QED  BY <1>9, <1>11, <1>12, <1>13, <1>14, <1>15

\* A write that fails keeps the invariant.
LEMMA WriteFailsKeeps ==
    ASSUME JournalInv, setting' = setting, NEW o \in Op, WriteFails(o)
    PROVE  JournalInv'
<1> USE DEF JournalInv
<1>0. Given(told, undone, setting) /\ setting.cap \in Nat /\ setting.wrapper \in {"memory", "knowledge"}
  BY StateGiven, JournalAssumption DEF JournalTypeOK, Setting
<1>1. /\ pc = "idle" /\ ~shut /\ ~poisoned
      /\ mem' = Staged(o) /\ cur' = o /\ pc' = "failed" /\ undone' = undone \ {o}
      /\ older' = older /\ since' = since /\ poisoned' = poisoned /\ shut' = shut
      /\ told' = told /\ \A p \in DOMAIN mem : mem[p] # o
      /\ file' \in {file, [file EXCEPT !.end = IF @ = "clean" THEN "torn" ELSE "corrupt"]}
  BY DEF WriteFails, Fresh, AppendAllowed, FileCap, Range
<1>2. faults' \in 0..MaxFaults
  BY JournalAssumption DEF WriteFails, Fault, JournalTypeOK
<1>3. mem = file.ops /\ ~Holds(file, o)
  BY <1>1 DEF MemInv, Holds
<1>4. Holding(file, told) /\ \A i \in DOMAIN told : told[i] # o
  BY <1>1, <1>3 DEF CallInv, Holding, Holds
<1>5. /\ file.ops \in Seq(Op) /\ Len(file.ops) \in Nat /\ file.synced \in Nat /\ file.clock \in {0, 1}
      /\ file.synced <= Len(file.ops) /\ file \in Journal /\ DOMAIN file.ops = 1..Len(file.ops)
  BY JournalFields DEF JournalTypeOK
<1>6. /\ file' \in Journal /\ file'.ops = file.ops /\ file'.clock = file.clock
      /\ file'.synced = file.synced /\ file'.lurking = file.lurking
  BY <1>1, <1>5 DEF Journal
<1>7. Sound(file, told, undone, setting)'
  <2>1. file.synced <= file'.synced /\ file'.synced <= Len(file.ops) /\ file'.lurking \in {file.lurking, NoOp}
    BY <1>5, <1>6
  <2>2. Sound(file', told, undone, setting)
    BY <1>0, <1>6, <2>1, SoundFields
  <2>3. Sound(file', told, undone \ {o}, setting)
    BY <2>2, RetrySound
  <2> QED  BY <1>1, <2>3
<1>8. JournalTypeOK'
  <2>1. file'.synced <= Len(file'.ops) /\ Length(file') <= setting.cap
    BY <1>5, <1>6 DEF Length, JournalTypeOK, FileCap
  <2>2. mem' \in Seq(Op)
    BY <1>1, <1>3, <1>5 DEF Staged
  <2> QED  BY <1>1, <1>2, <1>6, <2>1, <2>2 DEF JournalTypeOK, FileCap
<1>9. CallInv'
  <2>1. Holding(file', told')
    BY <1>1, <1>4, <1>6 DEF Holding, Holds
  <2> QED  BY <1>1, <1>4, <2>1 DEF CallInv
<1>10. ~FrameWritten(file)' /\ ~Holds(file', o)
  <2>1. ~Holds(file', o)
    BY <1>3, <1>6 DEF Holds
  <2>2. file'.ops # <<>> => Len(file'.ops) \in DOMAIN file'.ops
    BY <1>5, <1>6, EmptySeq
  <2> QED  BY <1>1, <2>1, <2>2 DEF FrameWritten, Holds
<1>11. MemInv'
  <2>1. \A p \in DOMAIN mem' : mem'[p] \notin undone'
    <3>1. CASE mem' = mem
      BY <1>1, <3>1 DEF MemInv
    <3>2. CASE mem' = Append(mem, o)
      BY <1>1, <1>3, <1>5, <3>2 DEF MemInv
    <3> QED  BY <1>1, <3>1, <3>2 DEF Staged
  <2>2. Wrapper' = "memory" => file'.ops = mem'
    BY <1>0, <1>1, <1>3, <1>6 DEF Wrapper, Staged
  <2> QED  BY <1>1, <1>10, <2>1, <2>2 DEF MemInv
<1>12. FrameInv'
  BY <1>1, <1>10 DEF FrameInv
<1>13. OlderInv'
  <2>1. Len(file.ops) <= Len(file'.ops) /\ pc # "renamed" /\ pc' # "written"
        /\ \A p \in 1..Len(file.ops) : file'.ops[p] = file.ops[p]
    BY <1>1, <1>5, <1>6
  <2> QED  BY <1>1, <1>6, <2>1, OlderStays
<1> QED  BY <1>7, <1>8, <1>9, <1>11, <1>12, <1>13

\* A frame that is synced, or need not be, keeps the invariant, whether the call is answered or
\* goes on to compact.
LEMMA SyncFrameKeeps ==
    ASSUME JournalInv, setting' = setting, SyncFrame
    PROVE  JournalInv'
<1> USE DEF JournalInv
<1>0. Given(told, undone, setting) /\ setting.cap \in Nat /\ setting.wrapper \in {"memory", "knowledge"}
  BY StateGiven, JournalAssumption DEF JournalTypeOK, Setting
<1>1. /\ pc = "written" /\ file' = Synced(file) /\ since' = since + 1
      /\ mem' = IF Wrapper = "memory" THEN Append(mem, cur) ELSE mem
      /\ older' = older /\ poisoned' = poisoned /\ shut' = shut /\ faults' = faults
  BY DEF SyncFrame
<1>2. /\ cur \in Op \ undone /\ Holding(file, told) /\ \A i \in DOMAIN told : told[i] # cur
      /\ ~poisoned /\ ~shut /\ mem' = file.ops
      /\ FrameWritten(file) /\ file.lurking = NoOp
  BY <1>1 DEF CallInv, MemInv, FrameInv
<1>3. /\ file.ops \in Seq(Op) /\ Len(file.ops) \in Nat /\ file.synced \in Nat /\ file.clock \in {0, 1}
      /\ file.synced <= Len(file.ops) /\ file \in Journal
  BY JournalFields DEF JournalTypeOK
<1>4. /\ file' \in Journal /\ file'.ops = file.ops /\ file'.clock = file.clock
      /\ file'.synced = (IF setting.sync THEN Len(file.ops) ELSE file.synced) /\ file'.lurking = NoOp
  BY <1>1, <1>2, <1>3 DEF Journal, Synced, Flushed, File
<1>5. Sound(file', told, undone, setting) /\ Holding(file', told)
  <2>1. file.synced <= file'.synced /\ file'.synced <= Len(file.ops) /\ file'.lurking \in {file.lurking, NoOp}
    BY <1>3, <1>4
  <2>2. Sound(file', told, undone, setting)
    BY <1>0, <1>4, <2>1, SoundFields
  <2> QED  BY <1>2, <1>4, <2>2 DEF Holding, Holds
<1>6. file'.ops # <<>> /\ file'.ops[Len(file'.ops)] = cur /\ (setting.sync => file'.synced = Len(file'.ops))
  BY <1>2, <1>4 DEF FrameWritten
<1>7. file'.synced <= Len(file'.ops) /\ Length(file') <= setting.cap /\ since' \in Nat /\ mem' \in Seq(Op)
  <2>1. since \in Nat
    BY DEF JournalTypeOK
  <2> QED  BY <1>1, <1>2, <1>3, <1>4, <2>1 DEF Length, JournalTypeOK, FileCap
<1>8. \A p \in DOMAIN mem' : mem'[p] \notin undone
  BY <1>2 DEF Sound, Clear
<1>9. \A p \in 1..Len(file.ops) : file'.ops[p] = file.ops[p]
  BY <1>4
<1>10. CASE pc' = "compacting" /\ UNCHANGED <<cur, ghosts>>
  <2>1. cur' = cur /\ told' = told /\ undone' = undone
    BY <1>10 DEF ghosts
  <2>2. JournalTypeOK'
    BY <1>1, <1>4, <1>7, <1>10, <2>1 DEF JournalTypeOK, FileCap
  <2>3. Sound(file, told, undone, setting)'
    BY <1>5, <2>1
  <2>4. CallInv'
    BY <1>2, <1>5, <1>10, <2>1 DEF CallInv
  <2>5. MemInv'
    BY <1>1, <1>2, <1>4, <1>8, <1>10, <2>1 DEF MemInv
  <2>6. FrameInv'
    BY <1>6, <1>10, <2>1 DEF FrameInv, FrameWritten
  <2>7. OlderInv'
    BY <1>1, <1>3, <1>4, <1>9, <1>10, OlderStays
  <2> QED  BY <2>2, <2>3, <2>4, <2>5, <2>6, <2>7
<1>11. CASE Acknowledge
  <2>1. /\ Sound(file', told', undone, setting) /\ Holding(file', told') /\ told' \in Seq(Op)
        /\ undone' = undone /\ pc' = "idle" /\ cur' = NoOp /\ \A i \in DOMAIN told' : told'[i] # NoOp
    BY <1>2, <1>5, <1>6, <1>11, AcknowledgeSound
  <2>2. JournalTypeOK'
    BY <1>1, <1>4, <1>7, <2>1 DEF JournalTypeOK, FileCap
  <2>3. Sound(file, told, undone, setting)'
    BY <2>1
  <2>4. CallInv'
    BY <2>1 DEF CallInv
  <2>5. MemInv'
    BY <1>1, <1>2, <1>4, <1>8, <2>1 DEF MemInv
  <2>6. FrameInv'
    BY <2>1 DEF FrameInv
  <2>7. OlderInv'
    BY <1>1, <1>3, <1>4, <1>9, <2>1, OlderStays
  <2> QED  BY <2>2, <2>3, <2>4, <2>5, <2>6, <2>7
<1> QED  BY <1>10, <1>11 DEF SyncFrame

\* A sync that fails keeps the invariant.
LEMMA SyncFailsKeeps ==
    ASSUME JournalInv, setting' = setting, SyncFails
    PROVE  JournalInv'
<1> USE DEF JournalInv
<1>1. /\ pc = "written" /\ setting.sync /\ pc' = "failed" /\ file' = file /\ older' = older /\ cur' = cur
      /\ mem' = mem /\ since' = since /\ poisoned' = poisoned /\ shut' = shut /\ told' = told
      /\ undone' = undone
  BY DEF SyncFails, disk, handle, ghosts
<1>2. faults' \in 0..MaxFaults
  BY JournalAssumption DEF SyncFails, Fault, JournalTypeOK
<1>3. JournalTypeOK'
  BY <1>1, <1>2 DEF JournalTypeOK, FileCap, Length
<1>4. Sound(file, told, undone, setting)' /\ CallInv'
  BY <1>1 DEF CallInv
<1>5. FrameWritten(file) /\ FrameWritten(file)'
  BY <1>1 DEF FrameInv, FrameWritten
<1>6. MemInv' /\ FrameInv'
  BY <1>1, <1>5 DEF MemInv, FrameInv, Wrapper
<1>7. OlderInv'
  BY <1>1, OlderStays DEF JournalTypeOK
<1> QED  BY <1>3, <1>4, <1>6, <1>7

\* What cutting off the frame of a failed append leaves: a sound file that holds everything told
\* and nothing of the failed call, which is what the memory store's readers see.
LEMMA CutLeaves ==
    ASSUME JournalInv, pc = "failed", NEW lurking \in {NoOp, cur},
           lurking = cur => FrameWritten(file)
    PROVE  /\ Sound(Cut(file, lurking), told, undone, setting)
           /\ Holding(Cut(file, lurking), told) /\ ~Holds(Cut(file, lurking), cur)
           /\ Cut(file, lurking).lurking = lurking
           /\ Wrapper = "memory" => mem = Cut(file, lurking).ops
           /\ ~setting.sync => Cut(file, lurking).ops = file.ops
<1> USE DEF JournalInv
<1>0. Given(told, undone, setting) /\ setting.cap \in Nat
  BY StateGiven
<1>1. /\ cur \in Op \ undone /\ Holding(file, told) /\ \A i \in DOMAIN told : told[i] # cur
      /\ IF FrameWritten(file) THEN setting.sync /\ file.synced < Len(file.ops) /\ file.lurking = NoOp
                               ELSE ~Holds(file, cur)
  BY DEF CallInv, FrameInv
<1>2. /\ file.ops \in Seq(Op) /\ Len(file.ops) \in Nat /\ file.synced \in Nat /\ file.clock \in {0, 1}
      /\ file.synced <= Len(file.ops) /\ file \in Journal
  BY JournalFields DEF JournalTypeOK
<1>3. CASE FrameWritten(file)
  <2> DEFINE g == File(SubSeq(file.ops, 1, Len(file.ops) - 1), file.clock, file.synced, lurking, "clean")
  <2>1. Cut(file, lurking) = g
    BY <1>3 DEF Cut
  <2>2. file.ops # <<>> /\ file.ops[Len(file.ops)] = cur
    BY <1>3 DEF FrameWritten
  <2>3. Sound(g, told, undone, setting) /\ Holding(g, told) /\ ~Holds(g, cur)
    BY <1>0, <1>1, <1>3, <2>2, CutSound
  <2>4. g.ops = SubSeq(file.ops, 1, Len(file.ops) - 1) /\ g.lurking = lurking
    BY DEF File
  <2>5. Wrapper = "memory" => mem = g.ops
    <3>1. SUFFICES ASSUME Wrapper = "memory" PROVE mem = g.ops
      OBVIOUS
    <3>2. file.ops = Append(mem, cur) /\ mem \in Seq(Op)
      BY <1>3, <3>1 DEF MemInv, JournalTypeOK
    <3> QED  BY <2>4, <3>2, FrontOfAppend
  <2> QED  BY <1>1, <1>3, <2>1, <2>3, <2>4, <2>5
<1>4. CASE ~FrameWritten(file)
  <2> DEFINE g == File(file.ops, file.clock, file.synced, lurking, "clean")
  <2>1. Cut(file, lurking) = g
    BY <1>2, <1>4, AllOfIt DEF Cut
  <2>2. lurking = NoOp
    BY <1>4
  <2>3. g \in Journal /\ g.ops = file.ops /\ g.clock = file.clock /\ g.synced = file.synced /\ g.lurking = NoOp
    BY <1>2, <2>2 DEF File, Journal
  <2>4. Sound(g, told, undone, setting)
    <3>1. file.synced <= g.synced /\ g.synced <= Len(file.ops) /\ g.lurking \in {file.lurking, NoOp}
      BY <1>2, <2>3
    <3> HIDE DEF g
    <3> QED  BY <1>0, <2>3, <3>1, SoundFields
  <2>5. Holding(g, told) /\ ~Holds(g, cur)
    BY <1>1, <1>4, <2>3 DEF Holding, Holds
  <2>6. Wrapper = "memory" => mem = g.ops
    BY <1>4, <2>3 DEF MemInv
  <2> QED  BY <2>1, <2>2, <2>3, <2>4, <2>5, <2>6
<1> QED  BY <1>3, <1>4

\* A rollback that works keeps the invariant: the mutation of the failed call is undone.
LEMMA RollBackKeeps ==
    ASSUME JournalInv, setting' = setting, RollBack
    PROVE  JournalInv'
<1> USE DEF JournalInv
<1>0. Given(told, undone, setting) /\ setting.cap \in Nat /\ setting.wrapper \in {"memory", "knowledge"}
  BY StateGiven, JournalAssumption DEF JournalTypeOK, Setting
<1>1. /\ pc = "failed" /\ file' = Flushed(Cut(file, NoOp)) /\ Rebuild(file', FALSE)
      /\ undone' = undone \cup {cur} /\ told' = told /\ pc' = "idle" /\ cur' = NoOp
      /\ older' = older /\ since' = since /\ poisoned' = poisoned
  BY DEF RollBack, Refuse, Answer
<1>2. cur \in Op \ undone /\ ~poisoned /\ ~shut
  BY <1>1 DEF CallInv, MemInv
<1>3. cur # NoOp
  BY <1>2, JournalAssumption
<1>4. PICK f : f = Cut(file, NoOp)
  OBVIOUS
<1>5. /\ Sound(f, told, undone, setting) /\ Holding(f, told) /\ ~Holds(f, cur) /\ f.lurking = NoOp
      /\ Wrapper = "memory" => mem = f.ops
      /\ ~setting.sync => f.ops = file.ops
  BY <1>1, <1>3, <1>4, CutLeaves
<1>6. /\ f \in Journal /\ f.ops \in Seq(Op) /\ Len(f.ops) \in Nat /\ f.synced \in Nat
      /\ f.synced <= Len(f.ops) /\ Length(f) <= setting.cap /\ f.end \in Ends /\ f.clock \in {0, 1}
  BY <1>5, JournalFields DEF Sound, Bounded
<1>7. /\ file' \in Journal /\ file'.ops = f.ops /\ file'.clock = f.clock /\ file'.synced = Len(f.ops)
      /\ file'.lurking = NoOp
  BY <1>1, <1>4, <1>6 DEF Flushed, File, Journal, Ends
<1>8. Sound(file', told, undone, setting) /\ Holding(file', told) /\ ~Holds(file', cur)
  <2>1. f.synced <= file'.synced /\ file'.synced <= Len(f.ops) /\ file'.lurking \in {f.lurking, NoOp}
    BY <1>6, <1>7
  <2>2. Sound(file', told, undone, setting)
    BY <1>0, <1>5, <1>7, <2>1, SoundFields
  <2> QED  BY <1>5, <1>7, <2>2 DEF Holding, Holds
<1>9. Sound(file, told, undone, setting)'
  <2>1. Sound(file', told, undone \cup {cur}, setting)
    BY <1>7, <1>8, UndoSound
  <2> QED  BY <1>1, <2>1
<1>10. /\ mem' \in Seq(Op) /\ shut' \in BOOLEAN /\ faults' \in 0..MaxFaults
       /\ mem' = f.ops \/ mem' = <<>>
       /\ ~shut' => mem' = f.ops
  <2>1. FALSE \in BOOLEAN
    OBVIOUS
  <2>2. /\ mem' \in Seq(Op) /\ shut' \in BOOLEAN /\ faults' \in 0..MaxFaults
        /\ mem' = file'.ops \/ mem' = <<>> \/ (Wrapper = "memory" /\ mem' = mem)
        /\ ~shut' => /\ Wrapper = "memory" => mem' = mem
                     /\ Wrapper = "knowledge" => mem' = file'.ops
    BY <1>1, <1>7, <2>1, RebuildShows
  <2> QED  BY <1>0, <1>5, <1>7, <2>2 DEF Wrapper
<1>11. JournalTypeOK'
  <2>1. file'.synced <= Len(file'.ops) /\ Length(file') <= setting.cap
    BY <1>6, <1>7 DEF Length
  <2>2. undone' \subseteq Op
    BY <1>1, <1>2 DEF JournalTypeOK
  <2> QED  BY <1>1, <1>7, <1>10, <2>1, <2>2 DEF JournalTypeOK, FileCap
<1>12. CallInv'
  <2>1. \A i \in DOMAIN told : told[i] # NoOp
    BY StateGiven, JournalAssumption
  <2> QED  BY <1>1, <1>8, <2>1 DEF CallInv
<1>13. MemInv'
  <2>1. \A p \in DOMAIN mem' : mem'[p] \notin undone'
    BY <1>7, <1>9, <1>10 DEF Sound, Clear
  <2> QED  BY <1>1, <1>7, <1>10, <2>1 DEF MemInv
<1>14. FrameInv'
  BY <1>1 DEF FrameInv
<1>15. OlderInv'
  <2>1. ~setting.sync => /\ Len(file.ops) <= Len(file'.ops)
                         /\ \A p \in 1..Len(file.ops) : file'.ops[p] = file.ops[p]
    BY <1>5, <1>6, <1>7
  <2> QED  BY <1>1, <1>7, <2>1, OlderStays
<1> QED  BY <1>9, <1>11, <1>12, <1>13, <1>14, <1>15

\* A rollback that fails keeps the invariant: the journal is poisoned.
LEMMA RollBackFailsKeeps ==
    ASSUME JournalInv, setting' = setting, RollBackFails
    PROVE  JournalInv'
<1> USE DEF JournalInv
<1>0. Given(told, undone, setting) /\ setting.cap \in Nat
  BY StateGiven
<1>1. /\ pc = "failed" /\ Rebuild(file', TRUE) /\ poisoned' = TRUE
      /\ file' \in {file, Cut(file, IF FrameWritten(file) THEN cur ELSE NoOp)}
      /\ undone' = undone /\ told' = told /\ pc' = "idle" /\ cur' = NoOp
      /\ older' = older /\ since' = since
  BY DEF RollBackFails, Refuse, Answer
<1>2. cur \in Op \ undone /\ cur # NoOp /\ Holding(file, told)
  BY <1>1, JournalAssumption DEF CallInv
<1>3. /\ Sound(file', told, undone, setting) /\ Holding(file', told)
      /\ ~setting.sync => file'.ops = file.ops
  <2>1. CASE file' = file
    BY <1>2, <2>1
  <2>2. CASE file' # file
    <3>1. PICK lurking \in {NoOp, cur} : file' = Cut(file, lurking) /\ (lurking = cur => FrameWritten(file))
      BY <1>1, <1>2, <2>2
    <3> QED  BY <1>1, <3>1, CutLeaves
  <2> QED  BY <2>1, <2>2
<1>4. /\ file' \in Journal /\ file'.ops \in Seq(Op) /\ Len(file'.ops) \in Nat
      /\ file'.synced <= Len(file'.ops) /\ Length(file') <= setting.cap
  BY <1>3, JournalFields DEF Sound, Bounded
<1>5. /\ mem' \in Seq(Op) /\ shut' \in BOOLEAN /\ faults' \in 0..MaxFaults
      /\ mem' = file'.ops \/ mem' = <<>> \/ mem' = mem
  <2>1. TRUE \in BOOLEAN
    OBVIOUS
  <2> QED  BY <1>1, <1>4, <2>1, RebuildShows
<1>6. JournalTypeOK'
  BY <1>1, <1>4, <1>5 DEF JournalTypeOK, FileCap
<1>7. Sound(file, told, undone, setting)'
  BY <1>1, <1>3
<1>8. CallInv'
  <2>1. \A i \in DOMAIN told : told[i] # NoOp
    BY StateGiven, JournalAssumption
  <2> QED  BY <1>1, <1>3, <2>1 DEF CallInv
<1>9. MemInv'
  <2>1. \A p \in DOMAIN mem' : mem'[p] \notin undone'
    BY <1>1, <1>3, <1>5 DEF Sound, Clear, MemInv
  <2> QED  BY <1>1, <2>1 DEF MemInv
<1>10. FrameInv'
  BY <1>1 DEF FrameInv
<1>11. OlderInv'
  <2>1. ~setting.sync => /\ Len(file.ops) <= Len(file'.ops)
                         /\ \A p \in 1..Len(file.ops) : file'.ops[p] = file.ops[p]
    BY <1>3, <1>4
  <2> QED  BY <1>1, <1>4, <2>1, OlderStays
<1> QED  BY <1>6, <1>7, <1>8, <1>9, <1>10, <1>11

\* Starting a compaction, and writing its image, keep the invariant.
LEMMA StageKeeps ==
    ASSUME JournalInv, setting' = setting, Compact \/ WriteImage
    PROVE  JournalInv'
<1> USE DEF JournalInv
<1>1. /\ file' = file /\ older' = older /\ cur' = cur /\ mem' = mem /\ since' = since
      /\ poisoned' = poisoned /\ shut' = shut /\ told' = told /\ undone' = undone /\ faults' = faults
  BY DEF Compact, WriteImage, disk, handle, ghosts
<1>2. \/ pc = "idle" /\ pc' = "compacting" /\ ~poisoned /\ ~shut /\ cur = NoOp
      \/ pc = "compacting" /\ pc' = "staged" /\ Length(Image) <= FileCap
  BY DEF Compact, WriteImage, CallInv
<1>3. JournalTypeOK'
  BY <1>1, <1>2 DEF JournalTypeOK, FileCap, Length
<1>4. Sound(file, told, undone, setting)'
  BY <1>1
<1>5. CallInv'
  BY <1>1, <1>2 DEF CallInv
<1>6. MemInv'
  BY <1>1, <1>2 DEF MemInv
<1>7. FrameInv'
  <2>1. Image' = Image /\ FileCap' = FileCap
    BY <1>1 DEF Image, FileCap, Wrapper
  <2>2. Length(Image') = Length(Image)
    BY <2>1
  <2>3. FrameWritten(file)' = FrameWritten(file)
    BY <1>1 DEF FrameWritten
  <2> QED  BY <1>1, <1>2, <2>1, <2>2, <2>3 DEF FrameInv
<1>8. OlderInv'
  <2>1. file \in Journal /\ Len(file.ops) \in Nat
    BY JournalFields DEF JournalTypeOK
  <2> QED  BY <1>1, <1>2, <2>1, OlderStays
<1> QED  BY <1>3, <1>4, <1>5, <1>6, <1>7, <1>8

\* An answer at the end of a compaction, whether or not it replaced the file.
LEMMA AnswerKeeps ==
    ASSUME JournalInv, setting' = setting, pc \in {"compacting", "staged", "renamed"}, Acknowledge,
           file' = file, mem' = mem, shut' = shut, since' \in Nat, poisoned' \in BOOLEAN,
           faults' \in 0..MaxFaults, older' \subseteq older,
           pc = "renamed" /\ setting.sync /\ "power" \in setting.faults => older' = {}
    PROVE  JournalInv'
<1> USE DEF JournalInv
<1>1. /\ Holding(file, told) /\ \A i \in DOMAIN told : told[i] # cur
      /\ ~poisoned /\ ~shut /\ mem = file.ops
      /\ cur # NoOp => /\ file.ops # <<>> /\ file.ops[Len(file.ops)] = cur
                       /\ setting.sync => file.synced = Len(file.ops)
  BY DEF CallInv, MemInv, FrameInv, FrameWritten
<1>2. /\ Sound(file, told', undone, setting) /\ Holding(file, told') /\ told' \in Seq(Op)
      /\ undone' = undone /\ pc' = "idle" /\ cur' = NoOp /\ \A i \in DOMAIN told' : told'[i] # NoOp
  BY <1>1, AcknowledgeSound
<1>3. JournalTypeOK'
  BY <1>2 DEF JournalTypeOK, FileCap, Length
<1>4. Sound(file, told, undone, setting)'
  BY <1>2
<1>5. CallInv'
  BY <1>2 DEF CallInv
<1>6. MemInv'
  BY <1>1, <1>2 DEF MemInv
<1>7. FrameInv'
  BY <1>2 DEF FrameInv
<1>8. OlderInv'
  <2>1. CASE setting.sync
    <3>1. "power" \in setting.faults => older' = {}
      BY <2>1 DEF OlderInv
    <3> QED  BY <2>1, <3>1 DEF OlderInv
  <2>2. CASE ~setting.sync
    BY <1>2, <2>2 DEF OlderInv, Earlier, FileCap
  <2> QED  BY <2>1, <2>2
<1> QED  BY <1>3, <1>4, <1>5, <1>6, <1>7, <1>8

\* A rewrite that fails keeps the invariant.
LEMMA RewriteFailsKeeps ==
    ASSUME JournalInv, setting' = setting, RewriteFails
    PROVE  JournalInv'
<1>1. /\ pc \in {"compacting", "staged", "renamed"} /\ pc # "renamed" /\ Acknowledge /\ file' = file
      /\ older' = older /\ mem' = mem /\ since' = since /\ poisoned' = poisoned /\ shut' = shut
  BY DEF RewriteFails, disk, handle
<1>2. faults' \in 0..MaxFaults /\ since' \in Nat /\ poisoned' \in BOOLEAN
  BY <1>1, JournalAssumption DEF RewriteFails, Fault, JournalTypeOK, JournalInv
<1>3. older' \subseteq older
  BY <1>1
<1> QED  BY <1>1, <1>2, <1>3, AnswerKeeps

\* Opening the renamed file, or failing to, keeps the invariant.
LEMMA ReopenKeeps ==
    ASSUME JournalInv, DirectoryIsDurable, setting' = setting, Reopen \/ ReopenFails
    PROVE  JournalInv'
<1>1. /\ pc = "renamed" /\ SyncParent /\ Acknowledge /\ file' = file /\ mem' = mem /\ shut' = shut
      /\ since' \in {0, since} /\ poisoned' \in {TRUE, poisoned}
  BY DEF Reopen, ReopenFails
<1>2. faults' \in 0..MaxFaults /\ since' \in Nat /\ poisoned' \in BOOLEAN
  <2>1. faults \in 0..MaxFaults /\ since \in Nat /\ poisoned \in BOOLEAN /\ MaxFaults \in Nat
    BY JournalAssumption DEF JournalTypeOK, JournalInv
  <2>2. poisoned' \in BOOLEAN
    BY <1>1, <2>1
  <2>3. faults' = faults \/ (faults < MaxFaults /\ faults' = faults + 1)
    BY DEF Reopen, ReopenFails, Fault
  <2> QED  BY <1>1, <2>1, <2>2, <2>3
<1>3. older' \subseteq older
  BY <1>1 DEF SyncParent
<1>4. setting.sync /\ "power" \in setting.faults => older' = {}
  BY <1>1 DEF SyncParent, DirectoryIsDurable, JournalInv, JournalTypeOK
<1>5. pc \in {"compacting", "staged", "renamed"}
  BY <1>1
<1> QED  BY <1>1, <1>2, <1>3, <1>4, <1>5, AnswerKeeps

\* Replacing the file by its image keeps the invariant.
LEMMA RenameKeeps ==
    ASSUME JournalInv, setting' = setting, Rename
    PROVE  JournalInv'
<1> USE DEF JournalInv
<1>0. Given(told, undone, setting) /\ setting.cap \in Nat
  BY StateGiven
<1>1. /\ pc = "staged" /\ file' = Image /\ older' = older \cup Survivors(file) /\ pc' = "renamed"
      /\ cur' = cur /\ mem' = mem /\ since' = since /\ poisoned' = poisoned /\ shut' = shut
      /\ told' = told /\ undone' = undone /\ faults' = faults
  BY DEF Rename, handle, ghosts
<1>2. /\ Holding(file, told) /\ (\A i \in DOMAIN told : told[i] # cur)
      /\ mem = file.ops /\ ~poisoned /\ ~shut /\ Length(Image) <= setting.cap
      /\ cur # NoOp => FrameWritten(file)
  BY <1>1 DEF CallInv, MemInv, FrameInv, FileCap
<1>3. /\ file.ops \in Seq(Op) /\ Len(file.ops) \in Nat /\ file.synced \in Nat
      /\ file.synced <= Len(file.ops) /\ file \in Journal
  BY JournalFields DEF JournalTypeOK
<1>4. PICK clock \in {0, 1} : file' = File(mem, clock, Len(mem), NoOp, "clean")
  BY <1>1 DEF Image
<1>5. /\ file' \in Journal /\ file'.ops = file.ops /\ file'.clock = clock /\ file'.synced = Len(file.ops)
      /\ file'.lurking = NoOp
  BY <1>2, <1>3, <1>4 DEF File, Journal
<1>6. file'.clock + Len(file'.ops) <= setting.cap
  BY <1>1, <1>2 DEF Length
<1>7. Sound(file', told, undone, setting)
  <2>1. /\ Len(file'.ops) <= Len(file.ops) /\ (\A p \in 1..Len(file'.ops) : file'.ops[p] = file.ops[p])
        /\ file'.synced <= Len(file'.ops) /\ file.synced <= file'.synced
    BY <1>3, <1>5
  <2> QED  BY <1>0, <1>5, <1>6, <2>1, PrefixSound
<1>8. \A g \in Survivors(file) :
          /\ Sound(g, told, undone, setting) /\ g \in Journal
          /\ ~setting.sync => Earlier(g, file')
  <2> SUFFICES ASSUME NEW g \in Survivors(file)
               PROVE  /\ Sound(g, told, undone, setting) /\ g \in Journal
                      /\ ~setting.sync => Earlier(g, file')
    OBVIOUS
  <2>1. /\ Sound(g, told, undone, setting) /\ g.lurking = NoOp
        /\ ~setting.sync => /\ Len(g.ops) <= Len(file.ops) /\ g.synced <= Len(g.ops)
                            /\ \A p \in 1..Len(g.ops) : g.ops[p] = file.ops[p]
                            /\ Length(g) <= setting.cap
    BY <1>0, SurvivorSound
  <2> QED  BY <1>5, <2>1 DEF Sound, Earlier, FileCap
<1>9. JournalTypeOK'
  <2>1. file'.synced <= Len(file'.ops) /\ Length(file') <= setting.cap
    BY <1>3, <1>5, <1>6 DEF Length
  <2>2. older' \subseteq Journal
    BY <1>1, <1>8 DEF JournalTypeOK
  <2> QED  BY <1>1, <1>5, <2>1, <2>2 DEF JournalTypeOK, FileCap
<1>10. Sound(file, told, undone, setting)'
  BY <1>1, <1>7
<1>11. CallInv'
  <2>1. Holding(file', told)
    BY <1>2, <1>5 DEF Holding, Holds
  <2> QED  BY <1>1, <1>2, <2>1 DEF CallInv
<1>12. MemInv'
  BY <1>1, <1>2, <1>5 DEF MemInv
<1>13. FrameInv'
  BY <1>1, <1>2, <1>5 DEF FrameInv, FrameWritten
<1>14. OlderInv'
  <2>1. CASE setting.sync
    BY <1>1, <1>8, <2>1 DEF OlderInv
  <2>2. CASE ~setting.sync
    <3>1. "power" \in setting.faults => \A g \in older : Earlier(g, file')
      BY <1>5, <2>2 DEF OlderInv, Earlier
    <3>2. "power" \in setting.faults => \A g \in older' : Earlier(g, file')
      BY <1>1, <1>8, <2>2, <3>1
    <3>3. \A g : Earlier(g, file') => Earlier(g, file)'
      BY DEF Earlier, FileCap
    <3> QED  BY <1>1, <2>2, <3>2, <3>3 DEF OlderInv
  <2> QED  BY <2>1, <2>2
<1> QED  BY <1>9, <1>10, <1>11, <1>12, <1>13, <1>14

\* A store that is down, over a sound file.
LEMMA DownKeeps ==
    ASSUME JournalInv, setting' = setting, Down, faults' \in 0..MaxFaults,
           Sound(file', told, undone, setting), older' \subseteq Journal,
           "power" \in setting.faults =>
               IF setting.sync THEN older' = {} ELSE \A g \in older' : Earlier(g, file')
    PROVE  JournalInv'
<1> USE DEF JournalInv
<1>1. /\ pc' = "closed" /\ cur' = NoOp /\ mem' = <<>> /\ since' = 0 /\ poisoned' = FALSE
      /\ shut' = FALSE /\ told' = told /\ undone' = undone
  BY DEF Down
<1>2. file' \in Journal /\ file'.synced <= Len(file'.ops) /\ Length(file') <= setting.cap
  BY DEF Sound, Bounded
<1>3. JournalTypeOK'
  <2>1. <<>> \in Seq(Op)
    OBVIOUS
  <2> QED  BY <1>1, <1>2, <2>1 DEF JournalTypeOK, FileCap
<1>4. Sound(file, told, undone, setting)'
  BY <1>1
<1>5. CallInv' /\ MemInv' /\ FrameInv'
  BY <1>1 DEF CallInv, MemInv, FrameInv
<1>6. OlderInv'
  <2>1. \A g : Earlier(g, file') => Earlier(g, file)'
    BY DEF Earlier, FileCap
  <2> QED  BY <1>1, <2>1 DEF OlderInv
<1> QED  BY <1>3, <1>4, <1>5, <1>6

\* A process that dies keeps the invariant.
LEMMA KillKeeps ==
    ASSUME JournalInv, DirectoryIsDurable, setting' = setting, Kill
    PROVE  JournalInv'
<1>1. Down /\ file' = file /\ older' = older /\ (pc = "idle" \/ "kill" \in setting.faults)
  BY DEF Kill, disk, Fault
<1>2. faults' \in 0..MaxFaults
  BY JournalAssumption DEF Kill, Fault, JournalInv, JournalTypeOK
<1>3. Sound(file', told, undone, setting) /\ older' \subseteq Journal
  BY <1>1 DEF JournalInv, JournalTypeOK
<1>4. ASSUME "power" \in setting.faults
      PROVE  IF setting.sync THEN older' = {} ELSE \A g \in older' : Earlier(g, file')
  <2>1. CASE setting.sync
    <3>1. pc = "idle"
      BY <1>1, <1>4, <2>1 DEF DirectoryIsDurable, JournalInv, JournalTypeOK
    <3> QED  BY <1>1, <1>4, <2>1, <3>1 DEF JournalInv, OlderInv
  <2>2. CASE ~setting.sync
    BY <1>1, <1>4, <2>2 DEF JournalInv, OlderInv
  <2> QED  BY <2>1, <2>2
<1> QED  BY <1>1, <1>2, <1>3, <1>4, DownKeeps

\* A power loss keeps the invariant, whichever file the directory names afterwards.
LEMMA PowerLossKeeps ==
    ASSUME JournalInv, DirectoryIsDurable, setting' = setting, PowerLoss
    PROVE  JournalInv'
<1>0. Given(told, undone, setting) /\ Sound(file, told, undone, setting)
  BY StateGiven DEF JournalInv
<1>1. Down /\ "power" \in setting.faults
  BY DEF PowerLoss, Fault
<1>2. faults' \in 0..MaxFaults
  BY JournalAssumption DEF PowerLoss, Fault, JournalInv, JournalTypeOK
<1>3. CASE file' \in Survivors(file) /\ older' = {}
  <2>1. Sound(file', told, undone, setting)
    BY <1>0, <1>3, SurvivorSound
  <2> QED  BY <1>1, <1>2, <1>3, <2>1, DownKeeps
<1>4. CASE file' \in older /\ older' = Unnamed \cap {file'}
  <2>1. file' \in Journal
    BY <1>4 DEF JournalInv, JournalTypeOK
  <2>2. CASE setting.sync
    <3>1. Sound(file', told, undone, setting)
      BY <1>1, <1>4, <2>2 DEF JournalInv, OlderInv
    <3>2. older' = {}
      BY <1>1, <1>4, <2>2 DEF DirectoryIsDurable, Unnamed, JournalInv, JournalTypeOK
    <3> QED  BY <1>1, <1>2, <2>2, <3>1, <3>2, DownKeeps
  <2>3. CASE ~setting.sync
    <3>1. Earlier(file', file)
      BY <1>1, <1>4, <2>3 DEF JournalInv, OlderInv
    <3>2. /\ Len(file'.ops) <= Len(file.ops) /\ \A p \in 1..Len(file'.ops) : file'.ops[p] = file.ops[p]
          /\ file'.clock + Len(file'.ops) <= setting.cap /\ file'.synced <= Len(file'.ops)
          /\ file'.lurking = NoOp
      BY <3>1 DEF Earlier, Length, FileCap
    <3>3. Sound(file', told, undone, setting)
      BY <1>0, <2>1, <2>3, <3>2, PrefixSound
    <3>4. older' \subseteq {file'}
      BY <1>4
    <3>5. Earlier(file', file')
      <4>1. Len(file'.ops) \in Nat
        BY <2>1, JournalFields
      <4> QED  BY <3>1, <4>1 DEF Earlier
    <3>6. older' \subseteq Journal /\ \A g \in older' : Earlier(g, file')
      BY <2>1, <3>4, <3>5
    <3> QED  BY <1>1, <1>2, <2>3, <3>3, <3>6, DownKeeps
  <2> QED  BY <2>2, <2>3
<1> QED  BY <1>3, <1>4 DEF PowerLoss

\* The journal starts in a state of the invariant.
LEMMA JournalInitInv ==
    ASSUME JournalInit, DirectoryIsDurable
    PROVE  JournalInv
<1>1. /\ EmptyJournal \in Journal /\ EmptyJournal.ops = <<>> /\ EmptyJournal.clock = 0
      /\ EmptyJournal.synced = 0 /\ EmptyJournal.lurking = NoOp
  BY DEF EmptyJournal, File, Journal
<1>2. setting \in Setting /\ setting.cap \in Nat /\ MaxFaults \in Nat
  BY JournalAssumption DEF JournalInit, Setting
<1>3. /\ setting \in Settings /\ file = EmptyJournal /\ older \subseteq {EmptyJournal}
      /\ ("entry" \notin setting.faults => older = {})
      /\ pc = "closed" /\ cur = NoOp /\ mem = <<>> /\ since = 0 /\ poisoned = FALSE /\ shut = FALSE
      /\ told = <<>> /\ undone = {} /\ faults = 0
  BY DEF JournalInit, Unnamed
<1>4. Len(<<>>) = 0 /\ DOMAIN <<>> = {} /\ <<>> \in Seq(Op)
  OBVIOUS
<1>5. JournalTypeOK
  <2>1. file \in Journal /\ older \subseteq Journal
    BY <1>1, <1>3
  <2>2. file.synced <= Len(file.ops) /\ Length(file) <= setting.cap
    BY <1>1, <1>2, <1>3, <1>4 DEF Length
  <2>3. poisoned \in BOOLEAN /\ shut \in BOOLEAN
    <3> QED  BY <1>3, Zenon
  <2>4. since \in Nat /\ faults \in 0..MaxFaults
    BY <1>2, <1>3
  <2> QED  BY <1>3, <1>4, <2>1, <2>2, <2>3, <2>4 DEF JournalTypeOK, FileCap
<1>6. Sound(file, told, undone, setting)
  BY <1>1, <1>2, <1>3, <1>4
     DEF Sound, Bounded, Distinct, Clear, Ordered, NoGaps, Durable, Lurks, Length
<1>7. CallInv /\ MemInv /\ FrameInv
  BY <1>3, <1>4 DEF CallInv, MemInv, FrameInv
<1>8. OlderInv
  <2>1. setting.sync /\ "power" \in setting.faults => older = {}
    BY <1>3 DEF DirectoryIsDurable
  <2>2. Earlier(EmptyJournal, EmptyJournal)
    BY <1>1, <1>2, <1>4 DEF Earlier, Length, FileCap
  <2> QED  BY <1>3, <2>1, <2>2 DEF OlderInv
<1> QED  BY <1>5, <1>6, <1>7, <1>8 DEF JournalInv

\* Every step of the journal and its store keeps the invariant.
LEMMA JournalStepKeeps ==
    ASSUME JournalInv, DirectoryIsDurable, [JournalNext]_journalVars
    PROVE  JournalInv'
<1>1. CASE UNCHANGED journalVars
  <2>1. /\ setting' = setting /\ file' = file /\ older' = older /\ pc' = pc /\ cur' = cur /\ mem' = mem
        /\ since' = since /\ poisoned' = poisoned /\ shut' = shut /\ told' = told
        /\ undone' = undone /\ faults' = faults
    BY <1>1 DEF journalVars
  <2>2. JournalTypeOK' /\ Sound(file, told, undone, setting)' /\ CallInv' /\ MemInv'
    BY <2>1 DEF JournalInv, JournalTypeOK, FileCap, CallInv, MemInv, Wrapper, FrameWritten
  <2>3. FrameInv' /\ OlderInv'
    BY <2>1 DEF JournalInv, FrameInv, OlderInv, Earlier, FileCap, Image, Wrapper, FrameWritten
  <2> QED  BY <2>2, <2>3 DEF JournalInv
<1>2. CASE JournalNext
  <2>1. setting' = setting
    BY <1>2 DEF JournalNext
  <2> QED  BY <1>2, <2>1, OpenKeeps, AppendRefusedKeeps, WriteFrameKeeps, WriteFailsKeeps, SyncFrameKeeps,
              SyncFailsKeeps, RollBackKeeps, RollBackFailsKeeps, StageKeeps, RewriteFailsKeeps,
              RenameKeeps, ReopenKeeps, KillKeeps, PowerLossKeeps DEF JournalNext, JournalStep
<1> QED  BY <1>1, <1>2

-----------------------------------------------------------------------------
(* MemoryJournal: theorems *)

\* Every reachable state of a journal is well typed, and its file never outgrows the cap a later
\* open would refuse it for.
THEOREM JournalTypeCorrect ==
    ASSUME DirectoryIsDurable
    PROVE  JournalSpec => []JournalTypeOK
<1>1. JournalInit => JournalInv
  BY JournalInitInv
<1>2. JournalInv /\ [JournalNext]_journalVars => JournalInv'
  BY JournalStepKeeps
<1>3. JournalInv => JournalTypeOK
  BY DEF JournalInv
<1> QED  BY <1>1, <1>2, <1>3, PTL DEF JournalSpec

\* Everything a store acknowledged is in its journal, once and in order, whatever failed, was
\* compacted or was cut off, killed or lost power since; without a sync per append a power loss
\* takes only the end of it.
THEOREM JournalRecoversAcked ==
    ASSUME DirectoryIsDurable
    PROVE  JournalSpec => []JournalKeepsAcked
<1>1. JournalInit => JournalInv
  BY JournalInitInv
<1>2. JournalInv /\ [JournalNext]_journalVars => JournalInv'
  BY JournalStepKeeps
<1>3. ASSUME JournalInv PROVE JournalKeepsAcked
  <2>1. Sound(file, told, undone, setting) /\ JournalTypeOK
    BY <1>3 DEF JournalInv
  <2>2. Ordered(file, told) /\ NoGaps(file, told) /\ (setting.sync => Durable(file, told))
    BY <2>1 DEF Sound
  <2>3. /\ DOMAIN file.ops = 1..Len(file.ops) /\ Len(file.ops) \in Nat /\ file.synced \in Nat
        /\ file.synced <= Len(file.ops)
    BY <2>1, JournalFields DEF JournalTypeOK
  <2>4. \A o : o \in Range(file.ops) <=> Holds(file, o)
    BY DEF Range, Holds
  <2>5. ASSUME setting.sync, NEW i \in DOMAIN told  PROVE Holds(file, told[i])
    BY <2>2, <2>3, <2>5 DEF Durable, Holds
  <2> QED  BY <2>2, <2>4, <2>5 DEF JournalKeepsAcked, Ordered, NoGaps
<1> QED  BY <1>1, <1>2, <1>3, PTL DEF JournalSpec

\* A mutation that was refused and rolled back never comes back, from no open, power loss,
\* compaction or rebuild, until it is tried again.
THEOREM RolledBackStaysAway ==
    ASSUME DirectoryIsDurable
    PROVE  JournalSpec => []RolledBackNeverReturns
<1>1. JournalInit => JournalInv
  BY JournalInitInv
<1>2. JournalInv /\ [JournalNext]_journalVars => JournalInv'
  BY JournalStepKeeps
<1>3. ASSUME JournalInv PROVE RolledBackNeverReturns
  BY <1>3 DEF JournalInv, Sound, Clear, MemInv, RolledBackNeverReturns, Range
<1> QED  BY <1>1, <1>2, <1>3, PTL DEF JournalSpec
=============================================================================
