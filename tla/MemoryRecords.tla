--------------------------- MODULE MemoryRecords ---------------------------
(***************************************************************************)
(* The records of DurableMemoryStore (crates/ptr-memory/src/               *)
(* memory_store.rs, record.rs, consolidation.rs): their lifecycle, the     *)
(* authority gate, and how a revocation reaches everything derived from a  *)
(* record. Every operation is one journal frame (module MemoryJournal), so *)
(* here it is one step.                                                    *)
(*                                                                         *)
(* Abstractions.                                                           *)
(*  - Bodies, clock ticks and the limits on field sizes are left out; a    *)
(*    support repeated on one record counts once.                          *)
(*  - Which records retention finds old enough and not pinned, and which   *)
(*    ones a verifier contradicts, are inputs.                             *)
(***************************************************************************)
EXTENDS Integers, FiniteSets

CONSTANTS
    Id,           \* MemoryRecordId
    NewClass,     \* the classes callers insert
    Supports,     \* the supports a caller may offer
    MaxRevision,  \* bound on the committed horizon
    MaxPerClass,  \* MemoryLimits.max_records_per_class
    MaxParents,   \* MemoryLimits.max_derived_from
    MaxDepth,     \* MemoryLimits.max_revocation_depth
    MaxVisited    \* MemoryLimits.max_revocation_visited

Class == {"semantic", "episodic", "procedural", "epistemic"}   \* MemoryClass
Support == [source : STRING, kind : {"observation", "inferred"}, revision : Nat]

ASSUME RecordAssumption ==
    /\ NewClass \subseteq Class
    /\ Supports \subseteq Support
    /\ {MaxRevision, MaxPerClass, MaxParents, MaxDepth, MaxVisited} \subseteq Nat

VARIABLES
    rec,      \* DurableMemoryStore.records
    horizon   \* DurableMemoryStore.horizon

vars == <<rec, horizon>>

State == {"Provisional", "Authoritative", "NeedsRevalidation", "Retired", "Revoked"}
Record == [state : State \cup {"Absent"}, class : Class, supports : SUBSET Supports,
           derived_from : SUBSET Id, revoked_ancestors : SUBSET Id]

Held == {i \in Id : rec[i].state # "Absent"}
Live(r) == r.state \in {"Provisional", "Authoritative", "NeedsRevalidation"}

TypeOK ==
    /\ rec \in [Id -> Record]
    /\ horizon \in 0..MaxRevision

Init ==
    /\ rec = [i \in Id |-> [state |-> "Absent", class |-> "semantic", supports |-> {},
                            derived_from |-> {}, revoked_ancestors |-> {}]]
    /\ horizon = 0

-----------------------------------------------------------------------------
(* record.rs *)

CanTransitionTo(from, to) ==
    <<from, to>> \in
        {<<"Provisional", "Authoritative">>, <<"Provisional", "Retired">>,
         <<"Provisional", "Revoked">>,
         <<"Authoritative", "NeedsRevalidation">>, <<"Authoritative", "Retired">>,
         <<"Authoritative", "Revoked">>,
         <<"NeedsRevalidation", "Authoritative">>, <<"NeedsRevalidation", "Provisional">>,
         <<"NeedsRevalidation", "Retired">>, <<"NeedsRevalidation", "Revoked">>,
         <<"Retired", "Revoked">>}

IsCommitted(s, h) == s.kind = "observation" /\ s.revision <= h

HasCommittedSupport(r, h) == \E s \in r.supports : IsCommitted(s, h)

CommittedSources(r, h) == {s.source : s \in {x \in r.supports : IsCommitted(x, h)}}

-----------------------------------------------------------------------------
(* memory_store.rs: helpers *)

Revoked(i) == rec[i].state = "Revoked"
ClassCount(c) == Cardinality({i \in Held : rec[i].class = c})
Children(S) == {i \in Held : rec[i].derived_from \cap S # {}}

\* dependents_closure: everything that reaches root by derived_from, root itself left out.
Dependents(root) ==
    {i \in Id : \A S \in SUBSET Id : {root} \cup Children(S) \subseteq S => i \in S} \ {root}

\* Breadth-first levels, for the two bounds of the traversal.
Within(root) ==
    LET W[n \in Nat] == IF n = 0 THEN {root} ELSE W[n - 1] \cup Children(W[n - 1]) IN W

TraversalFits(root) ==
    /\ Cardinality(Dependents(root)) <= MaxVisited
    /\ Within(root)[MaxDepth + 1] = Within(root)[MaxDepth]

\* The markers are added and the state is left as it is.
FlagQuietly(r, markers) ==
    IF Live(r) THEN [r EXCEPT !.revoked_ancestors = @ \cup markers] ELSE r

\* flag_inheriting, and what revoke does to a dependent.
Flag(r, markers) ==
    IF Live(r) THEN [r EXCEPT !.state = "NeedsRevalidation", !.revoked_ancestors = @ \cup markers]
    ELSE r

AuthorityGate(r) ==
    /\ HasCommittedSupport(r, horizon)
    /\ \A a \in r.derived_from \cup r.revoked_ancestors : ~Revoked(a)

MadeAuthoritative(r) == [r EXCEPT !.state = "Authoritative", !.revoked_ancestors = {}]

-----------------------------------------------------------------------------
(* memory_store.rs: operations *)

\* A new record starts without its parents' markers.
InsertClean(i, c, supports, parents) ==
    /\ rec[i].state = "Absent" /\ ClassCount(c) < MaxPerClass
    /\ parents \subseteq Held \ {i} /\ Cardinality(parents) <= MaxParents
    /\ \A p \in parents : ~Revoked(p)
    /\ rec' = [rec EXCEPT ![i] =
                  [state |-> "Provisional", class |-> c, supports |-> supports,
                   derived_from |-> parents, revoked_ancestors |-> {}]]
    /\ UNCHANGED horizon

Insert(i, c, supports, parents) ==
    /\ rec[i].state = "Absent" /\ ClassCount(c) < MaxPerClass
    /\ parents \subseteq Held \ {i} /\ Cardinality(parents) <= MaxParents
    /\ \A p \in parents : ~Revoked(p)
    /\ LET markers == UNION {rec[p].revoked_ancestors : p \in parents}
       IN  rec' = [rec EXCEPT ![i] =
                      [state |-> IF markers = {} THEN "Provisional" ELSE "NeedsRevalidation",
                       class |-> c, supports |-> supports, derived_from |-> parents,
                       revoked_ancestors |-> markers]]
    /\ UNCHANGED horizon

AddSupport(i, s) ==
    /\ Live(rec[i])
    /\ rec' = [rec EXCEPT ![i].supports = @ \cup {s}]
    /\ UNCHANGED horizon

AddDerivation(i, from) ==
    /\ i # from /\ Live(rec[i]) /\ from \in Held /\ ~Revoked(from)
    /\ from \notin rec[i].derived_from /\ Cardinality(rec[i].derived_from) < MaxParents
    /\ LET linked == [rec[i] EXCEPT !.derived_from = @ \cup {from}]
           markers == rec[from].revoked_ancestors
       IN  \/ /\ markers = {}
              /\ rec' = [rec EXCEPT ![i] = linked]
           \/ /\ markers # {} /\ TraversalFits(i)
              /\ rec' = [j \in Id |-> IF j = i THEN Flag(linked, markers)
                                      ELSE IF j \in Dependents(i) THEN Flag(rec[j], markers)
                                      ELSE rec[j]]
    /\ UNCHANGED horizon

AdvanceCommittedRevision(r) ==
    /\ r > horizon
    /\ horizon' = r
    /\ UNCHANGED rec

Revoke(i) ==
    /\ i \in Held /\ ~Revoked(i)
    /\ TraversalFits(i)
    /\ rec' = [j \in Id |-> IF j = i THEN [rec[i] EXCEPT !.state = "Revoked"]
                            ELSE IF j \in Dependents(i) THEN Flag(rec[j], {i})
                            ELSE rec[j]]
    /\ UNCHANGED horizon

\* transition to Revoked is Revoke.
Transition(i, to) ==
    /\ to # "Revoked" /\ CanTransitionTo(rec[i].state, to)
    /\ to = "Authoritative" => AuthorityGate(rec[i])
    /\ rec' = [rec EXCEPT ![i] = IF to = "Authoritative" THEN MadeAuthoritative(@)
                                 ELSE [@ EXCEPT !.state = to]]
    /\ UNCHANGED horizon

RoomToPromote == ClassCount("semantic") < MaxPerClass

\* promote under a policy that asks for `need` independent sources. decide_promotion refuses a
\* contradicted record, so only one that is not contradicted gets here.
Promote(i, need) ==
    /\ Live(rec[i]) /\ rec[i].class = "episodic"
    /\ HasCommittedSupport(rec[i], horizon)
    /\ Cardinality(CommittedSources(rec[i], horizon)) >= need
    /\ rec[i].state # "Authoritative" => AuthorityGate(rec[i])
    /\ RoomToPromote
    /\ LET r == IF rec[i].state = "Authoritative" THEN rec[i] ELSE MadeAuthoritative(rec[i])
       IN  rec' = [rec EXCEPT ![i] = [r EXCEPT !.class = "semantic"]]
    /\ UNCHANGED horizon

\* What decide_retention says of a record, and apply_retention does where can_transition_to allows.
Verdict(i, aged, contradicted) ==
    IF rec[i].state = "Authoritative"
    THEN IF i \in contradicted THEN "NeedsRevalidation" ELSE rec[i].state
    ELSE IF Live(rec[i]) /\ rec[i].class = "episodic" /\ i \in aged THEN "Retired"
    ELSE rec[i].state

ApplyRetention(aged, contradicted) ==
    /\ \E i \in Id : Verdict(i, aged, contradicted) # rec[i].state
    /\ rec' = [i \in Id |-> [rec[i] EXCEPT !.state = Verdict(i, aged, contradicted)]]
    /\ UNCHANGED horizon

Next ==
    \/ \E i \in Id :
        \/ \E c \in NewClass, supports \in SUBSET Supports, parents \in SUBSET Id :
              Insert(i, c, supports, parents)
        \/ \E s \in Supports : AddSupport(i, s)
        \/ \E from \in Id : AddDerivation(i, from)
        \/ Revoke(i)
        \/ \E to \in State : Transition(i, to)
        \/ \E need \in 1..2 : Promote(i, need)
    \/ \E r \in 0..MaxRevision : AdvanceCommittedRevision(r)
    \/ \E aged, contradicted \in SUBSET Id : ApplyRetention(aged, contradicted)

Spec == Init /\ [][Next]_vars

-----------------------------------------------------------------------------
(* Properties *)

\* An authoritative record carries a committed observation and no marker of a revocation.
AuthorityIsEarned ==
    \A i \in Held : rec[i].state = "Authoritative" =>
        HasCommittedSupport(rec[i], horizon) /\ rec[i].revoked_ancestors = {}

\* Whatever was revoked above a record, in whatever order records were derived, flagged, revoked
\* and revalidated, a live record knows of it: it carries every marker of each record it is
\* derived from, and the record itself if that was revoked. Along live records every revoked
\* ancestor is thereby among its markers.
MarkersFlow ==
    \A i \in Id : Live(rec[i]) =>
        \A p \in rec[i].derived_from :
            /\ rec[p].revoked_ancestors \subseteq rec[i].revoked_ancestors
            /\ Revoked(p) => p \in rec[i].revoked_ancestors

\* Revoked is for ever, and a retired record only ever becomes revoked: no flagging, retention,
\* promotion or transition brings one back.
TerminalStays ==
    [][\A i \in Id : /\ Revoked(i) => rec'[i] = rec[i]
                     /\ rec[i].state = "Retired" => rec'[i].state \in {"Retired", "Revoked"}]_vars
=============================================================================
