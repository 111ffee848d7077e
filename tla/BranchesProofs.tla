--------------------------- MODULE BranchesProofs ---------------------------
(***************************************************************************)
(* Proofs about Branches, for any keys, dependency graph, tasks, host      *)
(* deltas and number of branches.                                          *)
(*                                                                         *)
(* A reviewer gets what was shown because the states the runtime holds are *)
(* one lineage: a revision names one state, and the log is ahead of the    *)
(* runtime by at most the append it is fenced for.                         *)
(*                                                                         *)
(* Derived values are fresh for any graph of dependencies, provided no     *)
(* author puts a derived value while the branch's own changes evict an     *)
(* input of it (NoOwnEviction).  Without that the branch shows the input   *)
(* absent, certification compares the base value, and a host that meanwhile*)
(* cut the input off from what evicts it lets the merge through.           *)
(***************************************************************************)
EXTENDS Branches, TLAPS

\* No branch overwrites a derived value while its own changes evict an input of it.
NoOwnEviction ==
    \A b \in Branch : branch[b].stage = "sealed" =>
        \A key \in Key : Overwrites(branch[b], key) =>
            \A i \in branch[b].base.inputs[key] :
                i \in Touched(branch[b]) \/ ~ChangesInputOf(branch[b], i)

\* Every value of a log is computed from what its inputs hold.
Fresh(d) ==
    \A key \in Key :
        d.basis[key] = IF d.state.ground[key] = Absent THEN NoKeys
                       ELSE InputsOf(d.state.inputs, d.state.ground, key)

\* The dependency graph of a log.
Graph(d) == d.state.inputs \in [Key -> SUBSET Key] /\ Acyclic(d.state.inputs)

\* No two merges of a log, which are in the order of its records, have one branch id.
MergedOnce(d) == \A i, j \in DOMAIN d.merges : d.merges[i].branch = d.merges[j].branch => i = j
InOrder(d) == \E S : d.merges \in Seq(S)

\* The log and the runtime are one lineage of states, the log ahead by an unknown append.
Lineage ==
    /\ disk.state.revision \in Nat /\ mem.state.revision \in Nat
    /\ ~fenced => disk = mem
    /\ disk = mem \/ disk.state.revision > mem.state.revision

\* An approval is of a plan for the present state or an earlier one, and what was shown is
\* what the plan publishes.
ApprovalsHold ==
    \A a \in approved :
        /\ a.plan.expected \in Nat /\ a.plan.expected <= mem.state.revision
        /\ a.plan.expected = mem.state.revision => a.shown = Prepared(mem.state, a.plan.delta)

MergesInv(d) == InOrder(d) /\ MergedOnce(d)

BranchInv == Lineage /\ ApprovalsHold /\ MergesInv(disk) /\ MergesInv(mem)

FreshInv == Graph(disk) /\ Graph(mem) /\ Fresh(disk) /\ Fresh(mem)

-----------------------------------------------------------------------------
(* The dependency graph *)

\* What a change affects holds the change and everything derived from what it holds
\* (affected_by).
LEMMA AffectedClosed ==
    ASSUME NEW inputs \in [Key -> SUBSET Key], NEW changed \in SUBSET Key
    PROVE  /\ AffectedBy(inputs, changed) \subseteq Key
           /\ changed \subseteq AffectedBy(inputs, changed)
           /\ \A k \in Key, i \in AffectedBy(inputs, changed) :
                 i \in inputs[k] => k \in AffectedBy(inputs, changed)
<1>1. AffectedBy(inputs, changed) \subseteq Key /\ changed \subseteq AffectedBy(inputs, changed)
  BY DEF AffectedBy
<1>2. ASSUME NEW k \in Key, NEW i \in AffectedBy(inputs, changed), i \in inputs[k]
      PROVE  k \in AffectedBy(inputs, changed)
  <2>1. SUFFICES ASSUME k \notin changed, NEW more \in SUBSET {j \in Key : inputs[j] # {}},
                        Dependents(inputs, changed \cup more) \subseteq changed \cup more
                 PROVE  k \in more
    BY <1>2 DEF AffectedBy
  <2>2. i \in changed \cup more
    BY <2>1 DEF AffectedBy
  <2>3. k \in Dependents(inputs, changed \cup more)
    BY <1>2, <2>2 DEF Dependents
  <2> QED BY <2>1, <2>3
<1> QED BY <1>1, <1>2

\* What a change affects lies in every set that holds the change and is closed.
LEMMA AffectedLeast ==
    ASSUME NEW inputs \in [Key -> SUBSET Key], NEW changed \in SUBSET Key,
           NEW keys \in SUBSET Key, changed \subseteq keys,
           \A k \in Key, i \in keys : i \in inputs[k] => k \in keys
    PROVE  AffectedBy(inputs, changed) \subseteq keys
<1> DEFINE more == {k \in keys : inputs[k] # {}}
<1>1. Dependents(inputs, changed \cup more) \subseteq changed \cup more
  BY DEF Dependents
<1>2. more \in SUBSET {k \in Key : inputs[k] # {}} /\ more \subseteq keys
  OBVIOUS
<1> HIDE DEF more
<1> QED BY <1>1, <1>2 DEF AffectedBy

\* What is affected is affected by one of the changed keys.
LEMMA AffectedSource ==
    ASSUME NEW inputs \in [Key -> SUBSET Key], NEW changed \in SUBSET Key,
           NEW k \in AffectedBy(inputs, changed)
    PROVE  \E x \in changed : k \in AffectedBy(inputs, {x})
<1> DEFINE keys == {j \in Key : \E x \in changed : j \in AffectedBy(inputs, {x})}
<1>1. changed \subseteq keys
  <2> SUFFICES ASSUME NEW x \in changed PROVE x \in keys
    OBVIOUS
  <2>1. {x} \in SUBSET Key
    OBVIOUS
  <2>2. x \in AffectedBy(inputs, {x})
    BY <2>1, AffectedClosed
  <2> QED BY <2>2
<1>2. ASSUME NEW j \in Key, NEW i \in keys, i \in inputs[j] PROVE j \in keys
  <2>1. PICK x \in changed : i \in AffectedBy(inputs, {x})
    OBVIOUS
  <2>2. {x} \in SUBSET Key
    OBVIOUS
  <2>3. j \in AffectedBy(inputs, {x})
    BY <1>2, <2>1, <2>2, AffectedClosed
  <2> QED BY <2>3
<1>3. keys \in SUBSET Key
  OBVIOUS
<1> HIDE DEF keys
<1>4. k \in keys
  BY <1>1, <1>2, <1>3, AffectedLeast
<1> QED BY <1>4 DEF keys

\* With fewer dependencies less is affected.
LEMMA AffectedLess ==
    ASSUME NEW inputs \in [Key -> SUBSET Key], NEW fewer \in [Key -> SUBSET Key],
           \A k \in Key : fewer[k] \subseteq inputs[k], NEW changed \in SUBSET Key
    PROVE  AffectedBy(fewer, changed) \subseteq AffectedBy(inputs, changed)
<1>1. /\ AffectedBy(inputs, changed) \subseteq Key
      /\ changed \subseteq AffectedBy(inputs, changed)
      /\ \A k \in Key, i \in AffectedBy(inputs, changed) :
            i \in inputs[k] => k \in AffectedBy(inputs, changed)
  BY AffectedClosed
<1>2. \A k \in Key, i \in AffectedBy(inputs, changed) :
            i \in fewer[k] => k \in AffectedBy(inputs, changed)
  BY <1>1
<1>3. AffectedBy(inputs, changed) \in SUBSET Key
  BY <1>1
<1> QED BY <1>1, <1>2, <1>3, AffectedLeast

\* In an acyclic graph no input of a key is derived from the key (acyclic).
LEMMA NoLoop ==
    ASSUME NEW inputs \in [Key -> SUBSET Key], Acyclic(inputs), NEW key \in Key,
           NEW i \in inputs[key]
    PROVE  i \notin AffectedBy(inputs, {key})
<1> SUFFICES ASSUME i \in AffectedBy(inputs, {key}) PROVE FALSE
  OBVIOUS
<1> DEFINE below == AffectedBy(inputs, Dependents(inputs, {key}))
<1>1. Dependents(inputs, {key}) \in SUBSET Key /\ {key} \in SUBSET Key
  BY DEF Dependents
<1>2. /\ below \subseteq Key /\ Dependents(inputs, {key}) \subseteq below
      /\ \A k \in Key, j \in below : j \in inputs[k] => k \in below
  BY <1>1, AffectedClosed
<1>3. \A k \in Key, j \in below \cup {key} : j \in inputs[k] => k \in below
  BY <1>2 DEF Dependents
<1> HIDE DEF below
<1>4. AffectedBy(inputs, {key}) \subseteq below \cup {key}
  <2>1. below \cup {key} \in SUBSET Key /\ {key} \subseteq below \cup {key}
    BY <1>2
  <2>2. \A k \in Key, j \in below \cup {key} : j \in inputs[k] => k \in below \cup {key}
    BY <1>3
  <2> QED BY <1>1, <2>1, <2>2, AffectedLeast
<1>5. key \in below
  BY <1>3, <1>4
<1> QED BY <1>5 DEF below, Acyclic

-----------------------------------------------------------------------------
(* What a delta publishes *)

\* A value that is neither written nor evicted keeps its value, its inputs and theirs
\* (prepare_delta).
LEMMA UnwrittenStays ==
    ASSUME NEW s, s.inputs \in [Key -> SUBSET Key], NEW delta,
           Rewired(s, delta) \in [Key -> SUBSET Key],
           NEW key \in Key, key \notin DOMAIN delta.upserts, Evicted(s, delta)[key] # Absent
    PROVE  /\ s.ground[key] # Absent
           /\ Rewired(s, delta)[key] = s.inputs[key]
           /\ \A i \in s.inputs[key] : Evicted(s, delta)[i] = s.ground[i]
<1> DEFINE before == AffectedBy(s.inputs, Changed(s, delta))
           after == AffectedBy(Rewired(s, delta), Changed(s, delta))
<1>1. Changed(s, delta) \in SUBSET Key
  BY DEF Changed
<1>2. /\ Changed(s, delta) \subseteq before
      /\ \A k \in Key, i \in before : i \in s.inputs[k] => k \in before
  BY <1>1, AffectedClosed
<1>3. \A k \in Key, i \in after : i \in Rewired(s, delta)[k] => k \in after
  BY <1>1, AffectedClosed
<1>4. Affected(s, delta) = before \cup after
  BY DEF Affected
<1>5. key \notin before \cup after
  BY <1>4 DEF Evicted
<1>6. \A k \in Key \ Changed(s, delta) :
         Written(s, delta)[k] = s.ground[k] /\ Rewired(s, delta)[k] = s.inputs[k]
  BY DEF Changed
<1> HIDE DEF before, after
<1>7. key \notin Changed(s, delta)
  BY <1>2, <1>5
<1>8. Written(s, delta)[key] = s.ground[key] /\ Rewired(s, delta)[key] = s.inputs[key]
  BY <1>6, <1>7
<1>9. Evicted(s, delta)[key] = Written(s, delta)[key]
  BY DEF Evicted
<1>10. ASSUME NEW i \in s.inputs[key] PROVE Evicted(s, delta)[i] = s.ground[i]
  <2>1. i \in Key /\ i \notin before \cup after
    BY <1>2, <1>3, <1>5, <1>8
  <2>2. i \notin Changed(s, delta)
    BY <1>2, <2>1
  <2>3. Evicted(s, delta)[i] = Written(s, delta)[i]
    BY <1>4, <2>1 DEF Evicted
  <2> QED BY <1>6, <2>1, <2>2, <2>3
<1> QED BY <1>8, <1>9, <1>10

\* The published state: its parts, and a revision that moves with it (apply_prepared).
LEMMA PreparedParts ==
    ASSUME NEW s, NEW delta
    PROVE  /\ Prepared(s, delta).ground = Evicted(s, delta)
           /\ Prepared(s, delta).inputs = Rewired(s, delta)
           /\ Prepared(s, delta) # s => Prepared(s, delta).revision = s.revision + 1
<1> DEFINE next == [revision |-> s.revision, ground |-> Evicted(s, delta), inputs |-> Rewired(s, delta)]
<1>1. CASE next = s
  <2>1. Prepared(s, delta) = s
    BY <1>1 DEF Prepared
  <2>2. s.ground = Evicted(s, delta) /\ s.inputs = Rewired(s, delta)
    BY <1>1
  <2> QED BY <2>1, <2>2
<1>2. CASE next # s
  <2>1. Prepared(s, delta) = [next EXCEPT !.revision = @ + 1]
    BY <1>2 DEF Prepared
  <2> QED BY <2>1
<1> QED BY <1>1, <1>2

\* A plan upserts and removes only what the branch touches, and declares no dependencies
\* (certify).
LEMMA PlanParts ==
    ASSUME NEW br, NEW s
    PROVE  /\ DOMAIN PlanDelta(br, s).dependencies = {}
           /\ PlanDelta(br, s).removals = {k \in PlanChanges(br, s) : Final(br, s, k) = Absent}
           /\ \A k \in DOMAIN PlanDelta(br, s).upserts :
                 /\ k \in Touched(br) /\ Final(br, s, k) # Absent
                 /\ PlanDelta(br, s).upserts[k] = Final(br, s, k)
           /\ \A k \in Touched(br) :
                 (Final(br, s, k) # Absent /\ k \notin DOMAIN PlanDelta(br, s).upserts) =>
                    /\ k \notin PlanChanges(br, s)
                    /\ DerivedFrom(s.inputs, k) \cap PlanChanges(br, s) = {}
<1> DEFINE changes == PlanChanges(br, s)
           writes == {k \in Touched(br) :
                         /\ Final(br, s, k) # Absent
                         /\ k \in changes \/ DerivedFrom(s.inputs, k) \cap changes # {}}
           upserts == [k \in writes |-> Final(br, s, k)]
<1>1. PlanDelta(br, s) = [upserts |-> upserts, dependencies |-> NoKeys,
                          removals |-> {k \in changes : Final(br, s, k) = Absent}]
  BY DEF PlanDelta, Delta
<1>2. DOMAIN NoKeys = {}
  BY DEF NoKeys
<1>3. DOMAIN upserts = writes /\ \A k \in writes : upserts[k] = Final(br, s, k)
  OBVIOUS
<1> HIDE DEF upserts
<1> QED BY <1>1, <1>2, <1>3

\* A plan cuts no dependency of a key it writes, and affects exactly what is derived from what
\* it changes (certify, prepare_delta).
LEMMA PlanEffect ==
    ASSUME NEW br, NEW s, s.inputs \in [Key -> SUBSET Key]
    PROVE  LET delta == PlanDelta(br, s)
           IN  /\ Rewired(s, delta) \in [Key -> SUBSET Key]
               /\ Changed(s, delta) \subseteq PlanChanges(br, s) \cap Key
               /\ Affected(s, delta) = AffectedBy(s.inputs, Changed(s, delta))
               /\ \A k \in Key \cap DOMAIN delta.upserts :
                     /\ Rewired(s, delta)[k] = s.inputs[k]
                     /\ Evicted(s, delta)[k] = Final(br, s, k)
               /\ \A k \in Key \ DOMAIN delta.upserts :
                     Written(s, delta)[k] = IF k \in delta.removals THEN Absent ELSE s.ground[k]
<1> DEFINE delta == PlanDelta(br, s)
<1>1. /\ DOMAIN delta.dependencies = {}
      /\ delta.removals = {k \in PlanChanges(br, s) : Final(br, s, k) = Absent}
      /\ \A k \in DOMAIN delta.upserts :
            /\ k \in Touched(br) /\ Final(br, s, k) # Absent
            /\ delta.upserts[k] = Final(br, s, k)
  BY PlanParts
<1> HIDE DEF delta
<1>2. Rewired(s, delta) = [k \in Key |-> IF k \in delta.removals THEN {} ELSE s.inputs[k]]
  BY <1>1 DEF Rewired
<1>3. /\ Rewired(s, delta) \in [Key -> SUBSET Key]
      /\ \A k \in Key : Rewired(s, delta)[k] \subseteq s.inputs[k]
      /\ \A k \in Key \ delta.removals : Rewired(s, delta)[k] = s.inputs[k]
  BY <1>2
<1>4. /\ \A k \in Key \cap DOMAIN delta.upserts : Written(s, delta)[k] = Final(br, s, k)
      /\ \A k \in Key \ DOMAIN delta.upserts :
            Written(s, delta)[k] = IF k \in delta.removals THEN Absent ELSE s.ground[k]
  BY <1>1 DEF Written
<1>5. Changed(s, delta) \subseteq PlanChanges(br, s) \cap Key
  <2> SUFFICES ASSUME NEW k \in Key, k \notin PlanChanges(br, s)
               PROVE  Written(s, delta)[k] = s.ground[k] /\ Rewired(s, delta)[k] = s.inputs[k]
    BY DEF Changed
  <2>1. k \notin delta.removals
    BY <1>1
  <2>2. k \in DOMAIN delta.upserts => Final(br, s, k) = s.ground[k]
    BY <1>1 DEF PlanChanges
  <2> QED BY <1>3, <1>4, <2>1, <2>2
<1>6. Changed(s, delta) \in SUBSET Key
  BY DEF Changed
<1>7. AffectedBy(Rewired(s, delta), Changed(s, delta)) \subseteq AffectedBy(s.inputs, Changed(s, delta))
  BY <1>3, <1>6, AffectedLess
<1>8. Affected(s, delta) = AffectedBy(s.inputs, Changed(s, delta))
  BY <1>7 DEF Affected
<1>9. ASSUME NEW k \in Key \cap DOMAIN delta.upserts
      PROVE  /\ Rewired(s, delta)[k] = s.inputs[k]
             /\ Evicted(s, delta)[k] = Final(br, s, k)
  <2>1. k \notin delta.removals
    BY <1>1
  <2>2. Evicted(s, delta)[k] = Written(s, delta)[k]
    BY DEF Evicted
  <2> QED BY <1>3, <1>4, <2>1, <2>2
<1> QED BY <1>3, <1>4, <1>5, <1>8, <1>9 DEF delta

\* A key no change of the plan reaches keeps its value.
LEMMA PlanSpares ==
    ASSUME NEW br, NEW s, s.inputs \in [Key -> SUBSET Key], NEW k \in Key,
           k \notin PlanChanges(br, s), DerivedFrom(s.inputs, k) \cap PlanChanges(br, s) = {}
    PROVE  Evicted(s, PlanDelta(br, s))[k] = s.ground[k]
<1> DEFINE delta == PlanDelta(br, s)
<1>1. /\ Changed(s, delta) \subseteq PlanChanges(br, s) \cap Key
      /\ Affected(s, delta) = AffectedBy(s.inputs, Changed(s, delta))
  BY PlanEffect
<1> HIDE DEF delta
<1>2. Changed(s, delta) \in SUBSET Key
  BY DEF Changed
<1>3. k \notin Affected(s, delta)
  <2> SUFFICES ASSUME k \in AffectedBy(s.inputs, Changed(s, delta)) PROVE FALSE
    BY <1>1
  <2>1. PICK x \in Changed(s, delta) : k \in AffectedBy(s.inputs, {x})
    BY <1>2, AffectedSource
  <2>2. x \in PlanChanges(br, s) /\ x \in Key /\ x # k
    BY <1>1
  <2>3. x \in DerivedFrom(s.inputs, k)
    BY <2>1, <2>2 DEF DerivedFrom
  <2> QED BY <2>2, <2>3
<1>4. Evicted(s, delta)[k] = Written(s, delta)[k]
  BY <1>3 DEF Evicted
<1>5. Written(s, delta)[k] = s.ground[k]
  BY <1>1 DEF Changed
<1> QED BY <1>4, <1>5 DEF delta

\* What an author put was computed from what the merge publishes (certify, prepare_delta).
LEMMA OverwriteIsFresh ==
    ASSUME NEW br, NEW s, s.inputs \in [Key -> SUBSET Key], Certifies(br, s),
           Prepares(s, PlanDelta(br, s)),
           NEW key \in Key \cap DOMAIN PlanDelta(br, s).upserts,
           \A i \in br.base.inputs[key] : i \in Touched(br) \/ ~ChangesInputOf(br, i)
    PROVE  \A i \in s.inputs[key] : View(br, i) = Evicted(s, PlanDelta(br, s))[i]
<1> SUFFICES ASSUME NEW i \in s.inputs[key]
             PROVE  View(br, i) = Evicted(s, PlanDelta(br, s))[i]
  OBVIOUS
<1> DEFINE delta == PlanDelta(br, s)
<1>1. /\ delta.removals = {k \in PlanChanges(br, s) : Final(br, s, k) = Absent}
      /\ \A k \in DOMAIN delta.upserts : k \in Touched(br) /\ Final(br, s, k) # Absent
      /\ \A k \in Touched(br) :
            (Final(br, s, k) # Absent /\ k \notin DOMAIN delta.upserts) =>
               /\ k \notin PlanChanges(br, s)
               /\ DerivedFrom(s.inputs, k) \cap PlanChanges(br, s) = {}
  BY PlanParts
<1>2. /\ \A k \in Key \cap DOMAIN delta.upserts :
            /\ Rewired(s, delta)[k] = s.inputs[k]
            /\ Evicted(s, delta)[k] = Final(br, s, k)
      /\ \A k \in Key \ DOMAIN delta.upserts :
            Written(s, delta)[k] = IF k \in delta.removals THEN Absent ELSE s.ground[k]
  BY PlanEffect
<1>3. /\ s.inputs[key] = br.base.inputs[key] /\ s.inputs[key] \subseteq br.reads
      /\ s.ground[i] = br.base.ground[i]
  BY <1>1 DEF Certifies, InputsHold, ReadsHold
<1>4. i \in Key
  OBVIOUS
<1>5. Evicted(s, delta)[i] # Absent
  BY <1>2 DEF Prepares
<1>6. Evicted(s, delta)[i] = Absent \/ Evicted(s, delta)[i] = Written(s, delta)[i]
  BY <1>4 DEF Evicted
<1> HIDE DEF delta
<1>7. CASE i \in Touched(br)
  <2>1. View(br, i) = Final(br, s, i)
    BY <1>3, <1>7 DEF View, Overlay, Final
  <2>2. CASE i \in DOMAIN delta.upserts
    BY <1>2, <1>4, <2>1, <2>2 DEF delta
  <2>3. CASE i \notin DOMAIN delta.upserts /\ Final(br, s, i) # Absent
    <3>1. i \notin PlanChanges(br, s) /\ DerivedFrom(s.inputs, i) \cap PlanChanges(br, s) = {}
      BY <1>1, <1>7, <2>3
    <3>2. Evicted(s, delta)[i] = s.ground[i]
      BY <1>4, <3>1, PlanSpares DEF delta
    <3>3. Final(br, s, i) = s.ground[i]
      BY <1>7, <3>1 DEF PlanChanges
    <3> QED BY <2>1, <3>2, <3>3 DEF delta
  <2>4. CASE i \notin DOMAIN delta.upserts /\ Final(br, s, i) = Absent
    <3>1. i \notin PlanChanges(br, s) => s.ground[i] = Absent
      BY <1>7, <2>4 DEF PlanChanges
    <3>2. Written(s, delta)[i] = Absent
      BY <1>1, <1>2, <1>4, <2>4, <3>1
    <3> QED BY <1>5, <1>6, <3>2
  <2> QED BY <2>2, <2>3, <2>4
<1>8. CASE i \notin Touched(br)
  <2>1. View(br, i) = s.ground[i]
    BY <1>3, <1>8 DEF View
  <2>2. i \notin DOMAIN delta.upserts /\ i \notin delta.removals
    BY <1>1, <1>8 DEF PlanChanges
  <2>3. Evicted(s, delta)[i] = s.ground[i]
    BY <1>2, <1>4, <1>5, <1>6, <2>2
  <2> QED BY <2>1, <2>3 DEF delta
<1> QED BY <1>7, <1>8

\* The inputs of a value that commutative operations build on stay as they are (certify).
LEMMA CommuteIsFresh ==
    ASSUME NEW br, NEW s, s.inputs \in [Key -> SUBSET Key], Acyclic(s.inputs), Certifies(br, s),
           NEW key \in Key \cap DOMAIN PlanDelta(br, s).upserts, OnlyCommutes(br, key)
    PROVE  /\ s.inputs[key] # {} => s.ground[key] # Absent
           /\ \A i \in s.inputs[key] : Evicted(s, PlanDelta(br, s))[i] = s.ground[i]
<1>1. key \in Touched(br)
  BY PlanParts
<1>2. /\ s.inputs[key] # {} => s.ground[key] # Absent
      /\ DerivedFrom(s.inputs, key) \cap PlanChanges(br, s) = {}
  BY <1>1 DEF Certifies
<1>3. ASSUME NEW i \in s.inputs[key] PROVE Evicted(s, PlanDelta(br, s))[i] = s.ground[i]
  <2>1. i \in Key /\ {i} \in SUBSET Key /\ {key} \in SUBSET Key
    OBVIOUS
  <2>2. i \notin AffectedBy(s.inputs, {key})
    BY NoLoop
  <2>3. key \in AffectedBy(s.inputs, {key})
    BY <2>1, AffectedClosed
  <2>4. \A x \in Key : i \in AffectedBy(s.inputs, {x}) => key \in AffectedBy(s.inputs, {x}) /\ x # key
    <3> SUFFICES ASSUME NEW x \in Key, i \in AffectedBy(s.inputs, {x})
                 PROVE  key \in AffectedBy(s.inputs, {x}) /\ x # key
      OBVIOUS
    <3>1. {x} \in SUBSET Key
      OBVIOUS
    <3> QED BY <2>2, <3>1, AffectedClosed
  <2>5. i \in AffectedBy(s.inputs, {i})
    BY <2>1, AffectedClosed
  <2>6. i \in DerivedFrom(s.inputs, key)
    BY <2>1, <2>4, <2>5 DEF DerivedFrom
  <2>7. DerivedFrom(s.inputs, i) \subseteq DerivedFrom(s.inputs, key)
    BY <2>4 DEF DerivedFrom
  <2>8. i \notin PlanChanges(br, s) /\ DerivedFrom(s.inputs, i) \cap PlanChanges(br, s) = {}
    BY <1>2, <2>6, <2>7
  <2> QED BY <2>1, <2>8, PlanSpares
<1> QED BY <1>2, <1>3

-----------------------------------------------------------------------------
(* What is appended to the log *)

\* What one step of the runtime may publish by review.
PublishesApproved ==
    \A m \in NewMerges : m.authority # "triage" =>
        \E a \in approved : /\ a.plan.branch = m.branch /\ a.reviewer = m.authority
                            /\ a.shown = disk'.state

\* What a merge and what a host's write append.
MergeRecord(b, authority) ==
    [state |-> MergeResult(b),
     merges |-> Append(mem.merges, [branch |-> b, ops |-> branch[b].ops, authority |-> authority]),
     basis |-> BasisAfter(MergeResult(b),
                          {key \in DOMAIN PlanDelta(branch[b], mem.state).upserts :
                              Overwrites(branch[b], key)},
                          [i \in Key |-> View(branch[b], i)])]
HostRecord(delta) ==
    [state |-> Prepared(mem.state, delta), merges |-> mem.merges,
     basis |-> BasisAfter(Prepared(mem.state, delta), DOMAIN delta.upserts,
                          Prepared(mem.state, delta).ground)]

\* A record of the next revision that merges no branch twice keeps the lineage, whether its
\* append succeeds, fails or fails and is durable (append_prepared).
LEMMA CommitStep ==
    ASSUME BranchInv, ~fenced, NEW next, Commit(next), approved' = approved,
           next.state.revision = mem.state.revision + 1, MergesInv(next)
    PROVE  BranchInv'
<1> USE DEF BranchInv
<1>1. disk = mem /\ mem.state.revision \in Nat
  BY DEF Lineage
<1>2. CASE disk' = next /\ mem' = next
  <2>1. Lineage'
    BY <1>1, <1>2 DEF Lineage
  <2>2. ApprovalsHold'
    BY <1>1, <1>2 DEF ApprovalsHold
  <2>3. MergesInv(disk)' /\ MergesInv(mem)'
    BY <1>2 DEF MergesInv, MergedOnce, InOrder
  <2> QED BY <2>1, <2>2, <2>3
<1>3. CASE disk' \in {disk, next} /\ fenced' = TRUE /\ mem' = mem
  <2>1. Lineage'
    BY <1>1, <1>3 DEF Lineage
  <2>2. ApprovalsHold'
    BY <1>3 DEF ApprovalsHold
  <2>3. MergesInv(disk)' /\ MergesInv(mem)'
    BY <1>1, <1>3 DEF MergesInv, MergedOnce, InOrder
  <2> QED BY <2>1, <2>2, <2>3
<1> QED BY <1>2, <1>3 DEF Commit

\* The same for freshness.
LEMMA CommitFresh ==
    ASSUME FreshInv, NEW next, Commit(next), Graph(next), Fresh(next)
    PROVE  FreshInv'
<1>1. CASE disk' = next /\ mem' = next
  BY <1>1 DEF FreshInv, Graph, Fresh
<1>2. CASE disk' \in {disk, next} /\ mem' = mem
  BY <1>2 DEF FreshInv, Graph, Fresh
<1> QED BY <1>1, <1>2 DEF Commit

\* A merge under an id that no earlier one has.
LEMMA AppendedOnce ==
    ASSUME NEW d, MergesInv(d), NEW e, NEW m, e.merges = Append(d.merges, m),
           \A i \in DOMAIN d.merges : d.merges[i].branch # m.branch
    PROVE  /\ MergesInv(e)
           /\ \A i \in DOMAIN e.merges \ DOMAIN d.merges : e.merges[i] = m
<1>1. PICK S : d.merges \in Seq(S)
  BY DEF MergesInv, InOrder
<1>2. PICK s \in Seq(S) : s = d.merges
  BY <1>1
<1>3. /\ Len(s) \in Nat /\ DOMAIN s = 1..Len(s) /\ s \in Seq(S \cup {m})
  BY <1>2
<1>4. /\ Append(s, m) \in Seq(S \cup {m}) /\ DOMAIN Append(s, m) = 1..(Len(s) + 1)
      /\ Append(s, m)[Len(s) + 1] = m /\ \A i \in 1..Len(s) : Append(s, m)[i] = s[i]
  BY <1>3
<1>5. InOrder(e)
  BY <1>2, <1>4 DEF InOrder
<1>6. MergedOnce(e)
  <2>1. \A i, j \in 1..Len(s) : s[i].branch = s[j].branch => i = j
    BY <1>2, <1>3 DEF MergesInv, MergedOnce
  <2>2. \A i \in 1..Len(s) : s[i].branch # m.branch
    BY <1>2, <1>3
  <2>3. e.merges = Append(s, m)
    BY <1>2
  <2> QED BY <1>3, <1>4, <2>1, <2>2, <2>3 DEF MergedOnce
<1>7. \A i \in DOMAIN e.merges \ DOMAIN d.merges : e.merges[i] = m
  BY <1>2, <1>3, <1>4
<1> QED BY <1>5, <1>6, <1>7 DEF MergesInv

\* A merge appends a new revision and a branch id that is not merged yet (merge_branch).
LEMMA MergeStep ==
    ASSUME BranchInv, NEW b \in Branch, NEW authority, MergeBranch(b, authority)
    PROVE  /\ BranchInv'
           /\ disk = mem
           /\ \/ disk' = disk /\ NewMerges = {}
              \/ /\ disk' = MergeRecord(b, authority)
                 /\ \A m \in NewMerges : m = [branch |-> b, ops |-> branch[b].ops, authority |-> authority]
<1> DEFINE entry == [branch |-> b, ops |-> branch[b].ops, authority |-> authority]
<1>1. PICK next : next = MergeRecord(b, authority)
  OBVIOUS
<1>2. next.state = MergeResult(b) /\ next.merges = Append(mem.merges, entry)
  BY <1>1 DEF MergeRecord
<1>3. Commit(next) /\ ~fenced /\ approved' = approved /\ MergeResult(b) # mem.state /\ Mergeable(b)
  BY <1>1 DEF MergeBranch, MergeRecord
<1>4. next.state.revision = mem.state.revision + 1
  BY <1>2, <1>3, PreparedParts DEF MergeResult
<1>5. MergesInv(next) /\ \A i \in DOMAIN next.merges \ DOMAIN mem.merges : next.merges[i] = entry
  <2>1. \A i \in DOMAIN mem.merges : mem.merges[i].branch # b
    BY <1>3 DEF Mergeable, Merged
  <2>2. entry.branch = b
    OBVIOUS
  <2>3. MergesInv(mem)
    BY DEF BranchInv
  <2> HIDE DEF entry
  <2> QED BY <1>2, <2>1, <2>2, <2>3, AppendedOnce
<1>6. BranchInv'
  BY <1>3, <1>4, <1>5, CommitStep
<1>7. disk = mem
  BY <1>3 DEF BranchInv, Lineage
<1>8. disk' = disk \/ disk' = next
  BY <1>3, <1>7 DEF Commit
<1>9. CASE disk' = disk
  BY <1>6, <1>7, <1>9 DEF NewMerges
<1>10. CASE disk' = next
  <2> HIDE DEF entry
  <2>1. \A m \in NewMerges : m = entry
    BY <1>5, <1>7, <1>10 DEF NewMerges
  <2> QED BY <1>1, <1>6, <1>7, <1>10, <2>1 DEF entry
<1> QED BY <1>8, <1>9, <1>10

\* What is merged is fresh (certify and prepare_delta together).
LEMMA MergeFresh ==
    ASSUME FreshInv, NoOwnEviction, NEW b \in Branch, NEW authority, MergeBranch(b, authority)
    PROVE  FreshInv'
<1> DEFINE br == branch[b]
           s == mem.state
           delta == PlanDelta(br, s)
           result == MergeResult(b)
           written == {key \in DOMAIN delta.upserts : Overwrites(br, key)}
<1>1. PICK next : next = MergeRecord(b, authority)
  OBVIOUS
<1>2. Commit(next) /\ Mergeable(b)
  BY <1>1 DEF MergeBranch, MergeRecord
<1>3. /\ next.state = result
      /\ next.basis = BasisAfter(result, written, [i \in Key |-> View(br, i)])
  BY <1>1 DEF MergeRecord
<1>4. result.ground = Evicted(s, delta) /\ result.inputs = Rewired(s, delta)
  BY PreparedParts DEF MergeResult
<1>5. br.stage = "sealed" /\ Certifies(br, s) /\ Prepares(s, delta)
  BY <1>2 DEF Mergeable
<1>6. s.inputs \in [Key -> SUBSET Key] /\ Acyclic(s.inputs)
  BY DEF FreshInv, Graph
<1>7. /\ Rewired(s, delta) \in [Key -> SUBSET Key]
      /\ \A k \in Key \cap DOMAIN delta.upserts : Rewired(s, delta)[k] = s.inputs[k]
  BY <1>6, PlanEffect
<1>8. Graph(next)
  BY <1>3, <1>4, <1>5, <1>7 DEF Graph, Prepares
<1>9. \A key \in Key : mem.basis[key] = IF s.ground[key] = Absent THEN NoKeys
                                       ELSE InputsOf(s.inputs, s.ground, key)
  BY DEF FreshInv, Fresh
<1>10. ASSUME NEW key \in Key
       PROVE  next.basis[key] = IF next.state.ground[key] = Absent THEN NoKeys
                                ELSE InputsOf(next.state.inputs, next.state.ground, key)
  <2>1. next.basis[key] = IF result.ground[key] = Absent THEN NoKeys
                          ELSE IF key \in written
                               THEN InputsOf(result.inputs, [i \in Key |-> View(br, i)], key)
                          ELSE mem.basis[key]
    BY <1>3 DEF BasisAfter
  <2>2. CASE result.ground[key] = Absent
    BY <1>3, <2>1, <2>2
  <2>3. CASE result.ground[key] # Absent /\ key \in written
    <3>1. key \in Key \cap DOMAIN delta.upserts /\ result.inputs[key] = s.inputs[key]
      BY <1>4, <1>7, <2>3
    <3>2. \A i \in br.base.inputs[key] : i \in Touched(br) \/ ~ChangesInputOf(br, i)
      BY <1>5, <2>3 DEF NoOwnEviction
    <3>3. \A i \in s.inputs[key] : View(br, i) = result.ground[i] /\ i \in Key
      BY <1>4, <1>5, <1>6, <3>1, <3>2, OverwriteIsFresh
    <3>4. InputsOf(result.inputs, [i \in Key |-> View(br, i)], key)
            = InputsOf(result.inputs, result.ground, key)
      BY <3>1, <3>3 DEF InputsOf
    <3> QED BY <1>3, <2>1, <2>3, <3>4
  <2>4. CASE result.ground[key] # Absent /\ key \notin written /\ key \in DOMAIN delta.upserts
    <3>1. key \in Key \cap DOMAIN delta.upserts /\ result.inputs[key] = s.inputs[key]
      BY <1>4, <1>7, <2>4
    <3>2. OnlyCommutes(br, key)
      BY <2>4 DEF OnlyCommutes
    <3>3. /\ s.inputs[key] # {} => s.ground[key] # Absent
          /\ \A i \in s.inputs[key] : result.ground[i] = s.ground[i]
      BY <1>4, <1>5, <1>6, <3>1, <3>2, CommuteIsFresh
    <3>4. InputsOf(s.inputs, s.ground, key) = InputsOf(result.inputs, result.ground, key)
      BY <3>1, <3>3 DEF InputsOf
    <3>5. CASE s.ground[key] # Absent
      BY <1>3, <1>9, <2>1, <2>4, <3>4, <3>5
    <3>6. CASE s.ground[key] = Absent
      <4>1. InputsOf(s.inputs, s.ground, key) = NoKeys
        BY <3>3, <3>6 DEF InputsOf, NoKeys
      <4> QED BY <1>3, <1>9, <2>1, <2>4, <3>4, <3>6, <4>1
    <3> QED BY <3>5, <3>6
  <2>5. CASE result.ground[key] # Absent /\ key \notin DOMAIN delta.upserts
    <3>1. /\ s.ground[key] # Absent
          /\ result.inputs[key] = s.inputs[key]
          /\ \A i \in s.inputs[key] : result.ground[i] = s.ground[i]
      BY <1>4, <1>6, <1>7, <2>5, UnwrittenStays
    <3>2. InputsOf(s.inputs, s.ground, key) = InputsOf(result.inputs, result.ground, key)
      BY <3>1 DEF InputsOf
    <3> QED BY <1>3, <1>9, <2>1, <2>5, <3>1, <3>2
  <2> QED BY <2>2, <2>3, <2>4, <2>5
<1>11. Fresh(next)
  BY <1>10 DEF Fresh
<1> QED BY <1>2, <1>8, <1>11, CommitFresh

\* A host's write appends a new revision and merges nothing (apply_verified_semantic_delta).
LEMMA HostStep ==
    ASSUME BranchInv, NEW delta \in HostDelta, HostWrite(delta)
    PROVE  BranchInv' /\ disk'.merges = disk.merges
<1>1. PICK next : next = HostRecord(delta)
  OBVIOUS
<1>2. next.state = Prepared(mem.state, delta) /\ next.merges = mem.merges
  BY <1>1 DEF HostRecord
<1>3. Commit(next) /\ ~fenced /\ approved' = approved /\ Prepared(mem.state, delta) # mem.state
  BY <1>1 DEF HostWrite, HostRecord
<1>4. next.state.revision = mem.state.revision + 1
  BY <1>2, <1>3, PreparedParts
<1>5. MergesInv(next)
  BY <1>2 DEF MergesInv, MergedOnce, InOrder, BranchInv
<1>6. BranchInv'
  BY <1>3, <1>4, <1>5, CommitStep
<1>7. disk = mem
  BY <1>3 DEF BranchInv, Lineage
<1> QED BY <1>2, <1>3, <1>6, <1>7 DEF Commit

\* What a host writes is fresh: what it does not write and does not evict rests on inputs that
\* stay.
LEMMA HostFresh ==
    ASSUME FreshInv, NEW delta \in HostDelta, HostWrite(delta)
    PROVE  FreshInv'
<1> DEFINE s == mem.state
           result == Prepared(s, delta)
<1>1. PICK next : next = HostRecord(delta)
  OBVIOUS
<1>2. Commit(next) /\ Prepares(s, delta)
  BY <1>1 DEF HostWrite, HostRecord
<1>3. /\ next.state = result
      /\ next.basis = BasisAfter(result, DOMAIN delta.upserts, result.ground)
  BY <1>1 DEF HostRecord
<1>4. result.ground = Evicted(s, delta) /\ result.inputs = Rewired(s, delta)
  BY PreparedParts
<1>5. s.inputs \in [Key -> SUBSET Key]
  BY DEF FreshInv, Graph
<1>6. Rewired(s, delta) \in [Key -> SUBSET Key]
  BY <1>5, BranchAssumption DEF Rewired
<1>7. Graph(next)
  BY <1>2, <1>3, <1>4, <1>6 DEF Graph, Prepares
<1>8. \A key \in Key : mem.basis[key] = IF s.ground[key] = Absent THEN NoKeys
                                       ELSE InputsOf(s.inputs, s.ground, key)
  BY DEF FreshInv, Fresh
<1> HIDE DEF result
<1>9. ASSUME NEW key \in Key
      PROVE  next.basis[key] = IF next.state.ground[key] = Absent THEN NoKeys
                               ELSE InputsOf(next.state.inputs, next.state.ground, key)
  <2>1. next.basis[key] = IF result.ground[key] = Absent THEN NoKeys
                          ELSE IF key \in DOMAIN delta.upserts
                               THEN InputsOf(result.inputs, result.ground, key)
                          ELSE mem.basis[key]
    BY <1>3 DEF BasisAfter
  <2>2. CASE result.ground[key] = Absent \/ key \in DOMAIN delta.upserts
    BY <1>3, <2>1, <2>2
  <2>3. CASE result.ground[key] # Absent /\ key \notin DOMAIN delta.upserts
    <3>1. /\ s.ground[key] # Absent
          /\ result.inputs[key] = s.inputs[key]
          /\ \A i \in s.inputs[key] : result.ground[i] = s.ground[i]
      BY <1>4, <1>5, <1>6, <2>3, UnwrittenStays
    <3>2. InputsOf(s.inputs, s.ground, key) = InputsOf(result.inputs, result.ground, key)
      BY <3>1 DEF InputsOf
    <3> QED BY <1>3, <1>8, <2>1, <2>3, <3>1, <3>2
  <2> QED BY <2>2, <2>3
<1>10. Fresh(next)
  BY <1>9 DEF Fresh
<1> QED BY <1>2, <1>7, <1>10, CommitFresh

-----------------------------------------------------------------------------
(* The invariants *)

\* Staging, abandoning and a generation that moves touch neither the log nor the approvals.
Quiet == UNCHANGED <<disk, mem, fenced, approved>>

\* Every step is quiet, a preview, a merge by policy or review, a host's write or a reopen.
LEMMA NextCases ==
    ASSUME Next
    PROVE  \/ Quiet
           \/ \E b \in Branch, reviewer \in Reviewer : PreviewMerge(b, reviewer)
           \/ \E b \in Branch : MergeByTriage(b)
           \/ \E b \in Branch : \E approval \in approved : MergeReviewed(b, approval)
           \/ \E delta \in HostDelta : HostWrite(delta)
           \/ Reopen
<1>1. ASSUME NEW b \in Branch, Staging(b) PROVE Quiet
  BY <1>1 DEF Staging, Quiet, RelyOn, Seal, Abandon, Open, Read, ScanPrefix, Put, RemoveKey,
              StageCommutative, Stage
<1>2. MoveGeneration => Quiet
  BY DEF MoveGeneration, Quiet
<1> QED BY <1>1, <1>2 DEF Next

\* A preview shows what its plan publishes (preview_merge).
LEMMA PreviewStep ==
    ASSUME BranchInv, NEW b \in Branch, NEW reviewer \in Reviewer, PreviewMerge(b, reviewer)
    PROVE  BranchInv'
<1> DEFINE new == [reviewer |-> reviewer, plan |-> PlanDigest(b, mem.state), shown |-> MergeResult(b)]
<1>1. approved' = approved \cup {new} /\ disk' = disk /\ mem' = mem /\ fenced' = fenced
  BY DEF PreviewMerge
<1>2. /\ new.plan.expected = mem.state.revision
      /\ new.shown = Prepared(mem.state, new.plan.delta)
  BY DEF PlanDigest, MergeResult
<1> HIDE DEF new
<1>3. Lineage'
  BY <1>1 DEF BranchInv, Lineage
<1>4. ApprovalsHold'
  BY <1>1, <1>2 DEF BranchInv, Lineage, ApprovalsHold
<1>5. MergesInv(disk)' /\ MergesInv(mem)'
  BY <1>1 DEF BranchInv, MergesInv, MergedOnce, InOrder
<1> QED BY <1>3, <1>4, <1>5 DEF BranchInv

\* A reviewed merge publishes the state the reviewer was shown, since the plan names the
\* revision the runtime still has (merge_branch, MergePlan::digest).
LEMMA ReviewedStep ==
    ASSUME BranchInv, NEW b \in Branch, NEW approval \in approved, MergeReviewed(b, approval)
    PROVE  BranchInv' /\ PublishesApproved
<1>1. PICK reviewer : reviewer = approval.reviewer
  OBVIOUS
<1>2. approval.plan = PlanDigest(b, mem.state) /\ MergeBranch(b, reviewer)
  BY <1>1 DEF MergeReviewed
<1>3. /\ BranchInv' /\ disk = mem
      /\ \/ NewMerges = {}
         \/ /\ disk' = MergeRecord(b, reviewer)
            /\ \A m \in NewMerges : m = [branch |-> b, ops |-> branch[b].ops, authority |-> reviewer]
  BY <1>2, MergeStep
<1>4. /\ approval.plan.expected = mem.state.revision /\ approval.plan.branch = b
      /\ approval.plan.delta = PlanDelta(branch[b], mem.state)
  BY <1>2 DEF PlanDigest
<1>5. approval.shown = MergeResult(b)
  BY <1>4 DEF BranchInv, ApprovalsHold, MergeResult
<1>6. ASSUME NEW m \in NewMerges
      PROVE  /\ approval.plan.branch = m.branch /\ approval.reviewer = m.authority
             /\ approval.shown = disk'.state
  <2>1. /\ disk' = MergeRecord(b, reviewer)
        /\ m = [branch |-> b, ops |-> branch[b].ops, authority |-> reviewer]
    BY <1>3, <1>6
  <2>2. disk'.state = MergeResult(b)
    BY <2>1 DEF MergeRecord
  <2>3. m.branch = b /\ m.authority = reviewer
    BY <2>1
  <2> QED BY <1>1, <1>4, <1>5, <2>2, <2>3
<1> QED BY <1>3, <1>6 DEF PublishesApproved

\* Every step keeps the lineage, and publishes by review only what was approved.
LEMMA BranchStep ==
    ASSUME BranchInv, [Next]_vars
    PROVE  BranchInv' /\ PublishesApproved
<1>1. ASSUME Quiet \/ UNCHANGED vars PROVE BranchInv' /\ PublishesApproved
  BY <1>1 DEF Quiet, vars, BranchInv, Lineage, ApprovalsHold, MergesInv, MergedOnce, InOrder,
              PublishesApproved, NewMerges
<1>2. ASSUME NEW b \in Branch, NEW reviewer \in Reviewer, PreviewMerge(b, reviewer)
      PROVE  BranchInv' /\ PublishesApproved
  <2>1. disk' = disk
    BY <1>2 DEF PreviewMerge
  <2> QED BY <1>2, <2>1, PreviewStep DEF PublishesApproved, NewMerges
<1>3. ASSUME NEW b \in Branch, MergeByTriage(b) PROVE BranchInv' /\ PublishesApproved
  <2>1. /\ BranchInv'
        /\ \A m \in NewMerges : m = [branch |-> b, ops |-> branch[b].ops, authority |-> "triage"]
    BY <1>3, MergeStep DEF MergeByTriage
  <2>2. \A m \in NewMerges : m.authority = "triage"
    BY <2>1
  <2> QED BY <2>1, <2>2 DEF PublishesApproved
<1>4. ASSUME NEW b \in Branch, NEW approval \in approved, MergeReviewed(b, approval)
      PROVE  BranchInv' /\ PublishesApproved
  BY <1>4, ReviewedStep
<1>5. ASSUME NEW delta \in HostDelta, HostWrite(delta) PROVE BranchInv' /\ PublishesApproved
  BY <1>5, HostStep DEF PublishesApproved, NewMerges
<1>6. ASSUME Reopen PROVE BranchInv' /\ PublishesApproved
  <2>1. disk' = disk /\ mem' = disk /\ approved' = approved
    BY <1>6 DEF Reopen
  <2>2. Lineage' /\ ApprovalsHold'
    BY <2>1 DEF BranchInv, Lineage, ApprovalsHold
  <2> QED BY <2>1, <2>2 DEF BranchInv, MergesInv, MergedOnce, InOrder, PublishesApproved, NewMerges
<1> QED BY <1>1, <1>2, <1>3, <1>4, <1>5, <1>6, NextCases

\* Every step keeps derived values fresh.
LEMMA FreshStep ==
    ASSUME FreshInv, NoOwnEviction, [Next]_vars
    PROVE  FreshInv'
<1>1. ASSUME disk' = disk, mem' = mem \/ mem' = disk PROVE FreshInv'
  BY <1>1 DEF FreshInv, Graph, Fresh
<1>2. Quiet \/ UNCHANGED vars \/ Reopen => disk' = disk /\ (mem' = mem \/ mem' = disk)
  BY DEF Quiet, vars, Reopen
<1>3. ASSUME NEW b \in Branch, NEW reviewer \in Reviewer, PreviewMerge(b, reviewer)
      PROVE  disk' = disk /\ mem' = mem
  BY <1>3 DEF PreviewMerge
<1>4. ASSUME NEW b \in Branch, MergeByTriage(b) PROVE FreshInv'
  BY <1>4, MergeFresh DEF MergeByTriage
<1>5. ASSUME NEW b \in Branch, NEW approval \in approved, MergeReviewed(b, approval)
      PROVE  FreshInv'
  BY <1>5, MergeFresh DEF MergeReviewed
<1>6. ASSUME NEW delta \in HostDelta, HostWrite(delta) PROVE FreshInv'
  BY <1>6, HostFresh
<1> QED BY <1>1, <1>2, <1>3, <1>4, <1>5, <1>6, NextCases

\* A runtime starts from a state that is its own lineage and fresh.
LEMMA BranchStarts == ASSUME Init PROVE BranchInv /\ FreshInv
<1>1. /\ disk = [state |-> FirstState, merges |-> <<>>, basis |-> FirstBasis]
      /\ mem = disk /\ approved = {}
  BY DEF Init
<1>2. MergesInv(disk)
  <2>1. disk.merges = <<>> /\ <<>> \in Seq({})
    BY <1>1
  <2> QED BY <2>1 DEF MergesInv, MergedOnce, InOrder
<1>3. Graph(disk)
  BY <1>1, BranchAssumption DEF Graph
<1>4. Fresh(disk)
  BY <1>1 DEF Fresh, FirstBasis
<1>5. BranchInv
  BY <1>1, <1>2, BranchAssumption DEF BranchInv, Lineage, ApprovalsHold
<1> QED BY <1>1, <1>3, <1>4, <1>5 DEF FreshInv

\* The inductive invariant holds in every reachable state.
LEMMA BranchInvAlways == Spec => []BranchInv
<1>1. Init => BranchInv
  BY BranchStarts
<1>2. BranchInv /\ [Next]_vars => BranchInv'
  BY BranchStep
<1> QED BY <1>1, <1>2, PTL DEF Spec

\* No branch id is merged twice in the log, not even by the same sealed branch under the same
\* authority, although a merge may be retried after an append that failed and yet was durable
\* (merge_branch: "a branch id is merged at most once").
THEOREM BranchesMergeOnce == Spec => []MergedOnce(disk)
<1>1. BranchInv => MergedOnce(disk)
  BY DEF BranchInv, MergesInv
<1> QED BY <1>1, BranchInvAlways, PTL

\* A reviewed merge publishes the very state the reviewer was shown (MergePlan::digest,
\* merge_branch).
THEOREM ReviewersGetWhatTheySaw == Spec => ApprovedIsPublished
<1>1. Init => BranchInv
  BY BranchStarts
<1>2. BranchInv /\ [Next]_vars => BranchInv' /\ [PublishesApproved]_vars
  BY BranchStep
<1> QED BY <1>1, <1>2, PTL DEF Spec, ApprovedIsPublished, PublishesApproved

\* A published derived value was computed from what its inputs hold, for any graph of
\* dependencies and any interleaving of merges, host writes, failed appends and reopens, as
\* long as no author puts a derived value whose inputs its own branch evicts (certify,
\* prepare_delta).
THEOREM DerivedStaysFresh == Spec /\ []NoOwnEviction => []DerivedIsFresh
<1>1. Init => FreshInv
  BY BranchStarts
<1>2. FreshInv /\ NoOwnEviction /\ [Next]_vars => FreshInv'
  BY FreshStep
<1>3. FreshInv => DerivedIsFresh
  BY DEF FreshInv, Fresh, DerivedIsFresh
<1> QED BY <1>1, <1>2, <1>3, PTL DEF Spec
=============================================================================
