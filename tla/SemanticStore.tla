--------------------------- MODULE SemanticStore ---------------------------
(***************************************************************************)
(* The semantic store of crates/ptr-semdb/src/lib.rs: typed values under   *)
(* keys, the keys each derived key was computed from, and a revision.  One *)
(* delta is validated and staged (prepare_delta) and then published as a   *)
(* whole (apply_prepared).  A derived value whose inputs change is evicted *)
(* unless the delta writes it; its dependency entry stays.                 *)
(*                                                                         *)
(* A state is [revision, ground, inputs], `ground' total over Key with     *)
(* Absent where nothing is held, `inputs' total with {} for a key that is  *)
(* not derived.                                                            *)
(***************************************************************************)
EXTENDS Naturals

CONSTANT Key  \* the keys in use

\* The values a key may hold: text, or a payload of a type with its source.
Absent == <<"absent">>
Text(t) == <<"text", t>>
Payload(type, content, source) == <<type, content, source>>

State(Value) == [revision : Nat, ground : [Key -> Value \cup {Absent}], inputs : [Key -> SUBSET Key]]

\* A delta: `upserts' and `dependencies' are functions on the keys they name.
Delta(upserts, removals, dependencies) ==
    [upserts |-> upserts, removals |-> removals, dependencies |-> dependencies]
NoKeys == [k \in {} |-> Absent]

-----------------------------------------------------------------------------

Dependents(inputs, keys) == {k \in Key : inputs[k] \cap keys # {}}

\* DependencyGraph::affected_by: the changed keys and all that is derived from them, the least
\* set that holds the changed keys and its own dependents.
AffectedBy(inputs, changed) ==
    LET derived == {k \in Key : inputs[k] # {}}
        closed == {more \in SUBSET derived :
                      Dependents(inputs, changed \cup more) \subseteq changed \cup more}
    IN  changed \cup {k \in derived : \A more \in closed : k \in more}

\* DependencyGraph::acyclic.
Acyclic(inputs) == \A k \in Key : k \notin AffectedBy(inputs, Dependents(inputs, {k}))

\* What `key' is derived from, directly or through other derived keys.
DerivedFrom(inputs, key) == {k \in Key \ {key} : key \in AffectedBy(inputs, {k})}

-----------------------------------------------------------------------------
(* prepare_delta *)

Encodes(delta) == delta.removals \cap (DOMAIN delta.upserts \cup DOMAIN delta.dependencies) = {}

Written(s, delta) ==
    [k \in Key |-> IF k \in DOMAIN delta.upserts THEN delta.upserts[k]
                   ELSE IF k \in delta.removals THEN Absent ELSE s.ground[k]]
Rewired(s, delta) ==
    [k \in Key |-> IF k \in DOMAIN delta.dependencies THEN delta.dependencies[k]
                   ELSE IF k \in delta.removals THEN {} ELSE s.inputs[k]]

Changed(s, delta) ==
    LET written == Written(s, delta)
        rewired == Rewired(s, delta)
    IN  {k \in Key : written[k] # s.ground[k] \/ rewired[k] # s.inputs[k]}

Affected(s, delta) ==
    LET changed == Changed(s, delta)
    IN  AffectedBy(s.inputs, changed) \cup AffectedBy(Rewired(s, delta), changed)

Evicted(s, delta) ==
    LET written == Written(s, delta)
        stale == Affected(s, delta) \ DOMAIN delta.upserts
    IN  [k \in Key |-> IF k \in stale THEN Absent ELSE written[k]]

\* Ok(PreparedDelta), otherwise ConflictingOperation, CyclicDependency or MissingDependency.
Prepares(s, delta) ==
    LET rewired == Rewired(s, delta)
        evicted == Evicted(s, delta)
    IN  /\ Encodes(delta)
        /\ Acyclic(rewired)
        /\ \A k \in DOMAIN delta.upserts : \A i \in rewired[k] : evicted[i] # Absent

\* The state the delta publishes: a new revision only if something changed.
Prepared(s, delta) ==
    LET next == [revision |-> s.revision, ground |-> Evicted(s, delta), inputs |-> Rewired(s, delta)]
    IN  IF next = s THEN s ELSE [next EXCEPT !.revision = @ + 1]
=============================================================================
