----------------------------- MODULE Knowledge -----------------------------
(***************************************************************************)
(* KnowledgeStore (crates/ptr-memory/src/knowledge.rs): generations of     *)
(* knowledge objects, the generation that is current, and invalidation     *)
(* cascading to everything that depends on an invalidated generation.      *)
(*                                                                         *)
(* Abstractions.                                                           *)
(*  - The content of a generation is its sources, its dependencies, the    *)
(*    generation it supersedes and the lifecycle it was built with.        *)
(*  - Revision counters of lifecycle records are left out.                 *)
(***************************************************************************)
EXTENDS Integers, Sequences, FiniteSets

CONSTANTS
    ObjectId,     \* KnowledgeObjectId
    MaxGen,       \* bound on generations
    Raw,          \* RawEventId
    Absent,       \* no entry under a key
    MaxStage,     \* bound on the demotions of one generation, as a position in Stages
    MaxDeps,      \* bound on the dependencies of one generation
    SourceSets,   \* sets of sources callers build objects from
    BuiltStages,  \* lifecycles callers build objects with
    Trusted       \* generations a caller may register without admission

VARIABLES
    raw,        \* KnowledgeStore.raw
    objects,    \* KnowledgeStore.objects
    current,    \* KnowledgeStore.current, 0 for none
    lifecycle,  \* KnowledgeStore.lifecycle
    admitted    \* history: generations that came through admit_object

knowledgeVars == <<raw, objects, current, lifecycle, admitted>>

Gen == 1..MaxGen
Key == ObjectId \X Gen
Stages == <<"Hot", "Warm", "Cold", "Pod", "Archived">>
KnowledgeLifecycle == {Stages[n] : n \in 1..MaxStage} \cup {"Invalidated"}
NoKey == <<"none", 0>>
Object == [sources : SUBSET Raw, deps : SUBSET Key, supersedes : Key \cup {NoKey},
           lifecycle : KnowledgeLifecycle]

ASSUME KnowledgeAssumption ==
    /\ MaxGen \in Nat \ {0} /\ MaxStage \in 1..5 /\ MaxDeps \in Nat
    /\ Trusted \subseteq Key /\ BuiltStages \subseteq KnowledgeLifecycle
    /\ SourceSets \subseteq SUBSET Raw
    /\ Absent \notin Object /\ Absent \notin KnowledgeLifecycle

HeldObjects == {k \in Key : objects[k] # Absent}

KnowledgeTypeOK ==
    /\ raw \subseteq Raw
    /\ \A k \in Key : objects[k] = Absent \/ objects[k] \in Object
    /\ DOMAIN objects = Key
    /\ current \in [ObjectId -> 0..MaxGen]
    /\ lifecycle \in [Key -> KnowledgeLifecycle \cup {Absent}]
    /\ admitted \subseteq HeldObjects
    /\ \A i \in ObjectId : current[i] # 0 => <<i, current[i]>> \in HeldObjects

KnowledgeInit ==
    /\ raw = {}
    /\ objects = [k \in Key |-> Absent]
    /\ current = [i \in ObjectId |-> 0]
    /\ lifecycle = [k \in Key |-> Absent]
    /\ admitted = {}

-----------------------------------------------------------------------------
(* Helpers *)

\* lifecycle_of: the recorded state, else the object's own, else invalid.
LifecycleOf(k) ==
    IF lifecycle[k] # Absent THEN lifecycle[k]
    ELSE IF k \in HeldObjects THEN objects[k].lifecycle
    ELSE "Invalidated"

Invalid(k) == LifecycleOf(k) = "Invalidated"

LifecycleAllowed(from, to) ==
    to = "Invalidated" \/ \E n \in 1..4 : from = Stages[n] /\ to = Stages[n + 1]

\* invalidation_closure: k and everything that depends on it, directly or not.
Closure(k) ==
    {j \in Key : \A S \in SUBSET Key :
        k \in S /\ (\A d \in HeldObjects : objects[d].deps \cap S # {} => d \in S) => j \in S}

\* apply_invalidation
Invalidated(S) == [k \in Key |-> IF k \in S THEN "Invalidated" ELSE lifecycle[k]]

\* What callers build for k, superseding the generation before it or, wrongly, none.
Buildable(k) ==
    {o \in [sources : SourceSets, deps : {D \in SUBSET Key : Cardinality(D) <= MaxDeps},
            supersedes : {NoKey, <<k[1], k[2] - 1>>}, lifecycle : BuiltStages] :
        k[2] = 1 => o.supersedes = NoKey}

-----------------------------------------------------------------------------
(* Operations *)

AppendRaw(r) ==
    /\ r \notin raw
    /\ raw' = raw \cup {r}
    /\ UNCHANGED <<objects, current, lifecycle, admitted>>

\* register_object: registering what is there already changes nothing, and another content is
\* refused. The first generation registered becomes current.
RegisterObject(k, o) ==
    /\ objects[k] \in {Absent, o}
    /\ objects' = [objects EXCEPT ![k] = o]
    /\ current' = IF current[k[1]] = 0 THEN [current EXCEPT ![k[1]] = k[2]] ELSE current
    /\ UNCHANGED <<raw, lifecycle>>

\* An object is admitted while a dependency is known, valid or not.
AdmitKnown(k, o) ==
    /\ o.sources \subseteq raw
    /\ o.deps \subseteq HeldObjects
    /\ k[2] > 1 => o.supersedes = <<k[1], k[2] - 1>> /\ o.supersedes \in HeldObjects
    /\ RegisterObject(k, o)
    /\ admitted' = admitted \cup {k}

AdmitObject(k, o) ==
    /\ o.sources \subseteq raw
    /\ \A d \in o.deps : d \in HeldObjects /\ ~Invalid(d)
    /\ k[2] > 1 => o.supersedes = <<k[1], k[2] - 1>> /\ o.supersedes \in HeldObjects
    /\ RegisterObject(k, o)
    /\ admitted' = admitted \cup {k}

\* The cascade is applied without asking whether it reaches the generation being activated.
ActivateUnchecked(k) ==
    LET previous == <<k[1], current[k[1]]>>
        cascade == IF previous = k THEN {} ELSE Closure(previous)
    IN
    /\ k \in HeldObjects /\ ~Invalid(k)
    /\ k[2] > 1 => objects[k].supersedes[2] + 1 = k[2]
    /\ lifecycle' = [j \in Key |-> IF j \in cascade THEN "Invalidated"
                                   ELSE IF j = k /\ lifecycle[j] = Absent THEN objects[k].lifecycle
                                   ELSE lifecycle[j]]
    /\ current' = [current EXCEPT ![k[1]] = k[2]]
    /\ UNCHANGED <<raw, objects, admitted>>

\* activate_generation: the cascade of the previous generation is decided first, and activation
\* fails when it would reach the generation being activated. A recorded lifecycle survives.
ActivateGeneration(k) ==
    LET previous == <<k[1], current[k[1]]>>
        cascade == IF previous = k THEN {} ELSE Closure(previous)
    IN
    /\ k \in HeldObjects /\ ~Invalid(k)
    /\ k[2] > 1 => objects[k].supersedes[2] + 1 = k[2]
    /\ k \notin cascade
    /\ lifecycle' = [j \in Key |-> IF j \in cascade THEN "Invalidated"
                                   ELSE IF j = k /\ lifecycle[j] = Absent THEN objects[k].lifecycle
                                   ELSE lifecycle[j]]
    /\ current' = [current EXCEPT ![k[1]] = k[2]]
    /\ UNCHANGED <<raw, objects, admitted>>

\* transition of the current generation; to Invalidated it cascades.
TransitionObject(i, to) ==
    LET k == <<i, current[i]>> IN
    /\ current[i] # 0
    /\ to # LifecycleOf(k) /\ LifecycleAllowed(LifecycleOf(k), to)
    /\ lifecycle' = IF to = "Invalidated" THEN Invalidated(Closure(k))
                    ELSE [lifecycle EXCEPT ![k] = to]
    /\ UNCHANGED <<raw, objects, current, admitted>>

Invalidate(i) ==
    /\ current[i] # 0
    /\ lifecycle' = Invalidated(Closure(<<i, current[i]>>))
    /\ UNCHANGED <<raw, objects, current, admitted>>

KnowledgeNext ==
    \/ \E r \in Raw : AppendRaw(r)
    \/ \E k \in Key : \E o \in Buildable(k) :
          \/ AdmitObject(k, o)
          \/ k \in Trusted /\ RegisterObject(k, o) /\ UNCHANGED admitted
    \/ \E k \in Key : ActivateGeneration(k)
    \/ \E i \in ObjectId : Invalidate(i) \/ \E to \in KnowledgeLifecycle : TransitionObject(i, to)

KnowledgeSpec == KnowledgeInit /\ [][KnowledgeNext]_knowledgeVars

-----------------------------------------------------------------------------
(* Properties *)

\* No admitted generation is valid while something it rests on is invalid, whatever was
\* registered without admission, activated, demoted and invalidated in between.
ValidRestsOnValid ==
    \A k \in admitted : ~Invalid(k) => \A d \in objects[k].deps : ~Invalid(d)

\* A generation that takes over is valid, the one it replaces is not and never will be again: no
\* activation invalidates itself through its own cascade, and nothing revives an invalid one.
TakeoverIsClean ==
    [][\A i \in ObjectId, old, new \in Gen :
          /\ Invalid(<<i, old>>) /\ <<i, old>> \in HeldObjects => Invalid(<<i, old>>)'
          /\ old # new /\ current[i] = old /\ current'[i] = new =>
              Invalid(<<i, old>>)' /\ ~Invalid(<<i, new>>)']_knowledgeVars
=============================================================================
