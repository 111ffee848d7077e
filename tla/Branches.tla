------------------------------ MODULE Branches ------------------------------
(***************************************************************************)
(* Speculative branches (crates/ptr-branch) over the semantic store, and   *)
(* their merge into the published state by the runtime                     *)
(* (crates/ptr-runtime/src/merge.rs), while the host writes the state      *)
(* directly (semantic.rs), lifecycle generations move, appends fail and    *)
(* runtimes are reopened from the log.                                     *)
(*                                                                         *)
(* A branch works on an immutable snapshot: it records what it reads,      *)
(* scans and relies on, and stages operations; overwriting needs a read,   *)
(* commutative operations are applied to whatever the key holds when the   *)
(* branch is merged.  The digests a sealed branch keeps are modelled by    *)
(* the base values they are digests of, a plan digest by the plan.         *)
(*                                                                         *)
(* Staging touches nothing but the branch, so it is not interleaved: while *)
(* one branch is open nothing else moves (StagingAlone); whatever happened *)
(* meanwhile happens after the seal instead.  Verifiers, triage and taint  *)
(* only decide whether a merge is held, which changes nothing.             *)
(***************************************************************************)
EXTENDS SemanticStore, Integers, FiniteSets, SequencesExt

CONSTANTS
    Branch,        \* branch ids
    Author,        \* the principal the branches are attributed to
    Reviewer,      \* the reviewers the grant lists
    FirstState,    \* the published state to begin with
    Task,          \* what authors do: the operations they stage, the keys they read, the
                   \* prefixes they scan (as sets of keys), whether they rely on a generation;
                   \* they look first, then stage some of them once each
    HostDelta,     \* the deltas the host writes
    Tally,         \* the counters that only additions change
    MinCount, MaxCount,  \* the smallest and the largest count (i64::MIN, i64::MAX)
    MaxOpened, MaxApprovals, MaxHostWrites, MaxGeneration, MaxFailures  \* bounds

\* The first state and what the host writes are well formed.
ASSUME BranchAssumption ==
    /\ FirstState.revision \in Nat
    /\ FirstState.inputs \in [Key -> SUBSET Key] /\ Acyclic(FirstState.inputs)
    /\ \A delta \in HostDelta : \A key \in DOMAIN delta.dependencies : delta.dependencies[key] \subseteq Key

VARIABLES
    disk,       \* the log: the published state, the merges it records; history: `basis'
    mem,        \* the runtime's projection of it
    fenced,     \* an append whose outcome is unknown: execution.is_fenced()
    live,       \* the live generation of the one lifecycle target
    branch,     \* the branch under each id
    approved,   \* the plans reviewers approved, each with the state its preview showed
    opened,     \* how many branches were opened
    hostWrites, \* how many writes the host made
    failures    \* how many appends failed

vars == <<disk, mem, fenced, live, branch, approved, opened, hostWrites, failures>>

-----------------------------------------------------------------------------
(* BranchOp (ops.rs) *)

OpSource == "ptr-branch"
Counter(n) == Payload("counter", n, OpSource)
Set(members) == Payload("set", members, OpSource)

Commutes(op) == op.do \in {"add", "insert", "withdraw"}
OnMember(op) == op.do \in {"insert", "withdraw"}

IsA(type, value) == value[1] \in {"absent", type}
Count(value) == IF value = Absent THEN 0 ELSE value[2]
Members(value) == IF value = Absent THEN {} ELSE value[2]
HoldsMember(value, member) == value[1] = "set" /\ member \in value[2]

\* NotACounter, NotASet, CounterOverflow.
Refused == <<"refused">>

Applied(op, current) ==
    CASE op.do = "put"    -> op.value
      [] op.do = "remove" -> Absent
      [] op.do = "add"    -> IF IsA("counter", current) /\ Count(current) + op.amount \in MinCount..MaxCount
                             THEN Counter(Count(current) + op.amount) ELSE Refused
      [] OnMember(op)     -> IF ~IsA("set", current) THEN Refused
                             ELSE IF op.do = "insert" THEN Set(Members(current) \cup {op.member})
                             ELSE Set(Members(current) \ {op.member})

\* The operations on `key', in order, from `start'.
AppliedAll(ops, key, start) ==
    FoldLeft(LAMBDA value, op : IF op.key # key \/ value = Refused THEN value ELSE Applied(op, value),
             start, ops)

-----------------------------------------------------------------------------
(* Branch (branch.rs) *)

NoBranch == [stage |-> "none"]
IsOpen(b) == branch[b].stage = "open"
StagingAlone == \A b \in Branch : ~IsOpen(b)

Touched(br) == {op.key : op \in Range(br.ops)}
Overwrites(br, key) == \E op \in Range(br.ops) : op.key = key /\ ~Commutes(op)
OnlyCommutes(br, key) == ~Overwrites(br, key)

Overlay(br, key) == AppliedAll(br.ops, key, br.base.ground[key])
OwnChanges(br) == {key \in Touched(br) : Overlay(br, key) # br.base.ground[key]}
ChangesInputOf(br, key) == DerivedFrom(br.base.inputs, key) \cap OwnChanges(br) # {}

\* Branch::view: what a merge onto the unchanged base would leave.
View(br, key) ==
    IF key \in Touched(br) THEN Overlay(br, key)
    ELSE IF ChangesInputOf(br, key) THEN Absent ELSE br.base.ground[key]

\* Branch::evicted_operand: commutative operations on a value the branch itself evicts.
EvictsOperand(br) == \E key \in Touched(br) : OnlyCommutes(br, key) /\ ChangesInputOf(br, key)

Stage(b, br) ==
    /\ branch' = [branch EXCEPT ![b] = br]
    /\ UNCHANGED <<disk, mem, fenced, live, approved, opened, hostWrites, failures>>

Open(b, task) ==
    /\ StagingAlone /\ branch[b] = NoBranch /\ opened < MaxOpened
    /\ opened' = opened + 1
    /\ branch' = [branch EXCEPT ![b] = [stage |-> "open", task |-> task, base |-> mem.state,
                                        reads |-> {}, scans |-> {}, relied |-> 0, ops |-> <<>>]]
    /\ UNCHANGED <<disk, mem, fenced, live, approved, hostWrites, failures>>

Read(b, key) ==
    /\ IsOpen(b) /\ key \in branch[b].task.reads \ branch[b].reads
    /\ Stage(b, [branch[b] EXCEPT !.reads = @ \cup {key}])

ScanPrefix(b, prefix) ==
    /\ IsOpen(b) /\ prefix \in branch[b].task.scans \ branch[b].scans
    /\ Stage(b, [branch[b] EXCEPT !.scans = @ \cup {prefix}])

\* A second declaration changes nothing: it repeats the first or is refused
\* (ConflictingReliance).
RelyOn(b) ==
    /\ IsOpen(b) /\ branch[b].task.relies /\ branch[b].relied = 0
    /\ Stage(b, [branch[b] EXCEPT !.relied = live])

\* The author has looked at what its task looks at, and may stage one more operation.
Stages(b, op) ==
    /\ IsOpen(b)
    /\ LET br == branch[b]
       IN  /\ op \in br.task.ops \ Range(br.ops)
           /\ br.task.reads \subseteq br.reads /\ br.task.scans = br.scans
           /\ br.task.relies => br.relied # 0

\* record_op, and the reads of the inputs of a key that is operated on.
Recorded(br, op) ==
    [br EXCEPT !.ops = Append(@, op), !.reads = @ \cup br.base.inputs[op.key]]

Put(b, op) ==
    LET br == branch[b]
    IN  /\ Stages(b, op)
        /\ op.do = "put" /\ op.key \in br.reads
        /\ ~EvictsOperand(Recorded(br, op))
        /\ Stage(b, Recorded(br, op))

\* A removal records no reads; a derived key has inputs, so there are none to record.
RemoveKey(b, op) ==
    LET br == branch[b]
    IN  /\ Stages(b, op)
        /\ op.do = "remove" /\ op.key \in br.reads
        /\ br.base.inputs[op.key] = {}
        /\ ~EvictsOperand(Recorded(br, op))
        /\ Stage(b, Recorded(br, op))

StageCommutative(b, op) ==
    LET br == branch[b]
    IN  /\ Stages(b, op)
        /\ Commutes(op)
        /\ OnlyCommutes(br, op.key) =>
              /\ ~ChangesInputOf(br, op.key)
              /\ br.base.inputs[op.key] # {} => br.base.ground[op.key] # Absent
        /\ Applied(op, Overlay(br, op.key)) # Refused
        /\ ~EvictsOperand(Recorded(br, op))
        /\ Stage(b, Recorded(br, op))

\* An author seals a branch that does something.
Seal(b) ==
    /\ IsOpen(b) /\ branch[b].ops # <<>>
    /\ Stage(b, [branch[b] EXCEPT !.stage = "sealed", !.task = {}])

-----------------------------------------------------------------------------
(* certify (certify.rs), against the published state *)

ReadsHoldByRevision(br, target) == target.revision >= br.base.revision
ReadsHold(br, target) ==
    \A key \in br.reads \cup UNION br.scans : target.ground[key] = br.base.ground[key]

InputsHold(br, target) ==
    \A key \in Touched(br) : target.inputs[key] = br.base.inputs[key] /\ target.inputs[key] \subseteq br.reads

LastOnMember(ops, i) ==
    /\ OnMember(ops[i])
    /\ \A j \in (i + 1)..Len(ops) :
          ~(OnMember(ops[j]) /\ ops[j].key = ops[i].key /\ ops[j].member = ops[i].member)

\* A member the branch leaves as its base has it is that way in the target too.
MembersHoldAnyhow(br, target) == TRUE
MembersHold(br, target) ==
    \A i \in DOMAIN br.ops : LastOnMember(br.ops, i) =>
        LET op == br.ops[i]
            inBase == HoldsMember(br.base.ground[op.key], op.member)
        IN  (op.do = "insert") = inBase => HoldsMember(target.ground[op.key], op.member) = inBase

Final(br, target, key) == AppliedAll(br.ops, key, target.ground[key])

PlanChanges(br, target) == {key \in Touched(br) : Final(br, target, key) # target.ground[key]}

Certifies(br, target) ==
    LET changes == PlanChanges(br, target)
    IN  /\ target.revision >= br.base.revision
        /\ br.relied # 0 => br.relied = live
        /\ ReadsHold(br, target) /\ InputsHold(br, target) /\ MembersHold(br, target)
        /\ \A key \in Touched(br) :
              /\ Final(br, target, key) # Refused
              /\ OnlyCommutes(br, key) =>
                    /\ target.inputs[key] # {} => target.ground[key] # Absent
                    /\ DerivedFrom(target.inputs, key) \cap changes = {}

PlanDelta(br, target) ==
    LET changes == PlanChanges(br, target)
        writes == {key \in Touched(br) :
                      /\ Final(br, target, key) # Absent
                      /\ key \in changes \/ DerivedFrom(target.inputs, key) \cap changes # {}}
    IN  Delta([key \in writes |-> Final(br, target, key)],
              {key \in changes : Final(br, target, key) = Absent}, NoKeys)

Rebased(br, target) ==
    {op.key : op \in {o \in Range(br.ops) : Commutes(o) /\ target.ground[o.key] # br.base.ground[o.key]}}

\* dependency_digest; the base revision stands for the digests of the base values.
DependencyDigest(br) ==
    [base |-> br.base.revision, reads |-> br.reads, scans |-> br.scans, relied |-> br.relied,
     inputs |-> [key \in Touched(br) |-> br.base.inputs[key]],
     members |-> {<<op.key, op.member>> : op \in {o \in Range(br.ops) : OnMember(o)}}]

\* What MergePlan::digest covers.
DigestWithoutRevision(b, target) ==
    [branch |-> b, delta |-> PlanDelta(branch[b], target), rebased |-> Rebased(branch[b], target),
     dependencies |-> DependencyDigest(branch[b])]
PlanDigest(b, target) ==
    [branch |-> b, expected |-> target.revision, delta |-> PlanDelta(branch[b], target),
     rebased |-> Rebased(branch[b], target), dependencies |-> DependencyDigest(branch[b])]

-----------------------------------------------------------------------------
(* The runtime: preview_merge, merge_branch, apply_verified_semantic_delta *)

MergedNever(b) == FALSE
Merged(b) == \E i \in DOMAIN mem.merges : mem.merges[i].branch = b

Mergeable(b) ==
    /\ branch[b].stage = "sealed"
    /\ ~Merged(b)
    /\ Certifies(branch[b], mem.state)
    /\ Prepares(mem.state, PlanDelta(branch[b], mem.state))

MergeResult(b) == Prepared(mem.state, PlanDelta(branch[b], mem.state))

\* A reviewer approves what a preview shows; a preview is not fenced.
PreviewMerge(b, reviewer) ==
    /\ StagingAlone /\ Cardinality(approved) < MaxApprovals
    /\ Mergeable(b)
    /\ approved' = approved \cup {[reviewer |-> reviewer, plan |-> PlanDigest(b, mem.state),
                                   shown |-> MergeResult(b)]}
    /\ UNCHANGED <<disk, mem, fenced, live, branch, opened, hostWrites, failures>>

\* The author drops a branch whose merge is refused, and may use its id again.
Abandon(b) ==
    /\ StagingAlone /\ branch[b].stage = "sealed"
    /\ ~Mergeable(b)
    /\ Stage(b, NoBranch)

\* append_prepared: the record is durable and applied, or the append fails and the
\* runtime cannot tell whether it is durable.
Commit(next) ==
    \/ disk' = next /\ mem' = next /\ UNCHANGED <<fenced, failures>>
    \/ /\ failures < MaxFailures /\ failures' = failures + 1
       /\ disk' \in {disk, next} /\ fenced' = TRUE /\ UNCHANGED mem

\* What the values of the next state were computed from (history): the author of a Put
\* computed a derived value from the inputs the branch shows when it is sealed, a
\* commutative operation builds on the value it found, and a host writes values computed
\* from the state it publishes ("upserts assert recomputation", SemanticDelta).
InputsOf(inputs, values, key) == [i \in inputs[key] |-> values[i]]
BasisAfter(next, written, values) ==
    [key \in Key |-> IF next.ground[key] = Absent THEN NoKeys
                     ELSE IF key \in written THEN InputsOf(next.inputs, values, key)
                     ELSE mem.basis[key]]

MergeBranch(b, authority) ==
    /\ StagingAlone /\ ~fenced
    /\ Mergeable(b)
    /\ LET next == MergeResult(b)
           puts == {key \in DOMAIN PlanDelta(branch[b], mem.state).upserts : Overwrites(branch[b], key)}
       IN  /\ next # mem.state
           /\ Commit([state |-> next,
                      merges |-> Append(mem.merges, [branch |-> b, ops |-> branch[b].ops, authority |-> authority]),
                      basis |-> BasisAfter(next, puts, [i \in Key |-> View(branch[b], i)])])
    /\ UNCHANGED <<live, branch, approved, opened, hostWrites>>

\* MergeAuthority::Triage: the merge policy proposes the merge by itself.
MergeByTriage(b) == MergeBranch(b, "triage")

\* MergeAuthority::Reviewed, by a listed reviewer other than the author.
MergeReviewed(b, approval) ==
    /\ approval \in approved /\ branch[b].stage = "sealed"
    /\ approval.reviewer \in Reviewer \ {Author}
    /\ approval.plan = PlanDigest(b, mem.state)
    /\ MergeBranch(b, approval.reviewer)

HostWrite(delta) ==
    /\ StagingAlone /\ ~fenced /\ hostWrites < MaxHostWrites
    /\ Prepares(mem.state, delta)
    /\ LET next == Prepared(mem.state, delta)
       IN  /\ next # mem.state
           /\ Commit([state |-> next, merges |-> mem.merges,
                      basis |-> BasisAfter(next, DOMAIN delta.upserts, next.ground)])
    /\ hostWrites' = hostWrites + 1
    /\ UNCHANGED <<live, branch, approved, opened>>

\* A generation some branch relies on is superseded (or revoked); to move one that none
\* relies on changes nothing for them.
MoveGeneration ==
    /\ StagingAlone /\ ~fenced /\ live < MaxGeneration
    /\ \E b \in Branch : branch[b].stage = "sealed" /\ branch[b].relied = live
    /\ live' = live + 1
    /\ UNCHANGED <<disk, mem, fenced, branch, approved, opened, hostWrites, failures>>

\* The fenced runtime is dropped and its successor replays the log.
Reopen ==
    /\ StagingAlone /\ fenced
    /\ mem' = disk /\ fenced' = FALSE
    /\ UNCHANGED <<disk, live, branch, approved, opened, hostWrites, failures>>

-----------------------------------------------------------------------------

FirstBasis ==
    [key \in Key |-> IF FirstState.ground[key] = Absent THEN NoKeys
                     ELSE InputsOf(FirstState.inputs, FirstState.ground, key)]

Init ==
    /\ disk = [state |-> FirstState, merges |-> <<>>, basis |-> FirstBasis] /\ mem = disk
    /\ fenced = FALSE /\ live = 1
    /\ branch = [b \in Branch |-> NoBranch]
    /\ approved = {} /\ opened = 0 /\ hostWrites = 0 /\ failures = 0

Staging(b) ==
    \/ Abandon(b)
    \/ \E task \in Task : Open(b, task)
    \/ /\ IsOpen(b)
       /\ \/ RelyOn(b) \/ Seal(b)
          \/ \E key \in branch[b].task.reads : Read(b, key)
          \/ \E prefix \in branch[b].task.scans : ScanPrefix(b, prefix)
          \/ \E op \in branch[b].task.ops : Put(b, op) \/ RemoveKey(b, op) \/ StageCommutative(b, op)

Next ==
    \/ \E b \in Branch :
          \/ Staging(b) \/ MergeByTriage(b)
          \/ \E reviewer \in Reviewer : PreviewMerge(b, reviewer)
          \/ \E approval \in approved : MergeReviewed(b, approval)
    \/ \E delta \in HostDelta : HostWrite(delta)
    \/ MoveGeneration \/ Reopen

Spec == Init /\ [][Next]_vars

-----------------------------------------------------------------------------
(* Properties *)

\* A derived value that is published was computed from the values its inputs have now,
\* whatever was merged, rebased, evicted or written between the branch's snapshot and
\* its merge (prepare_delta and certify together), provided no author puts a derived value
\* whose inputs its own branch evicts.
DerivedIsFresh ==
    \A key \in Key : disk.state.ground[key] # Absent =>
        disk.basis[key] = InputsOf(disk.state.inputs, disk.state.ground, key)

\* The branch's change, as a change of the published value: what it overwrote is what
\* it wrote, a counter moves by as much as in the branch, and of a set exactly the
\* members move that moved in the branch.
MeantFor(br, key, old, new) ==
    LET base == br.base.ground[key]
        own == Overlay(br, key)
    IN  CASE Overwrites(br, key) -> new = own
          [] OnlyCommutes(br, key) /\ own[1] = "counter" ->
                Count(new) - Count(old) = Count(own) - Count(base)
          [] OnlyCommutes(br, key) /\ own[1] = "set" ->
                Members(new) = (Members(old) \cup (Members(own) \ Members(base)))
                                   \ (Members(base) \ Members(own))

\* The merges a step appends to the log.
NewMerges == {disk'.merges[i] : i \in DOMAIN disk'.merges \ DOMAIN disk.merges}

\* A merge publishes the branch's change and nothing else: no concurrent addition,
\* insertion or removal is lost or undone, and a key the branch did not touch changes
\* only by eviction (certify: "which merging would undo").
MergeKeepsIntent ==
    [][\A m \in NewMerges :
          LET br == branch[m.branch]
          IN  \A key \in Key :
                 LET old == disk.state.ground[key]
                     new == disk'.state.ground[key]
                 IN  IF key \in Touched(br) THEN MeantFor(br, key, old, new)
                     ELSE new = old \/ new = Absent]_vars

Added(ops, key) ==
    FoldLeft(LAMBDA sum, op : IF op.key = key THEN sum + op.amount ELSE sum, 0, ops)

\* For each branch id of the log, the first merge under it.
FirstMerges ==
    {i \in DOMAIN disk.merges : \A j \in 1..(i - 1) : disk.merges[j].branch # disk.merges[i].branch}

\* Every merged branch counts exactly once, although a merge may be retried after an
\* append that failed and yet was durable, and its id used again (merge_branch: "a
\* branch id is merged at most once").
MergedCountsOnce ==
    \A key \in Tally :
        Count(disk.state.ground[key]) =
            FoldSet(LAMBDA i, sum : sum + Added(disk.merges[i].ops, key), 0, FirstMerges)

\* A reviewed merge publishes the very state the reviewer was shown, not what the
\* approved changes give on a state that moved since (MergePlan::digest).
ApprovedIsPublished ==
    [][\A m \in NewMerges : m.authority # "triage" =>
          \E a \in approved : /\ a.plan.branch = m.branch /\ a.reviewer = m.authority
                              /\ a.shown = disk'.state]_vars
=============================================================================
