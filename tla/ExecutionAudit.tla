--------------------------- MODULE ExecutionAudit ---------------------------
(***************************************************************************)
(* The durable execution audit of crates/ptr-runtime: execution.rs         *)
(* (sessions, permits, at-most-once keys, synchronous and detached         *)
(* dispatch, settlement, reconciliation) and the commit path of lib.rs     *)
(* that it writes through (commit, commit_settlement, append_checked,      *)
(* validate_lifecycle_event, apply_committed, replay on open).             *)
(*                                                                         *)
(* A runtime call holds `&mut self', so calls do not interleave with each  *)
(* other. They do interleave with the world: an executor acts between the  *)
(* attempt record and its settlement, a detached adapter acts and reports  *)
(* whenever it likes, and the runtime may be lost between any two steps    *)
(* and rebuilt from the ledger.                                            *)
(*                                                                         *)
(* Abstractions.                                                           *)
(*  - One target capsule in one project; an Action stands for everything   *)
(*    action_digest covers except the revision and generation.             *)
(*  - A response is identified by the attempt whose effect produced it.    *)
(*  - A permit's epoch (Arc identity) is the flag `stale': the epoch was   *)
(*    replaced since the permit was issued. Grants are compared by scope:  *)
(*    they are only replaced together with the epoch.                      *)
(*  - The execution-section budget counts items. Whether a response still  *)
(*    fits its bytes is a free choice (retain), and scopes are left out.   *)
(*  - MaxRecords bounds the log; its last place is kept for a record that  *)
(*    closes an attempt (RoomToClose).                                     *)
(***************************************************************************)
EXTENDS Integers, Sequences, FiniteSets

CONSTANTS
    Action,            \* what may be asked for
    DetachedAction,    \* the actions whose grant is ExecutionGrant::detached
    Key, NoKey,        \* at-most-once keys; no key
    Principal,         \* principals sessions act as
    Peer, NoPeer,      \* peers the transport authenticates; a host session
    Policies,          \* admission policies the host installs
    SectionItems,      \* compacted.rs MAX_SECTION_ITEMS
    MaxRecords,        \* bound on the ledger
    MaxGeneration,     \* bound on generations of the target
    MaxSessions,       \* bound on session ids of one runtime
    MaxPermits,        \* bound on permits held by callers
    MaxHostSteps,      \* bound on changes of authority outside the ledger
    MaxFailures        \* bound on failed appends and lost runtimes

ASSUME DetachedAssumption == DetachedAction \subseteq Action
ASSUME AbsentAssumption == NoKey \notin Key /\ NoPeer \notin Peer

VARIABLES
    ledger,     \* the durable log
    mem,        \* what apply_committed maintains: MaterializedView
    applied,    \* number of records mem has applied
    uncertain,  \* ExecutionState.uncertain
    detached,   \* ExecutionState.detached
    sessions,   \* ExecutionState.sessions
    policy,     \* ExecutionState.policy
    capable,    \* the actions PermissionSet allows
    permits,    \* permits in the hands of callers
    pc,         \* where the runtime is
    call,       \* Attempted: the dispatch in progress
    world,      \* external: the attempts whose effect was applied
    jobs,       \* external: work an adapter accepted and has not finished
    reports,    \* external: adapter answers, delivered any number of times
    answers,    \* history: responses callers were given
    hostSteps, failures

vars == <<ledger, mem, applied, uncertain, detached, sessions, policy, capable,
          permits, pc, call, world, jobs, reports, answers, hostSteps, failures>>
authorityVars == <<sessions, policy, capable>>
worldVars == <<world, jobs, reports>>
boundVars == <<hostSteps, failures>>

AdmissionPolicy == [Peer -> [admitted : BOOLEAN, principal : Principal,
                             grants : SUBSET Action]]
ASSUME PolicyAssumption == Policies \subseteq AdmissionPolicy
ASSUME SectionAssumption == SectionItems \in Nat \ {0}
ASSUME BoundAssumption ==
    /\ MaxRecords \in Nat /\ MaxGeneration \in Nat /\ MaxSessions \in Nat /\ MaxPermits \in Nat
    /\ MaxHostSteps \in Nat /\ MaxFailures \in Nat

Indices == 1..MaxRecords

-----------------------------------------------------------------------------
(* Records *)

\* digest_at: the digest covers the revision and generation of the action.
DigestAt(action, revision, generation) == <<action, revision, generation>>

EffectAttempted(key, principal, action, revision, generation) ==
    [kind |-> "EffectAttempted", key |-> key,
     identity |-> [principal |-> principal, revision |-> revision,
                   generation |-> generation,
                   digest |-> DigestAt(action, revision, generation)]]
\* response = 0: the outcome is recorded without its response.
EffectSettled(attempt, response) ==
    [kind |-> "EffectSettled", attempt |-> attempt, response |-> response]
EffectReconciled(attempt, outcome) ==
    [kind |-> "EffectReconciled", attempt |-> attempt, applied |-> outcome]
SemanticDelta == [kind |-> "SemanticDeltaCommitted"]
CapsuleSuperseded(new) == [kind |-> "CapsuleSuperseded", new |-> new]
Revoked(generation) == [kind |-> "Revoked", generation |-> generation]

Identity == [principal : Principal, revision : Nat, generation : Nat,
             digest : Action \X Nat \X Nat]
Record ==
    [kind : {"EffectAttempted"}, key : Key \cup {NoKey}, identity : Identity]
    \cup [kind : {"EffectSettled"}, attempt : Nat, response : Nat]
    \cup [kind : {"EffectReconciled"}, attempt : Nat, applied : BOOLEAN]
    \cup [kind : {"SemanticDeltaCommitted"}]
    \cup [kind : {"CapsuleSuperseded"}, new : Nat]
    \cup [kind : {"Revoked"}, generation : Nat]

-----------------------------------------------------------------------------
(* The view apply_committed builds *)

\* A runtime before its first record; generation 1 of the target is live.
Fresh == [unsettled |-> <<>>, settled |-> <<>>, revision |-> 0, live |-> 1, revoked |-> {}]

\* BTreeMap::insert and BTreeMap::remove.
With(f, x, e) == [y \in DOMAIN f \cup {x} |-> IF y = x THEN e ELSE f[y]]
Without(f, x) == [y \in DOMAIN f \ {x} |-> f[y]]

\* ExecutionState::settle binds an applied outcome to the attempt it closes.
Binding(m, attempt, outcome, response) ==
    LET effect == m.unsettled[attempt]
    IN  IF effect.key = NoKey THEN m.settled
        ELSE With(m.settled, effect.key,
                  [outcome |-> outcome, attempt |-> attempt,
                   identity |-> effect.identity, response |-> response])
Settle(m, attempt, outcome, response) ==
    [unsettled |-> Without(m.unsettled, attempt),
     settled |-> Binding(m, attempt, outcome, response),
     revision |-> m.revision, live |-> m.live, revoked |-> m.revoked]

ReconcileOutcomeIgnored(rec) == "AppliedWithoutResponse"

\* A reconciliation establishes whether the effect applied, never a response.
ReconcileOutcome(rec) == IF rec.applied THEN "AppliedWithoutResponse" ELSE "NotApplied"

\* PtrRuntime::apply_committed of the record at index i.
ApplyCommitted(m, i, rec) ==
    CASE rec.kind = "SemanticDeltaCommitted" -> [m EXCEPT !.revision = @ + 1]
      [] rec.kind = "CapsuleSuperseded" -> [m EXCEPT !.live = rec.new]
      [] rec.kind = "Revoked" -> [m EXCEPT !.revoked = @ \cup {rec.generation}]
      [] rec.kind = "EffectAttempted" ->
            [m EXCEPT !.unsettled = With(@, i, [key |-> rec.key, identity |-> rec.identity])]
      [] rec.kind = "EffectSettled" ->
            Settle(m, rec.attempt,
                   IF rec.response = 0 THEN "AppliedWithoutResponse" ELSE "Applied",
                   rec.response)
      [] rec.kind = "EffectReconciled" -> Settle(m, rec.attempt, ReconcileOutcome(rec), 0)

KeyInFlight(m, key) == \E i \in DOMAIN m.unsettled : m.unsettled[i].key = key

\* PtrRuntime::validate_lifecycle_event, before an append and again on replay.
ValidLifecycleEvent(m, rec) ==
    CASE rec.kind = "CapsuleSuperseded" -> rec.new > m.live /\ rec.new \notin m.revoked
      [] rec.kind = "EffectAttempted" -> rec.key # NoKey => ~KeyInFlight(m, rec.key)
      [] rec.kind \in {"EffectSettled", "EffectReconciled"} -> rec.attempt \in DOMAIN m.unsettled
      [] OTHER -> TRUE

IsFencedByFlagOnly == uncertain

\* ExecutionState::is_fenced: the fence is derived from committed history.
IsFenced == uncertain \/ DOMAIN mem.unsettled # {}

-----------------------------------------------------------------------------
(* Appending *)

\* ExecutionState::invalidate_pending replaces the epoch permits carry.
StalePermits(ps) == {[p EXCEPT !.stale = TRUE] : p \in ps}

\* append_checked: uncertain from before the first byte until memory follows.
AppendChecked(rec, ps) ==
    /\ Len(ledger) < MaxRecords
    /\ ledger' = Append(ledger, rec)
    /\ mem' = ApplyCommitted(mem, Len(ledger) + 1, rec)
    /\ applied' = applied + 1
    /\ permits' = StalePermits(ps)
    /\ UNCHANGED <<uncertain, failures>>

AppendFailsAsRefused(rec, ps) ==
    /\ failures < MaxFailures /\ Len(ledger) < MaxRecords
    /\ failures' = failures + 1
    /\ ledger' \in {ledger, Append(ledger, rec)}
    /\ permits' = StalePermits(ps)
    /\ UNCHANGED <<mem, applied, uncertain>>

\* The append reports an error: the record may be durable all the same, and
\* the runtime stays uncertain until it is rebuilt.
AppendFails(rec, ps) ==
    /\ failures < MaxFailures /\ Len(ledger) < MaxRecords
    /\ failures' = failures + 1
    /\ ledger' \in {ledger, Append(ledger, rec)}
    /\ uncertain' = TRUE
    /\ permits' = StalePermits(ps)
    /\ UNCHANGED <<mem, applied>>

SectionAdmitsUnreserved(rec) ==
    rec.kind = "EffectAttempted" =>
        /\ Cardinality(DOMAIN mem.unsettled) < SectionItems
        /\ Cardinality(DOMAIN mem.settled) <= SectionItems

\* check_execution_section_growth: an attempt is admitted with its own item and with
\* the item its settlement will take, unless its key has one already; the keys of
\* open attempts count as settled. Other records add no item here.
SectionAdmits(rec) ==
    rec.kind = "EffectAttempted" =>
        LET reserved == {mem.unsettled[i].key : i \in DOMAIN mem.unsettled} \cup {rec.key}
        IN  /\ Cardinality(DOMAIN mem.unsettled) < SectionItems
            /\ Cardinality(DOMAIN mem.settled \cup (reserved \ {NoKey})) <= SectionItems

\* PtrRuntime::commit, for a record other than a settlement.
CommitRefused(rec) ==
    IsFenced \/ ~SectionAdmits(rec) \/ ~ValidLifecycleEvent(mem, rec)

SettlementRefusedByFence(rec) == IsFenced \/ ~ValidLifecycleEvent(mem, rec)

\* PtrRuntime::commit_settlement is not gated on the fence it ends.
SettlementRefused(rec) == uncertain \/ ~ValidLifecycleEvent(mem, rec)

\* Bound: the last place of the log is kept for the record that closes an attempt.
RoomToClose == Len(ledger) + 1 < MaxRecords

Commit(rec) ==
    /\ pc = "idle" /\ RoomToClose /\ ~CommitRefused(rec)
    /\ AppendChecked(rec, permits) \/ AppendFails(rec, permits)
    /\ UNCHANGED <<detached, authorityVars, pc, call, worldVars, answers, hostSteps>>

CommitSemantic == Commit(SemanticDelta)
SupersedeCapsule(new) == Commit(CapsuleSuperseded(new))
RevokeGeneration(generation) == Commit(Revoked(generation))

-----------------------------------------------------------------------------
(* Authority: sessions, admission policy, permissions, permits *)

SessionRecord == [principal : Principal, grants : SUBSET Action,
                  peer : Peer \cup {NoPeer}, live : BOOLEAN]
Permit == [session : 1..MaxSessions, action : Action, revision : Nat, generation : Nat,
           key : Key \cup {NoKey}, stale : BOOLEAN]

HostStep == hostSteps < MaxHostSteps /\ hostSteps' = hostSteps + 1

\* ExecutionState::session: re-derived at every use.
SessionValid(id) ==
    /\ ~IsFenced
    /\ id \in DOMAIN sessions /\ sessions[id].live
    /\ sessions[id].peer # NoPeer => policy[sessions[id].peer].admitted

\* register_session, for a host session or a peer that admit_peer looked up.
RegisterSession(principal, grants, peer) ==
    /\ pc = "idle" /\ ~IsFenced
    /\ grants # {}
    /\ Len(sessions) < MaxSessions
    /\ sessions' = Append(sessions, [principal |-> principal, grants |-> grants,
                                     peer |-> peer, live |-> TRUE])
    /\ UNCHANGED <<ledger, mem, applied, uncertain, detached, policy, capable, permits,
                   pc, call, worldVars, answers, boundVars>>

RegisterExecutionSession(principal) == RegisterSession(principal, Action, NoPeer)

AdmitPeer(peer) ==
    /\ policy[peer].admitted
    /\ RegisterSession(policy[peer].principal, policy[peer].grants, peer)

InstallPolicyKeepingSessions(new) ==
    /\ pc = "idle" /\ HostStep
    /\ policy' = new
    /\ permits' = StalePermits(permits)
    /\ UNCHANGED <<ledger, mem, applied, uncertain, detached, sessions, capable, pc, call,
                   worldVars, answers, failures>>

\* install_admission_policy: live sessions take principal and grants from the
\* new table; one whose peer it does not admit is left to be refused by name.
InstallPolicy(new) ==
    /\ pc = "idle" /\ HostStep
    /\ policy' = new
    /\ sessions' = [id \in DOMAIN sessions |->
          LET s == sessions[id]
          IN  IF s.peer # NoPeer /\ new[s.peer].admitted
              THEN [s EXCEPT !.principal = new[s.peer].principal,
                             !.grants = new[s.peer].grants]
              ELSE s]
    /\ permits' = StalePermits(permits)
    /\ UNCHANGED <<ledger, mem, applied, uncertain, detached, capable, pc, call,
                   worldVars, answers, failures>>

WithdrawPeer(peer) ==
    /\ pc = "idle" /\ HostStep
    /\ policy[peer].admitted
    /\ policy' = [policy EXCEPT ![peer].admitted = FALSE]
    /\ UNCHANGED <<ledger, mem, applied, uncertain, detached, sessions, capable, permits,
                   pc, call, worldVars, answers, failures>>

\* revoke_execution_session, or the session's expiry.
EndSession(id) ==
    /\ pc = "idle"
    /\ id \in DOMAIN sessions /\ sessions[id].live
    /\ sessions' = [sessions EXCEPT ![id].live = FALSE]
    /\ UNCHANGED <<ledger, mem, applied, uncertain, detached, policy, capable, permits,
                   pc, call, worldVars, answers, boundVars>>

\* permissions_mut invalidates every permit before it hands out the set.
ChangePermissions(set) ==
    /\ pc = "idle" /\ HostStep
    /\ capable' = set
    /\ permits' = StalePermits(permits)
    /\ UNCHANGED <<ledger, mem, applied, uncertain, detached, sessions, policy, pc, call,
                   worldVars, answers, failures>>

CheckExecutionActionOnce(action, revision, generation) == action \in capable

\* check_execution_action: capability, current revision, live generation.
CheckExecutionAction(action, revision, generation) ==
    /\ action \in capable
    /\ revision = mem.revision
    /\ generation = mem.live
    /\ generation \notin mem.revoked

\* prepare_execution and prepare_execution_once, for an action that carries
\* the revision and generation its author saw.
Prepare(id, action, revision, generation, key) ==
    /\ pc = "idle"
    /\ SessionValid(id)
    /\ action \in sessions[id].grants
    /\ CheckExecutionAction(action, revision, generation)
    /\ Cardinality(permits) < MaxPermits
    /\ permits' = permits \cup
          {[session |-> id, action |-> action, revision |-> revision,
            generation |-> generation, key |-> key, stale |-> FALSE]}
    /\ UNCHANGED <<ledger, mem, applied, uncertain, detached, authorityVars, pc, call,
                   worldVars, answers, boundVars>>

-----------------------------------------------------------------------------
(* Admission of an effect *)

\* The checks of admit_effect up to the verifier's verdict.
Admissible(p) ==
    /\ SessionValid(p.session)
    /\ ~p.stale
    /\ p.action \in sessions[p.session].grants
    /\ CheckExecutionAction(p.action, p.revision, p.generation)

IsRetryOfAnyone(identity, principal, action) ==
    identity.digest = DigestAt(action, identity.revision, identity.generation)

\* ActionIdentity::is_retry: digested at the recorded revision and generation.
IsRetry(identity, principal, action) ==
    /\ identity.principal = principal
    /\ identity.digest = DigestAt(action, identity.revision, identity.generation)

AdmissionWithoutMemory(p) == "Attempt"

\* What a key's entry makes of the permit.
Admission(p) ==
    LET bound == mem.settled[p.key]
    IN  IF \/ p.key \notin DOMAIN mem.settled
           \/ bound.outcome = "NotApplied"
        THEN "Attempt"
        ELSE IF ~IsRetry(bound.identity, sessions[p.session].principal, p.action)
             THEN "KeyBoundToAnotherAction"
             ELSE IF bound.outcome = "Applied" THEN "Replayed" ELSE "ResponseNotRetained"

AttemptRecord(p) ==
    EffectAttempted(p.key, sessions[p.session].principal, p.action, p.revision, p.generation)

Idle == [attempt |-> 0]

Dispatching(p) ==
    /\ pc' = "dispatch"
    /\ call' = [attempt |-> Len(ledger) + 1, principal |-> sessions[p.session].principal,
                action |-> p.action, peer |-> sessions[p.session].peer, key |-> p.key]

AttemptEffectUnaudited(p) ==
    /\ pc = "idle" /\ RoomToClose
    /\ Admissible(p) /\ Admission(p) = "Attempt"
    /\ ~CommitRefused(AttemptRecord(p))
    /\ AppendChecked(AttemptRecord(p), permits \ {p}) \/ AppendFails(AttemptRecord(p), permits \ {p})
    /\ Dispatching(p)
    /\ UNCHANGED <<detached, authorityVars, worldVars, answers, hostSteps>>

\* admit_effect: log first. A failed append ends the call with the attempt
\* undispatched, durable or not.
AttemptEffect(p) ==
    /\ pc = "idle" /\ RoomToClose
    /\ Admissible(p) /\ Admission(p) = "Attempt"
    /\ ~CommitRefused(AttemptRecord(p))
    /\ \/ AppendChecked(AttemptRecord(p), permits \ {p}) /\ Dispatching(p)
       \/ AppendFails(AttemptRecord(p), permits \ {p}) /\ UNCHANGED <<pc, call>>
    /\ UNCHANGED <<detached, authorityVars, worldVars, answers, hostSteps>>

Answered(key, principal, action, response) ==
    answers' = answers \cup {[key |-> key, principal |-> principal, action |-> action,
                              response |-> response]}

\* A retry is answered from history; nothing is dispatched or logged. dispatch_detached
\* says that the effect was applied and hands out no response.
ReplayOutcome(p) ==
    /\ pc = "idle"
    /\ Admissible(p) /\ Admission(p) = "Replayed"
    /\ permits' = permits \ {p}
    /\ IF p.action \in DetachedAction THEN UNCHANGED answers
       ELSE Answered(p.key, sessions[p.session].principal, p.action, mem.settled[p.key].response)
    /\ UNCHANGED <<ledger, mem, applied, uncertain, detached, authorityVars, pc, call,
                   worldVars, boundVars>>

\* The permit is consumed by a refusal (any check, or the verifier), or its
\* holder lets it expire.
RefusePermit(p) ==
    /\ pc = "idle"
    /\ permits' = permits \ {p}
    /\ UNCHANGED <<ledger, mem, applied, uncertain, detached, authorityVars, pc, call,
                   worldVars, answers, boundVars>>

-----------------------------------------------------------------------------
(* Dispatch, settlement, reconciliation *)

\* ActionExecutor::execute applies the effect or not, and says Ok or Err: only
\* Ok goes on to the settlement.
ExecuteSynchronous(applies, ok) ==
    /\ pc = "dispatch" /\ call.action \notin DetachedAction
    /\ ok => applies
    /\ world' = IF applies THEN world \cup {call.attempt} ELSE world
    /\ IF ok THEN pc' = "settle" /\ UNCHANGED call ELSE pc' = "idle" /\ call' = Idle
    /\ UNCHANGED <<ledger, mem, applied, uncertain, detached, authorityVars, permits,
                   jobs, reports, answers, boundVars>>

\* DetachedExecutor::start: an Err does not say the work was not handed off.
StartDetached(accepted, ok) ==
    /\ pc = "dispatch" /\ call.action \in DetachedAction
    /\ ok => accepted
    /\ jobs' = IF accepted THEN jobs \cup {call.attempt} ELSE jobs
    /\ detached' = IF ok THEN detached \cup {call.attempt} ELSE detached
    /\ pc' = "idle" /\ call' = Idle
    /\ UNCHANGED <<ledger, mem, applied, uncertain, authorityVars, permits, world, reports,
                   answers, boundVars>>

\* The adapter applies the work it accepted and has an answer to report.
JobApplies(i) ==
    /\ i \in jobs
    /\ jobs' = jobs \ {i} /\ world' = world \cup {i} /\ reports' = reports \cup {i}
    /\ UNCHANGED <<ledger, mem, applied, uncertain, detached, authorityVars, permits, pc,
                   call, answers, boundVars>>

\* The adapter gives the work up for good and never reports.
JobDies(i) ==
    /\ i \in jobs
    /\ jobs' = jobs \ {i}
    /\ UNCHANGED <<ledger, mem, applied, uncertain, detached, authorityVars, permits, pc,
                   call, world, reports, answers, boundVars>>

\* record_settlement retains the response only if it fits.
SettlementRecord(attempt, retain) == EffectSettled(attempt, IF retain THEN attempt ELSE 0)

\* The end of execute_prepared.
SettleSynchronous(retain) ==
    /\ pc = "settle"
    /\ pc' = "idle" /\ call' = Idle
    /\ LET rec == SettlementRecord(call.attempt, retain)
       IN  \/ /\ ~SettlementRefused(rec)
              /\ \/ /\ AppendChecked(rec, permits)
                    /\ Answered(call.key, call.principal, call.action, call.attempt)
                 \/ AppendFails(rec, permits) /\ UNCHANGED answers
           \/ /\ SettlementRefused(rec)
              /\ UNCHANGED <<ledger, mem, applied, uncertain, permits, answers, failures>>
    /\ UNCHANGED <<detached, authorityVars, worldVars, hostSteps>>

\* settle_detached with an adapter's answer, which may come late or again.
SettleDetached(i, retain) ==
    LET rec == SettlementRecord(i, retain)
    IN  /\ pc = "idle" /\ i \in reports
        /\ i \in detached /\ i \in DOMAIN mem.unsettled
        /\ ~SettlementRefused(rec)
        /\ \/ AppendChecked(rec, permits) /\ detached' = detached \ {i}
           \/ AppendFails(rec, permits) /\ UNCHANGED detached
        /\ UNCHANGED <<authorityVars, pc, call, worldVars, answers, hostSteps>>

\* reconcile_effect. The operator's evidence comes from the system that
\* received the effect and is final: what has not applied never will.
ReconcileEffect(i) ==
    LET rec == EffectReconciled(i, i \in world)
    IN  /\ pc = "idle" /\ i \notin jobs
        /\ i \in DOMAIN mem.unsettled
        /\ ~SettlementRefused(rec)
        /\ \/ AppendChecked(rec, permits) /\ detached' = detached \ {i}
           \/ AppendFails(rec, permits) /\ UNCHANGED detached
        /\ UNCHANGED <<authorityVars, pc, call, worldVars, answers, hostSteps>>

-----------------------------------------------------------------------------
(* Losing the runtime and rebuilding it *)

LoseRuntime ==
    /\ pc' = "down" /\ call' = Idle
    /\ mem' = Fresh /\ applied' = 0 /\ uncertain' = FALSE /\ detached' = {}
    /\ sessions' = <<>> /\ policy' = [peer \in Peer |-> [policy[peer] EXCEPT !.admitted = FALSE]]
    /\ capable' = {} /\ permits' = StalePermits(permits)
    /\ UNCHANGED <<ledger, worldVars, answers, hostSteps>>

Crash ==
    /\ pc \notin {"down", "refused"}
    /\ failures < MaxFailures /\ failures' = failures + 1
    /\ LoseRuntime

\* The host drops a runtime that does not know its last append's outcome.
DropUncertain ==
    /\ pc = "idle" /\ uncertain
    /\ LoseRuntime
    /\ UNCHANGED failures

\* from_durable_ledger: every record is validated and applied in order.
ReplayRecord ==
    LET i == applied + 1
    IN  /\ pc = "down" /\ applied < Len(ledger)
        /\ IF ValidLifecycleEvent(mem, ledger[i])
           THEN mem' = ApplyCommitted(mem, i, ledger[i]) /\ applied' = i /\ UNCHANGED pc
           ELSE pc' = "refused" /\ UNCHANGED <<mem, applied>>
        /\ UNCHANGED <<ledger, uncertain, detached, authorityVars, permits, call, worldVars,
                       answers, boundVars>>

\* The host grants permissions and installs its policy before it serves.
Serve(new) ==
    /\ pc = "down" /\ applied = Len(ledger)
    /\ pc' = "idle" /\ policy' = new /\ capable' = Action
    /\ UNCHANGED <<ledger, mem, applied, uncertain, detached, sessions, permits, call,
                   worldVars, answers, boundVars>>

-----------------------------------------------------------------------------

Init ==
    /\ ledger = <<>> /\ mem = Fresh /\ applied = 0
    /\ uncertain = FALSE /\ detached = {} /\ sessions = <<>>
    /\ policy \in Policies /\ capable = Action /\ permits = {}
    /\ pc = "idle" /\ call = Idle
    /\ world = {} /\ jobs = {} /\ reports = {} /\ answers = {}
    /\ hostSteps = 0 /\ failures = 0

Lifecycle ==
    \/ CommitSemantic
    \/ \E g \in 1..MaxGeneration : SupersedeCapsule(g) \/ RevokeGeneration(g)

Authority ==
    \/ \E q \in Principal : RegisterExecutionSession(q)
    \/ \E peer \in Peer : AdmitPeer(peer) \/ WithdrawPeer(peer)
    \/ \E new \in Policies : InstallPolicy(new)
    \/ \E id \in 1..MaxSessions : EndSession(id)
    \/ \E set \in SUBSET Action : ChangePermissions(set)
    \/ \E id \in 1..MaxSessions, a \in Action, r \in 0..mem.revision, g \in 1..mem.live,
          k \in Key \cup {NoKey} : Prepare(id, a, r, g, k)

Admit == \E p \in permits : AttemptEffect(p) \/ ReplayOutcome(p) \/ RefusePermit(p)

Dispatch ==
    \E applies, ok \in BOOLEAN : ExecuteSynchronous(applies, ok) \/ StartDetached(applies, ok)

Adapter == \E i \in jobs : JobApplies(i) \/ JobDies(i)

Report == \E i \in reports, retain \in BOOLEAN : SettleDetached(i, retain)

Reconcile == \E i \in DOMAIN mem.unsettled : ReconcileEffect(i)

FinishCall == Dispatch \/ \E retain \in BOOLEAN : SettleSynchronous(retain)

Recover == DropUncertain \/ ReplayRecord \/ \E new \in Policies : Serve(new)

Next ==
    \/ Lifecycle \/ Authority \/ Admit \/ FinishCall \/ Adapter \/ Report \/ Reconcile
    \/ Crash \/ Recover

Spec == Init /\ [][Next]_vars

\* A call runs to its end, a supervised host rebuilds a lost or uncertain
\* runtime, adapters finish or give up, and an operator works through
\* unsettled_effects().
FairSpec ==
    Spec /\ WF_vars(FinishCall) /\ WF_vars(Recover) /\ WF_vars(Adapter) /\ WF_vars(Reconcile)

-----------------------------------------------------------------------------
(* Properties *)

IsAttempt(rec) == rec.kind = "EffectAttempted"
Closes(rec, i) == rec.kind \in {"EffectSettled", "EffectReconciled"} /\ rec.attempt = i

\* The attempts of a log that nothing in it closes, and the last record that
\* closed an attempt under a key (0: none).
OpenAttempts(l) ==
    {i \in DOMAIN l : IsAttempt(l[i]) /\ \A j \in DOMAIN l : ~Closes(l[j], i)}
Closings(l, key) ==
    {j \in DOMAIN l : \E i \in DOMAIN l : IsAttempt(l[i]) /\ l[i].key = key /\ Closes(l[j], i)}
LastClosing(l, key) ==
    IF Closings(l, key) = {} THEN 0
    ELSE CHOOSE j \in Closings(l, key) : \A k \in Closings(l, key) : k <= j

\* Type invariant of the runtime, its callers and the outside world.
TypeOK ==
    /\ ledger \in Seq(Record) /\ Len(ledger) <= MaxRecords /\ applied \in 0..Len(ledger)
    /\ uncertain \in BOOLEAN
    /\ detached \subseteq Indices /\ world \subseteq Indices
    /\ jobs \subseteq Indices /\ reports \subseteq Indices
    /\ DOMAIN mem.unsettled \subseteq Indices /\ DOMAIN mem.settled \subseteq Key
    /\ mem.revision \in Nat /\ mem.live \in Nat /\ mem.revoked \subseteq Nat
    /\ sessions \in Seq(SessionRecord) /\ Len(sessions) <= MaxSessions
    /\ policy \in AdmissionPolicy /\ capable \subseteq Action
    /\ permits \subseteq Permit
    /\ pc \in {"idle", "dispatch", "settle", "down", "refused"}
    /\ hostSteps \in 0..MaxHostSteps /\ failures \in 0..MaxFailures

\* An effect under an at-most-once key is applied at most once, whatever
\* append failed or was lost, however often the caller retried and whenever
\* the adapter acted (prepare_execution_once).
AtMostOnce ==
    \A i, j \in world :
        ledger[i].key # NoKey /\ ledger[i].key = ledger[j].key => i = j

\* No effect is applied, and no work handed out, that the durable log does
\* not hold an attempt for ("Log first", admit_effect).
EffectsAreAudited ==
    \A i \in world \cup jobs : i \in DOMAIN ledger /\ IsAttempt(ledger[i])

\* What the runtime remembers is what the records it has applied say: the
\* fence is the set of open attempts, and a key's outcome is the one its last
\* settlement or reconciliation recorded.
MemoryIsProjection ==
    LET l == SubSeq(ledger, 1, applied)
    IN  /\ DOMAIN mem.unsettled = OpenAttempts(l)
        /\ \A k \in Key :
              LET j == LastClosing(l, k)
              IN  IF j = 0 THEN k \notin DOMAIN mem.settled
                  ELSE /\ k \in DOMAIN mem.settled
                       /\ mem.settled[k].attempt = l[j].attempt
                       /\ mem.settled[k].identity = l[l[j].attempt].identity
                       /\ mem.settled[k].outcome =
                            IF l[j].kind = "EffectReconciled"
                            THEN IF l[j].applied THEN "AppliedWithoutResponse" ELSE "NotApplied"
                            ELSE IF l[j].response = 0 THEN "AppliedWithoutResponse" ELSE "Applied"

\* What the runtime holds for a compacted snapshot fits its execution section: every
\* attempt it admitted can be settled without outgrowing it ("A runtime that committed
\* every record itself never gets here", execution_section_overflow).
SectionFits ==
    /\ Cardinality(DOMAIN mem.unsettled) <= SectionItems
    /\ Cardinality(DOMAIN mem.settled) <= SectionItems

\* A log this runtime wrote is never refused when it is opened again.
RestartIsAccepted == pc # "refused"

\* While an attempt is open in the durable log nothing is appended but the
\* record that closes it, in this runtime or in one rebuilt after a crash.
FenceHolds ==
    [][ledger' # ledger =>
          \A i \in OpenAttempts(ledger) : Closes(ledger'[Len(ledger')], i)]_vars

\* A caller is given a response only for the action it asked for, under its
\* own principal and key, and only of an effect that was applied
\* (KeyBoundToAnotherAction otherwise).
AnswersAreOwn ==
    \A a \in answers :
        /\ a.response \in world
        /\ LET attempt == ledger[a.response]
           IN  /\ attempt.key = a.key
               /\ attempt.identity.principal = a.principal
               /\ attempt.identity.digest[1] = a.action

\* The revision and generation of the attempt at i are those the records before it
\* establish, and none of them revokes the generation.
CurrentAt(l, i) ==
    LET before == 1..(i - 1)
        id == l[i].identity
        moves == {j \in before : l[j].kind = "CapsuleSuperseded"}
    IN  /\ id.revision = Cardinality({j \in before : l[j].kind = "SemanticDeltaCommitted"})
        /\ \A j \in before : l[j].kind = "Revoked" => l[j].generation # id.generation
        /\ \A j \in moves : l[j].new <= id.generation
        /\ id.generation = 1 \/ \E j \in moves : l[j].new = id.generation

\* Every attempt in the log was current where it stands
\* (check_execution_action).
AttemptsAreCurrent ==
    \A i \in DOMAIN ledger : IsAttempt(ledger[i]) => CurrentAt(ledger, i)

\* What is dispatched for a peer is what the policy in force admits: neither
\* a withdrawal nor a narrower table leaves a session or a permit behind that
\* still works (install_admission_policy, withdraw_peer).
DispatchIsWithinPolicy ==
    pc = "dispatch" /\ call.peer # NoPeer =>
        /\ policy[call.peer].admitted
        /\ policy[call.peer].principal = call.principal
        /\ call.action \in policy[call.peer].grants

\* The audit as EffectOnce sees it: the attempts, open attempts and outcomes of
\* the durable log, and the effects of the world.
Attempts == {i \in DOMAIN ledger : IsAttempt(ledger[i])}
RecordedOutcome(k) ==
    LET j == LastClosing(ledger, k)
    IN  CASE j = 0 -> "none"
          [] j # 0 /\ ledger[j].kind = "EffectReconciled" /\ ~ledger[j].applied -> "not_applied"
          [] OTHER -> "applied"

Once == INSTANCE EffectOnce WITH
    Attempt <- Indices,
    tried <- [i \in Attempts |-> ledger[i].key],
    open <- OpenAttempts(ledger),
    effects <- world,
    outcome <- [k \in Key |-> RecordedOutcome(k)]

\* The log and the world together implement the abstract at-most-once contract:
\* whatever is lost, retried or late, every step is an attempt, an effect, a
\* truthful closing, or invisible.
AuditImplementsOnce == Once!OnceSpec

\* A fence is lifted in the end: settling is never blocked by the fence it
\* ends, and a crash or a failed settlement leaves reconciliation possible.
FenceIsLifted == (DOMAIN mem.unsettled # {}) ~> (pc = "idle" /\ ~IsFenced)

=============================================================================
