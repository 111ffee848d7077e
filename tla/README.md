# PTR: a TLA+ verification project

PTR is a Rust monorepo for a typed cognitive runtime. Its reasoning may be
uncertain, but what it commits and what effects it causes may not: every
authoritative fact goes through a durable ledger, every external effect through
an audited execution boundary, and what the system remembers and announces
through journals and logs of their own. This project models those parts, checks
them with TLC and proves the central results with TLAPS.

## 1. Inventory

### The parts that carry authority

| Part | State | Operations | Hard behaviour | Correct when |
|---|---|---|---|---|
| Log file (`ptr-ledger` `file.rs`, `integrity.rs`) | frames chained by digest, writer lock, in-memory events, `poisoned` | `create_new`, `lock_for_recovery`, `classify`, `repair`, `append_durable`, `create_from_log_above` | torn or unsynchronized frames; failed writes; another process | recovery finds exactly what was synchronized; one writer |
| Anchor (`anchor.rs`) | one authenticated record: epoch, covered history, origin, floor | `initialize`, `open_expecting`, `acknowledge`, `advance_compacted` | crash around the rename; undone rename; failed directory sync | only moves forward; never covers what the log lacks |
| Acknowledged log set (`acknowledged.rs`, `compaction.rs`) | the two above, `fenced`, a path per floor | `create`, `open` with a tail policy, `append_acknowledged`, `plan_compaction`, `compact`, `reclaim_orphans` | every crash point; stale plans; two hosts; orphan deletion | the set on disk always opens; what a call promised stays |
| Effect execution (`ptr-runtime` `execution.rs`) | sessions, policy, permits' epoch, `uncertain`, unsettled attempts, settled keys, detached attempts | register / admit / install / withdraw / revoke, prepare, execute, dispatch, settle, reconcile | the world acts between two records; answers late or repeated; retries; authority moving under a permit | keyed effects apply at most once; every effect is in the log; nothing stale is dispatched |
| Commit path (`ptr-runtime` `lib.rs`) | ledger, materialised view | `commit`, `commit_settlement`, `append_checked`, `apply_committed`, replay on open | an append that fails and is durable; replay refusing its own history | memory is a projection of the log; the fence survives restarts |
| Execution wire (`ptr-execwire`) | connections, replay window, the runtime behind one lock | request, decide, execute, settle, reply | lost answers, resends, retries, lost hosts, a window that forgets | an intent applies at most once; a receipt is true; every request is answered |
| Semantic store (`ptr-semdb`) | typed values, dependency graph, revision | `prepare_delta`, `apply_prepared` | eviction through chains of derived keys | a derived value matches its inputs |
| Branches and merges (`ptr-branch`, `ptr-runtime` `merge.rs`, `semantic.rs`) | snapshots, staged operations, reads, digests, merged ids | open, read / scan / rely, put / remove / add / insert / withdraw, seal, certify, preview, merge | the published state moves after the seal; a merge is retried after an unknown append; an approval goes stale | a merge publishes the branch's change and nothing else, once; a reviewer gets what was shown |
| In-memory bus (`ptr-events` `bus.rs`, `policy.rs`) | records, per-consumer offsets, drop counters, low-water mark | register, publish, commit, tick | full bus, eviction of telemetry, retention | only telemetry is missed, and every miss is counted |
| File event log (`ptr-events` `file_log.rs`) | segments, `offsets.bin`, active handle | open, publish, roll, sync, register, commit, compact | crash or failure between any two file operations | what was acknowledged is readable and numbered once; what was refused stays out; it reopens |
| Mailbox (`ptr-exec` `mailbox.rs`) | queue under a mutex, three atomics | send, receive, close, drop, unlocked reads | readers between two stores; a sender outliving the mailbox | conservation, order, release on drop |
| Memory journal (`ptr-memory` `journal.rs`, `durable_knowledge.rs`) | framed file, poison flags, the store above | open, append, roll back, compact | failing writes, syncs, rollbacks, renames; two commit disciplines | acknowledged is recovered, rolled back never returns |
| Memory records (`memory_store.rs`, `record.rs`, `consolidation.rs`) | records, derivations, revocation markers, horizon | insert, support, derive, revoke, transition, promote, retain | any order of derivation and revocation, cycles | revocations reach the live; authority is earned |
| Knowledge (`knowledge.rs`) | generations, current ones, lifecycle | register, admit, activate, transition, invalidate | cascades that reach the generation taking over | nothing valid rests on the invalid |
| Raft storage and node (`raft_*.rs`, `retention.rs`) | log, hard state, snapshot, retention floor | append, truncate, install snapshot, compact | crashes between files; a follower behind the floor | storage contract of the raft library |
| Compacted snapshots (`compacted.rs`) | fence and key memory beside the view | export, import, budgets | an obligation dropped by a snapshot | same as replaying the log |
| Scopes, quotas, tiers (`scopes.rs`, `host_quota.rs`, `tier*.rs`) | scope registry, reservations, tier journal | open / close / recover, reserve / release, move | restart with scopes open; double release | nothing leaks, nothing is granted twice |
| Fabric (`ptr-fabric`) | staging pool, worker supervisor | lease / return, spawn / retire | dead workers, exhausted pools | leases return, bounds hold |

The last four rows are not modelled yet (section 5).

The remaining crates (models, routing, statistics, parsing, observability,
transports, server, bindings, training) are numeric, pure, or I/O. Each is
listed in `PROJECT.json` with the reason it is not modelled.

### How the parts interact

The runtime owns its ledger and calls it synchronously under `&mut self`, so
runtime calls never interleave with each other. Concurrency comes from outside:
executors and detached adapters that act between two records; several host
processes on one directory, kept apart by an advisory file lock; crashes; and
callers that hold permits, plans and witnesses while the state they were made
from moves on.

The runtime opens a bare `FileLedger` today; the acknowledged log set is the
protected form of the same log a host can use. The two models therefore meet
only in one assumption of `ExecutionAudit`: a failed append leaves the record in
the log or not (`AppendFails`), which is what `AckLedger` shows of the log.

The execution wire holds the runtime's lock for one request at a time and relies
on the runtime's at-most-once contract, stated once in `EffectOnce`:
`ExecutionAudit` implements it and `ExecWire` extends it. Branches write through
the same commit path as effects, so a merge meets failed appends and reopened
runtimes too. The two memory stores share one journal and differ in when they
apply a mutation, before or after the append. The buses and the mailbox stand
alone.

The hazards list of `PROJECT.json` names, line by line, what a test would hardly
reach, and the properties that would notice.

## 2. Modules

| Module | Models |
|---|---|
| `AckLedger` | the acknowledged log set, run by one host, with the file system's failures |
| `TwoHosts` | two instances of `AckLedger` on one directory |
| `ExecutionAudit` | sessions, permits, attempts, settlements, the fence, and the rebuild from the log |
| `EffectOnce` | the abstract contract of at-most-once effects |
| `ExecWire` | the network host and its requesters, on `EffectOnce` |
| `SemanticStore` | deltas, dependencies and eviction, as operators |
| `Branches` | branches over the store and their merge by the runtime |
| `EventBus`, `FileEventLog`, `EventPolicy` | the two buses of `ptr-events`, and the limits they share |
| `Mailbox` | the bounded mailbox with its atomics |
| `MemoryJournal` | the journal and the two ways stores commit through it |
| `MemoryRecords`, `Knowledge` | the two stores above it |
| `MCAckLedger`, `MCExecutionAudit`, `MCExecWire`, `MCBranches`, `MCEvents`, `MCMemory` | instances for TLC |
| `AckLedgerProofs`, `TwoHostsProofs`, `ExecutionAuditProofs`, `ExecWireProofs`, `BranchesProofs`, `EventProofs`, `MailboxProofs`, `MemoryProofs` | inductive invariants and theorems |

### AckLedger

A digest identifies the history under it, so a `LogAnchor` is the sequence of
events it commits to, and the file of floor *n* is the history its frames chain
to. The MAC and the framing are left out: both only detect tampering, which is
not a behaviour of this system. A partial frame and an all-zero tail are both
`torn`, because the scanner and the repair treat them alike.

The variables `files`, `anchor` are the directory as processes see it; `shadow`
and `synced` say what a power loss may take back; `current`, `log`, `poisoned`,
`fenced`, `next`, `plan` are the handle; `witness` and `snapshot` belong to the
host. `promised` is a history variable: the longest history some call returned
`Ok` for. The locals of a call in progress are `pc`, `op` and `next`.

Calls are cut where a crash or another host can come between:

* `create`: `CreateLog`, then a publication.
* `open`: `ReadAnchor` (no lock held yet), then `RefuseOpen` or `RepairTail`
  (lock, classify, repair), then a publication if the tail was not covered;
  `RepairFails` ends it when the cut fails before or after it reached the file.
* `append_acknowledged`: `WriteHeader`, `WritePayload`, `SyncRecord`, then a
  publication; `HeaderFails` and `AppendFails` may end it before or in between.
* a publication: `RenameAnchor`, then `FinishCreateOrOpen`, `FinishAppend` or
  `FinishCompact`; the `Abort...` actions are its failures, before the rename
  (`anchor_io`) and after it (`dir_sync`).
* `compact`: `CreateCompacted`, `SyncCompacted` or `BuildFails`, a publication.
* `plan_compaction`, `reclaim_orphans`, drop, and the host's `RetainWitness` and
  `RetainSnapshot` are one action each.

`Kill` frees the locks and keeps all data written. `PowerLoss` drops a suffix of
the unsynchronized data of each file, and may undo a rename whose directory was
not synchronized. Unlinks are taken as durable, and so is a cut whose
synchronization failed: a power loss that took it back would leave a tail that the
next open cuts again.

### TwoHosts

Both hosts share the directory, and are given one witness and one snapshot
position, so neither is protected from the other by its own bookkeeping.

### ExecutionAudit

The log is a sequence of records; `mem` is what `apply_committed` maintains. An
`Action` is what `action_digest` covers apart from revision and generation, which
the digest of the model keeps explicitly because a retry is compared at the
position its attempt recorded. `world` holds the attempts whose effect happened,
`jobs` the work adapters hold, `reports` the answers they may deliver at any
time and more than once. The verifier's verdict and expiry are free choices:
`RefusePermit` may always consume a permit, `EndSession` may always end one.

A dispatch is cut at the points where the runtime may die: the attempt record
(`AttemptEffect`), the effect (`ExecuteSynchronous`, `StartDetached`), the
settlement (`SettleSynchronous`, `SettleDetached`). Every append has two
outcomes, `AppendChecked` and `AppendFails`; in the second the record is durable
or not and the runtime is uncertain until it is rebuilt. Rebuilding replays one
record at a time (`ReplayRecord`), validating each as the code does, and may
refuse the log, which `RestartIsAccepted` shows never happens.

The execution section of a compacted snapshot holds open attempts and settled keys;
`SectionItems` is its bound, and `SectionAdmits` is `check_execution_section_growth`:
an attempt is admitted with its own item and the one its settlement will take, other
records are not judged. Of the section's bytes only the choice is kept whether a
response is retained. `RoomToClose` is a bound of the model: the last of `MaxRecords`
places is kept for a record that closes an attempt. A retry of a detached
action is told that it was applied and gets no response. One target capsule in one
project stands for all.

`ReconcileEffect` carries an assumption of the code, not a guarantee: the
operator's evidence is final, so an attempt is reconciled only when no adapter
still holds its work.

### EffectOnce and ExecWire

`EffectOnce` keeps only which attempts were begun under which key, which are
open, which effects were applied and what is recorded of each key. Its actions
are `Begin`, `Apply` and `Close`. The refinement `AuditImplementsOnce` maps the
log of `ExecutionAudit` to it: an attempt is begun when its record is durable,
also when the append reported an error, and closed when its settlement is.

In `ExecWire` a connection is one call of `request`. The host decides a request
under the runtime lock (`DecideEarly`: the frame, the address, the policy and the
fence; `DecideUnregistered`: the session's other refusals; `DecideReplayed`,
`DecideFromHistory`, `DecideRefused`, `DecideAttempt`, `DecideAuditFails`), executes
and settles it, and replies. `Crash` loses the host with its replay window; `Restart` brings back
the log's outcomes. Requesters follow the rule of `lib.rs`: a retry has a new id
and the same key, and without a key nothing that may have applied is asked again.
The receipt checks of the client are about a dishonest host; this one is honest.

### SemanticStore and Branches

A state is the revision, the values and the inputs of derived keys; `Prepared`
is `prepare_delta` with its refusals and evictions. A branch is its snapshot, its
operations in order, the keys it read, scanned and relies on. Digests are the
values they are digests of. `Certifies` is `certify`, `MergeBranch` is
`merge_branch` under triage or a reviewer's approval, `HostWrite` is
`semantic.rs`, `Commit` appends and applies, or fails with the record in the log
or not and fences the runtime until `Reopen`.

Two reductions keep the instance small. Staging touches nothing but the branch,
so while one branch is open nothing else moves; whatever happened meanwhile in
the program happens after the seal in the model, where it looks the same to
`certify`. And an author does a task: it looks first, then stages a subset of the
task's operations, each once, in any order. That an overwritten derived value was
computed from what the branch read is an assumption about authors, as in the code.
So is `NoOwnEviction` (section 4): an author does not put a derived value while
other changes of the same branch evict one of its inputs. In the instance derived
values have plain inputs, which no change evicts.

A counter has both bounds, `MinCount` and `MaxCount`, as `checked_add` fails on either
side. A branch declares a reliance at most once: in the code a second declaration
changes nothing, and is refused (`ConflictingReliance`) if it names another generation.

`disk.basis` is a history variable: the values a published derived value was
computed from. `disk.merges` is the sequence of the log's merges, so that a second
merge of the same branch shows even if it is identical to the first.

### EventBus and FileEventLog

The bus has one owner, so each call is an action. Its queue is the function from
the offsets it holds to their records: offsets only grow, so the order of the queue
is theirs. The directory of the file log and the writer's table of segments are
functions too, on the first offset that names each segment file.

In the file log each file operation is a step: deleting a segment, syncing and closing the old one, creating
and entering the new one (or, after an open, the last one again), writing a frame,
syncing it, discarding it, writing, renaming and syncing `offsets.bin`. Each may fail if the setting says so. `Kill`
may come anywhere; `PowerLoss` keeps at least what was synchronized, may tear the
frame after it, and undoes directory changes since the last directory sync, the
newest unlinks first. A setting (`sync`, `keep`, `faults`) is chosen at the start
of a behaviour, so one run covers several configurations.

### Mailbox

Taking the lock and changing the queue is one step; each store to an atomic is a
step of its own because `depth`, `peak_depth` and `is_closed` read without the
lock.

### MemoryJournal, MemoryRecords, Knowledge

A mutation is a name; a journal is the sequence of the mutations its complete frames
hold, whether it begins with the clock's frame of a rewritten image, how far it is
synchronized, and what its end looks like. The image a compaction writes holds what
memory shows, one frame for each mutation, and one more for the clock of a memory store
or for the restored generations of a knowledge store that is not empty. A mutation in
`Oversized` does not fit a record and is refused before anything is written. The memory
store appends and then applies, the knowledge store applies, appends, and rebuilds
itself from the file when the append fails; `Rebuild`, `RollBack`, `Compact`,
`Rename`, `Reopen` and their failures are steps. `MemoryRecords` and `Knowledge`
take each mutation as one atomic step, which is what the journal gives them. The
transitive closures of `dependents_closure` and `invalidate` are defined as least
sets closed under the relation, the traversal's depth and size limits separately. The
objects a caller hands to the knowledge store (`Buildable`) may be invalidated already,
name a wrong predecessor, or be registered a second time.

### Sums of independent parts

`MCEvents` and `MCMemory` check several modules in one run. The parts share no
variable, and no property relates two of them, so a behaviour picks one part and
leaves the others as they were initially: every behaviour of each part is
explored, and no product of them.

## 3. Runs

All runs set `CHECK_DEADLOCK FALSE`: hosts may stop for good, mailboxes are
dropped, and the bounds on records, calls and faults end behaviours.

| Run | Bounds | Checks |
|---|---|---|
| `ack_process` | 2 payloads, 3 records, 2 faults of kill / log_io / anchor_io, all policies | `AlwaysRecoverable`, `PromisedStaysAcknowledged`, `OriginIsBound`, `AnchorMovesForward` |
| `ack_power` | the same with 2 power losses, policy Acknowledge, fair | `PromisedStaysAcknowledged`, `ReopenSucceeds` |
| `two_hosts` | 2 records, 1 fault of any process kind, no compaction, no Discard | `WriterIsExclusive`, `NothingPromisedIsLost` |
| `exec_once` | 5 records, 2 principals, 2 sessions, 1 permit, 1 key, 2 failures | `AtMostOnce`, `EffectsAreAudited`, `MemoryIsProjection`, `RestartIsAccepted`, `AnswersAreOwn`, `FenceHolds` |
| `exec_authority` | 4 records, 1 peer with 3 policies, 2 generations, 2 host steps, 1 failure | `AttemptsAreCurrent`, `DispatchIsWithinPolicy` |
| `exec_fence` | 4 records, 2 keys, a section of 1 item, 2 failures, fair | `SectionFits`, `FenceIsLifted`, `AuditImplementsOnce` |
| `wire` | 5 intents of 2 peers, one misaddressed and one that cannot be decoded, 1 shared key, 3 connections, a window of 1, 1 failure, fair | `IntentAppliesOnce`, `ReceiptsAreTrue`, `EveryRequestIsAnswered` |
| `branches` | 2 branches, 4 keys, 4 tasks, 3 host deltas, 1 of them written, counters from -1 to 2, 1 approval, 1 generation move, 1 failure | `DerivedIsFresh`, `MergedCountsOnce`, `MergeKeepsIntent`, `ApprovedIsPublished` |
| `mailbox` | capacity 2, an owner and 2 senders of 2 values, fair | `ReadersNeverInvert`, `AcceptedAreConserved`, `DropReleases` |
| `events` | file log: 4 publishes, 2 consumers, segments of 2 frames, 2 faults, 3 settings; bus: 4 records, 2 consumers, all limits set | `AckedIsReadable`, `ReopenSucceeds`, `RefusedIsNotResurrected`, `BusReplayIsComplete`, `BusGapsAreCounted` |
| `memory` | journal: 4 mutations, 1 of them too large, 3 faults, 5 settings; records: 3 with up to 2 parents; knowledge: 2 objects of 2 generations, built valid or invalidated, from one source | `JournalKeepsAcked`, `RolledBackNeverReturns`, `MarkersFlow`, `AuthorityIsEarned`, `ValidRestsOnValid`, `TakeoverIsClean` |
| `ack_cutover_dirsync` | 1 payload, 2 records, 1 failed directory sync | violates `AlwaysRecoverable` |

Why the bounds are enough: three records are the least with which a floor can
rise twice, with a tail left above it; two payloads tell a diverged history from
an equal one; two faults put a second crash into the recovery from the first.
Five log records hold an attempt, its settlement, a move of the revision, and a
retry with its own attempt; four hold two attempts with their closings, the second
under a key for which a section of one item has no room; two failures lose an append and the runtime that
should repair it. One permit suffices because every append makes all others
stale. Three connections hold a request, its resend, and a retry or another
peer's use of the key; a window of one forgets as soon as a second id comes.
Four keys give a branch a text, a counter derived from it, a plain counter and a
set; two branches give each merge a concurrent one, and the host's write a third
party. Four publishes fill two segments and begin a third; the journal's cap of
three frames is reached before compaction can help. Three records form every
cycle, chain and diamond edge the marker rules distinguish; the theorem covers
the rest. The sets of payloads, principals (where no peer is admitted as one of
them), branches, consumers and memory records are symmetric; the fair runs use no
symmetry.

Fairness. `AckLedger!FairSpec` is weak fairness of `Open` and of publications: a
call waits for nothing once it started, and a supervised host opens its set
again. Nothing is assumed of appends. `ExecutionAudit!FairSpec` says that a call
finishes, a lost or uncertain runtime is rebuilt, adapters finish or give up, and
an operator works through `unsettled_effects()`; the last is the documented way
out of a fence, and the code offers no other. `ExecWire!FairSpec` says that the
serving loop goes on and that a lost or uncertain host is started again; nothing
is assumed of requesters. `Mailbox!FairSpec` says that a thread inside a call
leaves it; no thread has to start one.

### What the runs found

`ack_cutover_dirsync`, listed under "findings": a cutover whose directory sync
fails leaves the handle usable on the old file; `reclaim_orphans` then deletes the
live one.

### Known divergences

The code also differs from what is written about it in the places below. The
passing runs leave the case out, as said there; the change named reproduces it.

| Code | Says | Does | To reproduce |
|---|---|---|---|
| `acknowledged.rs:260` | `:180` "a record is synchronized before the anchor that covers it advances" | `open` acknowledges complete frames that were never synchronized; a kill followed by a power loss then loses acknowledged records | `ack_power` with `Faults = {"kill", "power"}`: `AlwaysRecoverable` fails |
| `acknowledged.rs:242` | `:177` the anchor "says how far it is acknowledged" | an `open` that finds log and anchor aligned does not synchronize the directory, so after a kill between the anchor's rename and its directory sync it hands out records that a power loss takes back | `ack_power` with `Faults = {"kill", "power"}` and `Policies = {"Refuse"}`: `PromisedStaysAcknowledged` fails |
| `acknowledged.rs:417` | `docs/SECURITY_P0_REVIEW_20260919.md:24` "drop/reopen required" | compaction installs a fresh log under a poisoned handle, which is usable again | in `AckLedger`, check that `poisoned` stays set until the handle is dropped |
| `acknowledged.rs:239` | `anchor.rs:277` "Callers serialize through the log's single-writer lock" | `open` uses an anchor it read before it held the lock; after another host's cutover there are two writers | `two_hosts` with `Keep = {0}`: `NothingPromisedIsLost` fails |
| `acknowledged.rs:241` | `file.rs:184` the classification "cannot go stale" | the same with `TailPolicy::Discard` discards a record another host was promised | `two_hosts` with `Policies = {"Discard"}` |
| `bus.rs:495` | `:345` "this consumer never acknowledged because the bus dropped them" | records dropped above the position a consumer registers at are not counted for it | in `EventBus`, compare `busDropped` with all gaps above a registration |
| `bus.rs:494` | `:376` "Bound on unacknowledged records" | registering at an old position makes acknowledged history unacknowledged again, beyond the bound | in `EventBus`, bound the unacknowledged records by `BusCapacity` |
| `file_log.rs:774`, `:737` | `:40` "an acknowledged publish survives a crash" | the segment a reopened log finds is not synchronized when it rolls, so a kill and a later power loss can leave a gap | `LogSettings` with `{"kill", "power"}` and `sync` 1: `ReopenSucceeds` fails |
| `file_log.rs:569` | `:42` "up to N-1 acknowledged records may be lost" | the count of unsynchronized records starts again at an open, so more may be lost | in `FileEventLog`, count the records lost with `sync` 2, kill and power |
| `file_log.rs:997` | `:1006` the commit is not reported failed once durable | a directory sync failing after the rename reports an error and takes the offset back in memory; compaction and a reopen then disagree | drop the `dir_sync` exception of `ReopenSucceeds` |
| `file_log.rs:973` | `:411` records are never deleted while a registered consumer has not acknowledged them | the same in `register`: the consumer is on disk and not in memory | as above |
| `durable_knowledge.rs:170` | `:7` "never exposes a change whose call returned an error" | when the rollback fails too, the rebuild reads the refused frame back | in `MemoryJournal`, check `shut => Range(mem) \subseteq Range(told)` |
| `journal.rs:524` | `:16` an incomplete final frame is truncated away | a zero-filled tail is neither truncated nor accepted: the store does not open | add the fault `zero` to a setting of `Stores`: `pc = "denied"` is reached |
| `journal.rs:478` | `memory_store.rs:6` "replaying the journal reproduces the exact state" | creation does not synchronize the directory, so the file may be gone after a power loss | add the fault `entry` to a synced setting: `JournalKeepsAcked` fails |
| `journal.rs` (rewrite) | the same | a kill between the rename and the directory sync, then appends and a power loss, bring the old file back | a setting with `{"kill", "power"}`: `JournalKeepsAcked` fails |
| `journal.rs:326` | `memory_store.rs:66` "since the last compaction" | the count starts again at an open, so a store that is reopened often is not compacted and meets its cap | compare `since` with the frames after the image in `MemoryJournal` |
| `certify.rs:415` | `:292` a concurrent rewiring "would otherwise leave the branch's value standing under inputs it was never computed from" | only keys the branch touches have their input sets compared; a branch that puts `y` while its own change evicts `d`, an input of `y`, read `d` as absent, and a host that cuts `d` off from that change lets the merge through with `d` present | a third level of derivation in `MCBranches` (`d` derived from `x`, `y` from `d`), a task that puts `x` and `y`, and a host delta that gives `d` no inputs: `DerivedIsFresh` fails |
| `memory_store.rs:553` | `:15` "flags every transitive dependent" | a retired dependent is not marked, so a record derived from it later becomes authoritative under a revoked ancestor | in `MemoryRecords`, ask for an authoritative record that no transitive ancestor is revoked |

## 4. Proofs

### AckLedgerProofs

For every set of payloads, hosts and policies, every record limit and every number
of faults:

* `TypeCorrect`: `Spec => []TypeOK`, whatever faults happen;
* `RecoverableThroughCrashes`, `PromisesAreKept` and `OriginAlwaysBound`, under
  `Steady`: for process deaths and failed log and anchor writes at every point, and
  for power losses and failed anchor writes at every point, with failed log writes
  too unless the `Acknowledge` policy is in use. `Steady` excludes what makes them
  false: a failed directory sync (`ack_cutover_dirsync`), and two mixtures with a
  power loss, process deaths and failed log writes that `Acknowledge` takes up (the
  rows on `acknowledged.rs:260` and `:242` of the divergences);
* `AnchorOnlyAdvances`, under `Steady` and without power losses, which may undo the
  rename of a publication that has not returned.

None of the invariants is inductive by itself: that the anchor on disk names a
recoverable log depends on what the handle in memory is about to write. The
inductive invariant `IInv` is

* `TypeOK`;
* `AnchorSound`: the anchor on disk has its floor within its history and its
  origin bound, and the file it names is present with a history extending the
  anchor's;
* `PromisedStaysAcknowledged`;
* `HandleInv`, one conjunct per place a call can be in: a host that reads holds a
  copy of the anchor on disk; an open handle holds the anchor on disk and the lock
  of the file it names, and remembers exactly what the anchor covers unless it is
  fenced; during an append, a cutover and a publication `next` is a successor of
  the anchor that the file it names already supports, so that the rename keeps
  `AnchorSound`; after the rename the disk shows `next`;
* `PowerInv`, where power may be lost: what the anchor covers is synchronized, and
  without failing log writes all its file holds is, except while a frame is being
  written; what is about to be published is; and the anchor a power loss would leave
  is the one on disk, except between the rename and the directory sync, where it is
  one that is as sound and covers what was promised.

The reader will find one lemma per action for its preservation, with the facts
about prefixes and about `Acknowledging`, `Classify` and `IsRecoverable` stated
once before. TLC checked `IInv` as an invariant of the `ack_process` and `ack_power`
instances before it was proved, the latter also with failing anchor and log writes.

### TwoHostsProofs

For any events, record limit, and number of kills and failed log and anchor writes
and directory syncs, on a set that is never compacted (`Keep = {}`) and does not
lose power:

* `WritersExcludeEachOther`: `Spec => []WriterIsExclusive`;
* `PromisesSurviveTheOtherHost`: `Spec => []NothingPromisedIsLost`, if besides no
  host opens with the Discard policy.

The assumptions are those of the run, and the rows on `acknowledged.rs:239` and
`:241` above show what happens without them: a host uses an anchor that was current
when it read it, and is not when it has the lock. `AckLedgerProofs` proves of one host that its
steps keep `SharedInv` (a host past `reading` holds the lock of the only file) and
`ContentInv` (what was promised is a prefix of that file, and a handle that is not
poisoned remembers all of it), and that they leave a file alone that
another host has locked (`LeavesOthersAlone`). `TwoHostsProofs` instantiates these
lemmas for each host, and shows that a step of one keeps the other's invariant.

### ExecutionAuditProofs

For any principals, sessions, policies, actions, keys, bounds and number of failed
appends and lost runtimes:

* `AuditTypeCorrect`: `Spec => []TypeOK`;
* `EffectsAreLoggedFirst`: `[]EffectsAreAudited`, no effect without its attempt in
  the log;
* `EffectsApplyOnce`: `[]AtMostOnce`;
* `MemoryProjectsLog`: `[]MemoryIsProjection`, what the runtime remembers is what
  replaying the applied prefix of the log gives;
* `RestartsAreAccepted`: `[]RestartIsAccepted`, a rebuild never refuses its own log;
* `AnswersBelong`, `FenceAlwaysHolds`, `DispatchFollowsPolicy` and
  `AttemptsWereCurrent` for four more of the runs' properties;
* `SectionAlwaysFits`: `[]SectionFits`, for any bound. The bound on settled keys is not
  inductive, as a settlement adds one without being judged: what is kept is that all
  keys ever tried in the log fit (`SectionInv`), which an attempt's reservation gives,
  also when its append failed and was durable;
* `AuditRefinesOnce`: `Spec => AuditImplementsOnce`, the refinement of `EffectOnce`,
  step by step: an attempt record reaching the log is a `Begin`, also when the append
  reported an error; the adapter's action is an `Apply`; a settlement or
  reconciliation reaching the log is a `Close`; everything else stutters.

`AuditInvariant` is the inductive invariant. At-most-once is a statement about the
world, and what protects it is spread over the log, the runtime's memory, the
adapters and the reports under way. The invariant says that in the log every
attempt is followed directly by the record that closes it, unless it is the last
record, and that an attempt under a key follows only attempts of that key that were
reconciled as not applied (`LogOK`); that memory is what the first `applied` records
say (`Projects`), and lags behind the log only during a replay or after a failed
append (`Synced`); that the dispatch in progress is the last record's (`InCall`);
that effects, reports and work in adapters belong to attempts of the log
(`Outside`); and that closing records are truthful (`Truthful`), where
`ReconcileEffect`'s assumption about the operator enters. Authority and types have
parts of their own.

### ExecWireProofs

The contract first. `OnceInvariant` proves `OnceSpec => []OnceInv` and `KeysApplyOnce` that a
key's effect is applied at most once, for any keys and attempts. At-most-once is
not inductive: it needs that at most one attempt is open, that an open attempt's
key is not recorded as applied, and that the key of every closed attempt that was
applied is. `AuditRefinesOnce` above carries the contract to `ExecutionAudit`, and
`ExecWire` takes its steps from the same actions.

Of the wire, for any requesters, intents, keys, connections, window size and number of failures:

* `IntentsApplyOnce`: `[]IntentAppliesOnce`, however often an intent is resent or
  retried, whatever answers are lost and hosts restarted;
* `ReceiptsAlwaysTrue`: `[]ReceiptsAreTrue`.

The inductive invariant (`WireInvariant`) adds to `OnceInv` what a key cannot give:
an attempt belongs to one connection, and a connection makes at most one (`Booked`);
a connection has no receipt before it is served (`Unanswered`); the dispatch in
progress is an open attempt of the connection that waits (`InCall`); of the requests
for an intent without a key at most one is not refused, because its requester does
not ask again for what may have applied (`KeylessOnce`); and each receipt is true
(`TrueReceipt`).

### BranchesProofs

For any keys, dependency graph, branches, tasks, host deltas and number of failed
appends:

* `BranchesMergeOnce`: `Spec => []MergedOnce(disk)`, no two places of the log's sequence
  of merges have one branch id, not even for an identical merge that is retried after an
  append that failed and was durable;
* `ReviewersGetWhatTheySaw`: `Spec => ApprovedIsPublished`;
* `DerivedStaysFresh`: `Spec /\ []NoOwnEviction => []DerivedIsFresh`.

The first two need the lineage: memory is behind the log by at most the append the
runtime is fenced for, revisions only grow, and an approval of a plan for the present
revision was shown what that plan publishes now. Freshness needs that the graph of
dependencies is acyclic (`Graph`) and the same statement of memory. Eviction is
defined as the least set closed under dependence, from which the lemmas about what
a delta reaches follow without induction.

The hypothesis of `DerivedStaysFresh` was found by the proof: without it the case of
the last-but-one row above breaks the property. It constrains the author of one
branch, not the runtime; in the `branches` instance it holds by the graph's shape.

### EventProofs

The bus, for any consumers, record sizes, capacities, retention limits and either
telemetry policy: `BusTypeCorrect` (`[]BusTypeOK`: the byte counter is the sum of what
is held, nothing at or below the low-water mark is held), `BusReplaysComplete`
(`[]BusReplayIsComplete`) and `BusCountsGaps` (`BusGapsAreCounted`, an action
property). The two invariants together are inductive. What the proof needs of
compaction and eviction is that compaction removes a lower part of the queue that
every consumer has acknowledged (`CompactionIsSafe`) and that what else a publish
removes is unacknowledged telemetry (`LeftIsSafe`); how the minima and sums in them
come out does not matter. A gap above a consumer's position is then made by an
eviction only, which counts it in the same step.

The file log, for any segment size, capacity, retention, `FsyncPolicy`, consumers and
number of faults, under `FaultsApart`:

* `LogKeepsAcked`: `Spec => []AckedIsReadable`;
* `LogReopens`: `Spec => []ReopenSucceeds`;
* `LogForgetsRefused`: `Spec => []RefusedIsNotResurrected`.

`FaultsApart` says of each setting that where power may be lost, the process is not
also killed and neither a rollback nor a directory sync fails. Each of these leaves a
frame or a directory entry that is not durable and that `open` takes for granted: it
synchronizes only a tail it repairs. A consumer may then commit a position in frames
that the next power loss takes, and the log does not open again (the row on
`file_log.rs:774` above). All other mixtures are covered: any kills with failing
opens, writes, syncs, rollbacks, unlinks, offset files and directory syncs, and power losses
with failing opens, writes, syncs, unlinks and offset files. The settings of the run satisfy
it.

A log that is readable now need not be so after the next crash, so the invariant
(`LogInv`) is about more than the directory. `Whole` is the directory with the
unlinked files a power loss may bring back. The invariant says

* `DirInv`: `Whole` is a log: every file but the newest is complete, holds a frame
  and is followed by the one that starts where it ends; what is unlinked is older than
  what is left;
* `IdInv`: no frame is of a refused publish, and none but the pending one of the
  publish under way;
* `AckInv`: what was acknowledged is in `Whole` or below it, and below `next`;
* `TableInv`, `StepInv`: the writer's table describes the files, but for the tail of
  the last segment during a publish or once the writer is poisoned, and for an empty
  file that could be neither entered nor removed; and each step of a publish finds
  what the step before it left;
* `PowerInv`: where power may be lost, all the table counts is synchronized, and the
  only entry that is not durable is that of the segment being created;
* `OffsetInv`: where directory syncs do not fail, both versions of `offsets.bin` and
  the offsets in memory lie within the log, and differ only while a call replaces
  them;
* `CallInv`: the call under way fits where the writer is.

Offsets survive compaction because only whole segments below every consumer go, and
`offsets.bin` is replaced before they do. There is a lemma per action, above lemmas
about directories in which only the newest file changes, appears or disappears
(`NewestChanges`, `NewFile`, `NewestGoes`, `UpperPart`). TLC checked `LogInv` on
settings with every admitted pair of faults before it was proved.

### MailboxProofs

For any capacity, threads and values: `MailboxTypeCorrect`; `ReadersAreSafe`
(`[]ReadersNeverInvert`: a thread that loads the depth and then the peak never sees
the depth above the peak); `NothingAcceptedIsLost` (`[]AcceptedAreConserved`: accepted
values are delivered in order, queued, or released by the drop). Neither is inductive.
A reader is safe because a thread between two stores holds the lock (`LockDiscipline`)
and the peak covers the queue before the depth is stored (`PeakCovers`); conservation
needs that nothing is released before the drop takes the queue (`ReleasedLast`) and
that an owner told the end was told it by a closed mailbox (`FinalIsClosed`).

### MemoryProofs

Memory records, for any set of records, classes, supports and limits, and for derivation graphs
with cycles:

* `RecordsTypeCorrect`: `Spec => []TypeOK`;
* `RevocationsFlow`: `Spec => []MarkersFlow`;
* `AuthorityAlwaysEarned`: `Spec => []AuthorityIsEarned`;
* `RevocationIsForEver`: `Spec => TerminalStays`, an action property.

`MarkersFlow` is not inductive: making a record authoritative clears its markers.
That is sound because a marker always names a revoked record
(`MarkersAreRevoked`), so the authority gate lets no marked record through; and a
new record can be inserted because nothing is derived from an id that is not held
(`ParentsAreHeld`). `RecordsInv` is the conjunction of these with the two
invariants and `TypeOK`. The proof has one lemma per kind of step. The one about
`Revoke` rests on `DependentsClosed`: the dependents of a record, with the record,
are closed under derivation, which follows from their definition as a least
closed set, without induction. TLC checked `RecordsInv` and `TerminalStays` on
three records before they were proved.

The knowledge store, for any objects, generations, dependencies and trusted registrations, cycles
included: `KnowledgeTypeCorrect`; `ValidityIsGrounded` (`[]ValidRestsOnValid`);
`TakeoversAreClean` (`TakeoverIsClean`, an action property). With the type invariant
`ValidRestsOnValid` is inductive: what an invalidation reaches is closed under
dependence (`ClosureClosed`), so it leaves no valid dependent behind, and every other
operation leaves each held generation as valid as it was.

The journal, for any mutations, file cap, compaction threshold and number of faults,
under either store and with or without a sync per append:

* `JournalTypeCorrect`: `JournalSpec => []JournalTypeOK`, in which a file never
  outgrows the cap that a later open would refuse it for;
* `JournalRecoversAcked`: `JournalSpec => []JournalKeepsAcked`;
* `RolledBackStaysAway`: `JournalSpec => []RolledBackNeverReturns`.

All three assume `DirectoryIsDurable`: where every append is synchronized and power
may be lost, no kill comes between the rename and the directory sync, that sync does
not fail and the creation is durable. Without it they fail, as the rows on
`journal.rs` above say; a store that does not synchronize its appends needs none of
it, because it promises less.

A file is `Sound` if everything told is recovered from it, in order, nothing undone
is, and the same holds of what a power loss leaves of it; in particular a frame that a
truncation cut off and nobody synchronized (`lurking`) is neither told nor undone.
`JournalInv` adds to soundness and types where the call under way stands (`CallInv`),
how memory differs from the file in the middle of it, which depends on the store
(`MemInv`), where its frame is and how much of the file is durable (`FrameInv`), and
that the files a power loss may bring back are sound too, or, without a sync per
append, earlier states of the present one (`OlderInv`).

### Only model-checked

* Liveness, which this prover does not reach: `FenceIsLifted`,
  `EveryRequestIsAnswered`, `DropReleases`, and `ReopenSucceeds` of `AckLedger`.
* `MergedCountsOnce` and `MergeKeepsIntent` of `Branches`: they are about what a fold
  over a branch's operations computes, which needs induction over data.
* What the theorems' assumptions exclude, as far as a run's setting reaches it; where a
  property fails there, the table of divergences says so.

## 5. Plan

Done: the acknowledged log set alone and with two hosts; the execution audit, its
abstract contract and the wire above it; branches and merges over the semantic
store; the two buses; the mailbox; the durable memory; theorems about the log set,
alone and with two hosts, the execution audit and its refinement of the contract, the
wire, branches, both buses, the mailbox, memory records, the knowledge store and the
journal. Every safety property the passing runs check is proved, but for
`MergedCountsOnce` and `MergeKeepsIntent`.

Left, the most important first:

1. The compacted snapshot: rebuilding from a snapshot and a suffix against
   replaying the whole log, with the section budget in bytes of a small size.
2. Scopes and host quotas with recovery; the tier journal.
3. Raft storage and the retention floor; the staging pool and the worker
   supervisor of the fabric; the pod protocol's sessions.

## 6. Not modelled

Bytes: framing, size limits other than counts of records and frames, MACs,
digests, encodings. Wall-clock time: expiry and timeouts are free choices.
Read-only calls (inspection, erasure audits). A `FileLedger` used without an
anchor. Lifecycle record kinds other than the capsule's, revocations, semantic
deltas and effects. Export and restore of the semantic store, slot vectors and
taint. The mirror, the context compiler and the semantic index of `ptr-memory`.
The wire's recovery bridge. Everything listed as `not_modelled` in
`PROJECT.json`: most of the remaining code is numeric (models, routing,
statistics, tensors), pure (parsing, configuration, rendering) or I/O (server,
transports, bindings), where a state machine has nothing to say.
