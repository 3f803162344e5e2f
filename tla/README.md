# A verification project for alred

alred is a Python command line tool for operating Cisco NX-OS fabrics: it collects and
judges the health of devices, plans configuration changes, has them approved, applies,
verifies, saves or rolls them back, keeps every piece of evidence on disk, and rebuilds
networks in containerlab. This directory holds TLA+ models of the parts of alred in which
order, interruption, partial failure or aggregation matter, the TLC instances that check them,
and theorems proved with TLAPS. Sources are cited relative to the repository root.

## 1. Inventory

| Component | State it keeps | Operations | Interacts with |
|---|---|---|---|
| **Operation workspace** `alred/operation.py` | per change id: `.operation.lock`, `metadata.yaml` (lifecycle, phases, workflow state), `execution.json` (history, errors); the location index; the active change | create, open, lock, three kinds of transition, record error, interrupt guard, close, archive, restore, retention, delete | every command of the tool; the operator removes stale locks |
| **Managed Overlay change** `alred/managed_operation.py`, `managed_config.py`, `approval.py`, `rollback_verification.py` | `plan/`, `approval/`, `apply/`, `rollback/`, and the devices' running- and startup-config | plan, approve, apply, save, rollback, verify, accept WARN, save-rollback | devices over SSH; Operation workspace; Snapshots and HealthResults |
| **Collection and Snapshots** `cli.py`, `collect.py`, `health/manifest.py`, `health/snapshot.py` | the output directory: per host mirrors of LLDP and running-config, artifacts of single commands, logs | collect, collect-clab, collect-list, collect-run-config, collect-run-diff, collect-all, manifest, snapshot | devices, by a pool of threads; read by health evaluation |
| **Health attempts** the `health-check` commands of `cli.py` | `health/before`, `after`, `rollback` with their attempts and current pointers | collect, snapshot, gate, publish, retry, resume | devices; Operation workspace; read by plan |
| **Health evaluation** `health/evaluator.py`, `overlay_evaluator.py`, parsers | none (pure), results under `health/` and `overlay/` | evaluate one Snapshot, compare two, evaluate a change, recheck | moves the workflow of a managed change |
| **Route diff** `route_diff/`, `health/route_diff.py` | none (pure) | parse, compare, apply a policy, report | a check of the health comparison |
| **Planning and rendering** `overlay_render.py`, `overlay_conflict.py`, `device_groups.py`, two templates | none (pure) | ChangeSet and Snapshot to forward and rollback configuration per device | plan |
| **Qualification** `alred/qualification.py`, `capability.py` | `qualification/`, capability registry, lab devices | approve, execute, roll back, verify, save the baseline of a lab | as managed change |
| **Direct push and save** `cli.py` | none but the devices | push-config, push-config-dir, write-memory | devices, by a pool of threads |
| **Containerlab apply** `clab_runtime.py`, `cli.py` | `current.json` and the artifacts of each run, lab nodes | wait, scan risks, reuse, push, verify, save, publish | direct push; docker |
| **Portable evidence** `portable_evidence.py` | package directory, import directory, `latest` link | create, prune, import, prune-imports | workspace, health |
| **Topology, diagrams** `topology.py`, `render.py`, `parsing.py`, ... | none (pure) | links, Mermaid, Markdown, CSV | files |
| **Support bundle, secret scan** | none | pack, scan | reads the workspace |

Commands are separate processes. They share nothing but the file system and the devices, so
all concurrency is between processes, with the lock file as the only synchronisation; within a
process only the signal handler interleaves, and the worker threads of a direct push. Nothing is
transactional: every command is a sequence of file replacements and device commands that may stop
after any of them.

What makes each part correct:

- *Operation workspace*: one process at a time; no lost update; the two documents agree within
  one step after any crash; terminal states stay; an interrupt tells the truth. At every moment a
  complete copy of an Operation exists, and the index leads to it.
- *Managed change*: the recorded workflow state never claims more than what is on the devices;
  a failure stops the series; nothing but a verified and complete change is saved, and nothing that was
  unsaved before it.
- *Health attempts*: what is published belongs together, a plan is made from one attempt, and
  whatever is cut off can be tried again.
- *Collection*: in the Snapshot of a directory no file of an earlier collection stands in for an
  answer of the last, and what failed is there, as failed.
- *Health evaluation, route diff*: what worked before and does not after is not passed over by any
  reading of "not collected", "not applicable" or "out of scope", nor by the aggregation.
- *Planning*: a plan replaces nothing it compares, a rollback takes nothing that was there of what the plan
  owns, and the evaluation looks for what the renderer configures.
- *Qualification*: no candidate stays on a lab device.
- *Push, containerlab*: fail-fast stops; nothing unverified is saved; `current.json` tells the truth.
- *Evidence*: `latest` leads to a complete import; retention leaves a verified package.

`PROJECT.json` lists the hazards at their lines.

## 2. Plan

Done, in this order: `OperationStates`, `OperationStore` and their proofs; `ManagedChange` and its
proofs; `SerialChange`, the abstract specification, with the refinement checked and proved;
`OperationArchive`; `HealthAttempts`; `OverlayRender`; `Qualification`; `FleetPush`, `ClabApply`;
`EvidencePackages`; `HealthComparison`; `RouteComparison`; `Collection`; `Workbench`, which checks the
last eight in one run; proofs about `FleetPush`, `ClabApply`, `RouteComparison`, `OperationArchive`,
`HealthAttempts`, `Qualification`, `EvidencePackages`, `Collection`, `HealthComparison` and
`OverlayRender`. Every safety property of a passing run is a theorem.

Left: the evaluators of a single Snapshot (thresholds over one set of facts), type-5 prefix
propagation, the comparison of several devices with one role table, the choice of retention candidates
of archives and the active change file.

## 3. Modules

`OperationStore` is used by `ManagedChange` through what is proved of it: one job at a time. Each of
`OperationArchive` and `HealthAttempts` models the file operations of its own part in full. `ClabApply`
extends `FleetPush`, whose push it calls. `Workbench` composes the parts that share no state.

### OperationStates

The three transition tables of `operation.py` as sets of pairs, and the sets of states that
`close` and `archive` accept.

### OperationStore

One Operation on disk and the processes working on it. `lockFile` is the lock with its inode and
(as a ghost) its owner; `meta` and `exec` are the current states as `metadata.yaml` and
`execution.json` hold them; the rest is per process.

| Action | Code |
|---|---|
| `OpenLock`, `RecordInode`, `AcquireFails` | `OperationLock.acquire`: exclusive create; write, `fstat`, close; the `except` branch |
| `Release` | `release`, which first asserts that the lock is held |
| `Transition`, `WriteExecution`, `WriteMetadata` | the three `transition_*` functions: check and load, replace the first document, replace the second |
| `MarkStarted` | `mark_device_commands_started` |
| `Signal`, `Settle`, `EndHandler` | `OperationInterruptGuard._handle`, itself interruptible by the next signal |
| `Crash`, `RemoveLock` | the process is killed; the operator removes a lock, and may mistake a live process's for a stale one (`forced` remembers it) |

Timestamps, reasons and history entries are left out, and the many phases of an Operation are one.

### ManagedChange, SerialChange

One approved change and `N` devices with `C` commands each. Here the lock is what the proofs of
`OperationStore` say it is: `job` is the one command that runs, with its `stage`, the position in
its device loop, the results so far, and whether the interrupt guard has been marked. A single
transition of the workflow is one step; between two steps of a command a crash, an exception or a
signal may end it. A configuration is the set of the change's commands in it and a version number
for the rest, so that drift, hand edits and unsaved lines can be told from the change itself.
Snapshots copy configurations; the verdict of health evaluation is a choice, except that
`VERIFIED` needs the commands `Seen` by the Overlay evaluation in the after Snapshot (it reads no
EVPN, BGP or VRF address-family command).

| Actions | Code |
|---|---|
| `Collect`, `Capture`, `PublishBefore`, `PublishAfter`, `Compare` | `health-check before`, `after`, `snapshot`, `compare` |
| `BeginPlan`, `Plan`, `BeginApprove`, `Approve` | `overlay-change plan` and `approve`: input files before the lock, then one transition at a time; the record, then its transition |
| `BeginApply`, `BeginRollback`, `RefuseDevice`, `AcceptDevice`, `BeginCommands`, `MarkStarted`, `SendCommand`, `RecordExecution`, `SessionResult`, `Escalate` | `execute_approved_apply` and `execute_approved_rollback` with `execute_serial_devices` and `execute_config_session`; rollback takes devices and commands in reverse |
| `BeginSave`, `Inspect`, `InspectFails`, `Reinspect`, `CopyConfig`, `PostDiff`, `RecordSave`, `SaveResult`, `CompleteLifecycle` | `execute_approved_save` in both modes |
| `BeginEvaluate`, `Judge`, `JudgeFails`, `EvaluateResult`, `Escalate` | `overlay-check evaluate` and its recheck |
| `VerifyRollback`, `PublishRollback`, `ConcludeRollback`, `AbandonRollback` | `health-check rollback`: verified under the lock, published without it, concluded under it again |
| `BeginAccept`, `Accept` | `overlay-change accept-rollback-state-warn` |
| `CheckClose`, `Close` | `operation close`: checks, then lock and transition |
| `Crash`, `Fail`, `Signal`, `Reconcile`, `Edit`, `Expire` | faults, the operator, people and time |

Left out: hash pinning of plan artifacts (files of a plan do not change in the model), inventory
checks, NO_CHANGE devices (they take part in no step), retries of the before phase, more than one
rollback attempt at a time, and the phases of metadata.yaml.

`SerialChange` is what the operator is promised, without crashes, jobs or evidence: one command at a
time in plan order, back in reverse, saves only of devices that are all alike, and sayings ("applied",
"restored", "done", ...) that are true of all devices when they are said. `ManagedChange` implements it
under the mapping `Serial`: what a device owns is the change's part of its running- and
startup-config, and `Told` is what the workflow state says.

### OperationArchive

Where one Operation is stored: live directory, archive file, checksum file and index, with one action
per file operation. The content of an Operation is its lifecycle, a revision and the files published
in it, so that a stale copy can be told from a current one.

| Actions | Code |
|---|---|
| `CreateDirectory` ... `CreateFails` | `create_operation_workspace` |
| `WorkOpen`, `WorkLock`, `WorkStart`, `WorkEnd`, `WorkPublish` | any command that works on the Operation; publication of an attempt takes no lock |
| `ArchiveCheck`, `ArchiveLock`, `ArchiveList`, `ArchiveWrite`, `ArchiveVerify`, `ArchiveChecksum`, `ArchiveIndex`, `ArchiveRemove`, `ArchiveRmdir`, `ArchiveFails` | `archive_operation_workspace` and its `except` branch |
| `RestoreCheck`, `RestoreExtract`, `RestorePublish`, `RestoreIndex`, `RestoreUnlink`, `RestoreChecksum`, `RestoreFails` | `restore_operation_archive` |
| `DeleteCheck`, `DeleteArchive`, `DeleteChecksum`, `DeleteIndex`, `DeleteFails` | `delete_archived_operation` |
| `MissingRead`, `MissingLook`, `MissingReread`, `MissingUnlink` | `remove_missing_live_operation_index` |
| `Kill`, `Interrupt`, `RemoveStaleLock`, `RemoveDirectory` | faults and the operator |

### HealthAttempts

The attempts of `health-check before` or `rollback` (the initial state picks the phase) and a plan that
reads what is published.

| Actions | Code |
|---|---|
| `Start`, `Collect`, `Collected`, `CollectRefused`, `CollectFails` | `_start_before_attempt`, `_start_rollback_attempt`, `_direct_health_collect` with its reconciliation of what was cut off |
| `Open`, `Build`, `Built`, `BuildRefused`, `BuildFails` | `cmd_health_check_snapshot` |
| `Gate`, `Answer` | the continue/stop question after a FAIL |
| `Verify`, `Publish`, `PublishProfile`, `PublishResult`, `PublishCurrent`, `PublishFails` | `_verify_and_publish_rollback_attempt`, `_publish_before_attempt`, `_publish_rollback_attempt`, file by file |
| `PublishConclusion`, `Conclude` | `verification-current.json` and the transition of the change |
| `AcceptRead`, `AcceptWrite`, `AcceptConclude`, `AcceptCut` | `accept_rollback_state_warn`: summary and phrase, the acceptance, the transition; cut off at either |
| `PlanRead`, `PlanCheck`, `PlanReady` | `_resolve_overlay_plan_before`, `cmd_overlay_change_plan` |
| `Kill`, `Interrupt`, `RemoveStaleLock` | faults and the operator |

### OverlayRender

One device. A running-config is a set of lines. `Plan` is the conflict assessment with the ownership of
each resource and attribute; `Forward` has the sections of the forward template in the order they are
sent, `Removed` what the rollback template takes away, `L2Configured` and `L3Configured` what
`health/overlay_evaluator.py` looks for. The next state sends a section (`SendSection`) or gives up and
sends the rollback configuration (`Rollback`), so that a rollback after every prefix is checked. A line that is
sent replaces the value of its attribute, but route targets add up, as they do on a device (`Configure`).
The configurations before the change hold RDs and route targets of their own, automatic or not, SVIs with a description,
in a VRF or in none, and VNIs used elsewhere. What neither the conflict assessment nor the renderer
compares is `Unowned`, and each property names what it excepts of it. MTU, addresses and gateway of an SVI
are one attribute, as both comparisons take them together; its VRF is another, which they do not
(`VrfDiffers`, `VrfUnstated`). The inventory is abstract, two resources of one change with overlapping prefixes
are not modelled, and the device takes every line: that one VNI cannot be L2 and L3 at once is not refused by the
code and not by the model's device.

### Qualification

The lab workflow of `qualification.py`: `BeginApprove`/`Approve`, apply and rollback sessions (`BeginApply`,
`Precheck`, `Send`, `Record`, `ApplyResult`, ... `RollbackResult`), `Evaluate`, `VerifyRollback`, `AcceptWarn`,
and the baseline save (`BeginSave`, `Preflight`, `Inspect`, `Copy`, `PostDiff`, `FinishSave`). It differs
from the managed change: a record instead of an approval, a rollback only on an after Snapshot newer than
the apply, and a save that must change nothing. People edit and save devices by hand, commands crash and are interrupted.

### FleetPush, ClabApply

`FleetPush` has the connect check, the batches of worker threads (`MayStart`, one action per thread step),
`--fail-fast`, ignored errors and the save phase of `push-config`, `push-config-dir` and `write-memory`.
`ClabApply` adds readiness, the risk scan, the reuse of nodes an earlier success left intact (`Reuse`),
the push by the same actions, `Verify` and `ApplySave` per node, and `Publish` of `current.json`.

### EvidencePackages

`create`, `prune`, `import` and `prune-imports` as processes that share two directories without a lock, any of
which may be killed. `Verified`, `Superseded` and `Outdated` are the selections of the code; a package is a
number in order of its creation, sensitive ones form a group of their own. Two imports at the same time,
and an import of a package that a prune of imports is deleting, are excluded (section 6). Packing, digests
and the validation of contents are abstract.

### Collection

The collect commands and the Snapshot of their output directory. A file is known by the number of the
collection that wrote it. Each host has a thread (`jobs`) and files of its own: the mirrors of LLDP and
running-config in two formats, the artifacts of single commands in two directories, and their logs.

| Actions | Code |
|---|---|
| `Collect`, `CollectAll`, `NextStep`, `ConnectCheck` | `run_collect`, `run_collect_all_flow`, `filter_hosts_by_connect_check` |
| `Start`, `Lldp`, `RunningConfig`, `BeginList`, `ShowCommand`, `EndList`, `Finish`, `ThreadFails` | `collect_from_host`, from one replacement of files to the next |
| `BuildSnapshot`, by `Entry`, `Candidates`, `Sections` | `build_collection_manifest`, `build_health_snapshot` |
| `Kill` | faults |

Answers are chosen: JSON or text over NX-API, text over SSH, or none; `told` remembers them for the property.
Whether a parser accepts an answer is left open.

### HealthComparison

`compare_snapshots` of `health/evaluator.py` for one check on one device: `...Facts` is what the parsers can
find (nothing, "does not apply", or a value), one operator per check is its comparison, `Overall` the
aggregation with the scope of the profile, `collection_complete` and the worst result `other` of everything
else. `Scopes` are the reasons for which the code skips a profile on a device; `BaselineRuns` says in which of them
`collection_complete`, a check of `network-baseline-nxos`, is evaluated, `CheckRuns` in which the check itself is. A check whose comparison adds nothing to the evaluation of a single Snapshot (`AfterOnly`) has a free
result.

### RouteComparison

One device, VRF and prefix. `TakeTables` picks the tables of two Snapshots (missing, incomplete, asserted by
an offline user, verified by the collection), the phase and a policy; `Compare` computes the result of the
check of a health comparison (`RouteCheck`) or of the offline command. Several prefixes aggregate with the same
`representative`. Parsing and validation of route Snapshots are not modelled.

### Workbench

The modules from `OverlayRender` on share no state. `Workbench` picks one of them in the initial state and leaves the
others at theirs, so that one run checks them all, each with its own properties.

## 4. Runs

| Run | Instance | Shows |
|---|---|---|
| `store` | 2 processes, 2 inodes, an Operation that uses retry, workflow and guard, locks removed by hand | `TypeOK`, `LockExclusive`, `NoLostUpdate`, `ExecutionAheadByOneStep`, `InterruptSettled`, `ReplacementDetected`, `TerminalIsFinal` |
| `change_faults` | 2 devices, 1 command, a device that may hold unsaved lines, rechecks, 1 crash, failure or signal | `TypeOK`, `MutationVisible`, `PrefixApplied`, `WorkflowTellsDevices`, `CompletedUniform`, `NoSaveWhileMixed`, `ImplementsSerial` |
| `change_policy` | 1 device, 1 hand edit, both save policies, an approve killed half-way, expiry, close, imported transcripts | `UnsavedKeptOut` |
| `change_live` | 2 devices, fair commands, a second comparison, no fault | `ApplySettles` |
| `archive` | 2 processes, all commands, kills, interrupts and failures, 1 published file | `TypeOK`, `NeverLost`, `IndexLeads`, `ArchivedIsFinal` |
| `attempts` | 3 attempts one after the other, cut off at any step, and a plan or the acceptance of a WARN; 2 profiles | `TypeOK`, `PlanCoherent`, `ConcludedOnEvidence`, `Retriable`, `PointerMovesOn` |
| `tools` | the eight parts of `Workbench` | `TypeOK`; `RollbackScoped`, `ForwardKeepsCompared`, `AppliedIsConfigured`; `CandidateGone`, `SaveKeepsBaseline`; `FailFastStops`, `SavesOnlyAccepted`, `CurrentIsLive`, `SavedIsVerified`; `LatestComplete`, `NewestKept`; `NothingLostPasses`; `RoutesAccounted`; `OwnAnswers` |
| `v_close`, `v_unsaved`, `v_recheck`, `v_plan`, `v_rollback` | one property each | violated: see section 6 |

Bounds.

- `store`: two processes and two inodes suffice for every interleaving of an owner, a process that waits and
  an inode that is used again; the theorems lift the bound. `ForcedBound` follows the two processes that think they have
  the lock only until a phase starts or a change is planned: the check of the lock is the same in each transition. Processes and
  inodes are interchangeable, hence the symmetry, which is sound as nothing here is a liveness property.
  `ReuseInodes = FALSE`: a new lock file gets no inode that a process still remembers. With `TRUE` `ReplacementDetected` is
  violated, which is the known limit of the code's check (section 6).
- `change_*`: two devices give a first, a later and, through the reversed rollback, a later one that comes
  first; one command per device is enough for results between devices, and the theorems lift both bounds. One
  fault per behaviour separates the effects of crash, failure and signal, and each may hit any step of any
  command. `MaxEdits`, `MaxFaults` and the set `Events` are bounds of the instance, not of the code; `change_faults`
  has no hand edits, which its theorems have.
  `PolicyBound` follows of the crashes those of an approve, and after it only what has two records of
  different policies; the theorem is about all of them.
- `archive`: two processes are every pair of commands but those in `Apart`, which the model shows to lose an
  archive (section 6); `MaxClock` bounds the archives and index documents, enough for archive, restore and
  archive again.
- `attempts`: three attempts are one that is cut off, one that retries and one that relies on the second. One
  process runs at a time, and a plan or an acceptance starts when none does; these are assumptions, since starting
  and publishing take no lock (section 6). `Cuts` holds every step.
- `tools`, rendering: 2 VLANs, 2 VRFs, 2 L2VNIs and 2 L3VNIs, of which one number is both, let every key collide with,
  or differ from, one that is there. A change has two L2VNIs, or an L3VNI with or without one; BGP is varied for an L3VNI
  alone, as no L2VNI reads it. Qualification: 2 devices, 2 edits, crashes or signals. Push: 3 nodes and 2 workers leave one node
  waiting; the lab is fresh or holds an input of an earlier success, one edit or reboot. Evidence: 3 packages,
  one of them sensitive, keep 1, 2 processes, 3 imports, 1 kill. Health: 2 names per table, error counts 0 to
  2 with thresholds 1 and 2, route counts 0, 6, 9, 10 with thresholds of 10 and 30 per cent, all scopes. Routes:
  2 next hops, one with a second metric, at most 2 paths, every policy over them. Collection: one host, as threads
  share no file, with NX-API and a collected running-config, and 2 collections one after the other (the first is what
  the directory held), each over any transport and with two lists of commands or none, or the four steps of collect-all up to the bound.

Deadlock is not checked where the system really stops: a change that is over, a bounded number of attempts,
packages or commands used up.

Every property is accompanied in its module by a mutated definition (`MUTANT of ...`), a plausible
slip in the code which violates it: the properties depend on what the code does.

Fairness. `FairSpec` assumes weak fairness of `Step`: a command that runs goes on to its end, as
alred waits for nothing but devices, and all device calls have timeouts. Nothing is assumed of
the operator.

## 5. Proofs

`OperationStoreProofs` proves every property of `store` for all sets of processes and inodes, all purposes, all sets of
requested transitions, and locks of live processes removed or not. But for type correctness and
`ReplacementDetected`, the properties speak of what happens until one is removed (`~forced`). The argument is one
inductive invariant. The lock file exists and is owned by `p` exactly when `p` is past `OpenLock`,
with the inode `p` remembers; hence two active processes are the same. From exclusion follows that
nobody writes between a `Load` and the writes of that transition, so what was loaded is current;
from that follows that `execution.json` is at most the transition in progress (or an abandoned one)
ahead of `metadata.yaml`. For the handler the invariant adds that what is not settled is still
pending. Terminal states and kept errors are action properties that use the loaded copies being
current.

`ReplacementDetected` is about the time after the operator's mistake: whoever lost the lock to another does not begin
a transition or release it. It has an invariant of its own, `OwnerInv`: no two processes remember the same inode, and
the lock file with the inode of a process is that of the process. `ReplacementNoticed` needs
`ReuseInodes = FALSE`, the exact gap of the code, which compares inodes.

`ManagedChangeProofs` proves every safety property of `change_faults` for all
numbers of devices, commands, hand edits and faults, and for all sets of events, from one inductive
invariant `IInv`. None of the properties is inductive as it stands:

- `WorkflowInv` ties the job to the workflow state it set: nothing but the job itself moves the
  workflow while commands are being sent or devices saved. Hence a command is never sent in a state
  that claims something about all devices.
- `PristineInv` says that before the apply nothing of the change is on a device or in a transcript;
  the transition table has no way back to those states. So the apply finds every device without the
  change and leaves the first `i - 1` complete.
- `ApplyInv`, `RollbackInv` and `SaveInv` are the loop invariants of the three device loops: those
  before the current device are done, and a loop that ended either has a failed device or has done
  all of them.
- `EvidenceInv` relates the Snapshots to what was found in them: before has nothing of the change, a
  `VERIFIED` after the commands seen on every device, a verified or accepted rollback Snapshot nothing of
  them. What a save inspects the devices against is therefore the same change state on all of them, which
  is what makes a completed change uniform.

Each lemma on the steps (`StepKeeps`, `RequestKeeps`, `EnvironmentKeeps`) has one case per action and
uses the frame lemmas for the parts that the action does not touch. That the fleet is uniform at a save
and at the end needs that the evaluation sees every command (`Seen = Steps`); `CompletedUniform`,
`NoSaveWhileMixed` and `ImplementsSerial` say so.

`UnsavedKeptOut` (theorem `SaveKeepsUnsavedOut`) relates a save to an apply that may be several commands back. The save takes a missing
`pre_apply_diff` for a clean one, so nothing it looks at keeps it from writing a device with unsaved
configuration. `CleanInv` says why it does not: an apply that goes by the record with the save policy
has found saved every device it has been to (`ApplyClean`), so once it applied all of them, so are all; and the save goes by the same
record, as no command between them writes the record the commands read. The record may differ from what was agreed last, when an
approve was killed between record and transition and repeated; this is why apply and save must read the same one.
The property is about the save of a change; that of a rollback is `v_unsaved` (section 6).

Its last part proves the step simulation with `SerialChange`: the initial states map to `SerialInit`, a sent command
is a `Forward` or a `Back` (by the loop invariants), a copy is a `Save` (by `EvidenceInv`), and every other step
stutters or is a `Tell` the table and the invariant allow.

`ClabApplyProofs` proves `SavesOnlyAccepted`, `SavedIsVerified` and `CurrentIsLive` for any number of nodes,
workers, commands, edits and restarts, without an assumption (type correctness takes the two bounds to be
natural numbers), and `FailFastStops` for natural numbers of both. The invariant `IInv` has one lemma per action. A verdict is true of its node until
somebody touches it (`VerdictInv`); what makes that survive the push is that the push never starts a node with a
verdict, so the nodes taken over are kept apart from those to push up to its end (`ReuseInv`).
`PlacedInv` says that no node gets lost between the lists of the command: each is taken over, still to push, in
work, accepted, ignored, failed or not reached; after a push without failures it therefore has a verdict or is
about to get one, unless it was passed over. A success has no bad verdicts, so the verdicts left are good ones,
and they are true.

`FailFastStops` counts hosts, which no other part of the invariant does. `FailFastInv` says why the count stays
below the pool: a push with `--fail-fast` had no failure before it took its last batch, the hosts that failed are of
that batch, it has at most `Workers` of them, and what was started before it comes before it in the order of the hosts.
So whatever was touched beyond the first failed host is of the same batch.

`QualificationProofs` proves `CandidateGone` and `SaveKeepsBaseline` for any number of devices, hand edits, saves by
hand, crashes and signals. Neither is inductive: a running-config is only known to be rid of the candidate behind the
position of the rollback (`RollbackInv`), which people may edit and save but not add the candidate to, as `BaselineInv`
says the before Snapshot has none of it; and a startup-config only once the save has inspected the device
(`SaveInv`). `SaveInv` also carries what the inspections found up to the copies, but for the devices people use in
between: this is what the baseline save relies on.

`EvidenceProofs` proves `LatestComplete` and `NewestKept` for any number of processes, packages, imports and kills.
Two retentions may interleave, so the archive for whose sake one of them removes another may itself be on the list of
the second. `RetentionInv` therefore says of every package on a list only that some newer one of its group verifies;
when an archive goes, those that relied on it rely on what it relied on. `CreateInv` says that a package being written
is on no list. `ImportInv` says that neither the target of `latest` nor the package of an import is on the list of
a retention of imports; the last import is not chosen by one, and a package that has no directory yet cannot be.
That imports run one at a time, and none repeats a package beside such a retention, is a guard of the model
(section 6).

`OperationArchiveProofs` proves all properties of `archive` for any number of processes, any length of the
history and any mix of the six commands, kills, interrupts and failures, under one hypothesis, `KeptApart`: the
operator does not run those pairs of commands at the same time that the run leaves out too, and which the model
shows to lose an Operation (section 6). `IndexLeads` is the property the others follow from; it is not inductive,
as it says nothing of what a process in the middle of a command is about to do. The invariant has one part per
command that does:

- `ApartInv` carries `KeptApart` from the start of a command to its steps.
- `ArchiveInv`: from the list of its files to the removal of the directory, archive holds the lock of a whole
  directory nobody else changes; the checksum is that of the archive when the index is about to name it, and
  the index names it when the directory is about to go.
- `RestoreInv`: what a restore has published stays whole, and no other restore publishes at the same time.
- `RemoveInv`: delete and the repair of the index remove the index of a discarded Operation only. For the
  repair, which reads the index, looks for the directory and reads again without a lock, this needs
  `IndexInv`: no two index documents that say live are the same, by their stamps.
- `ContentInv`: no archive is written of anything but a whole directory with a final lifecycle.

`HealthAttemptsProofs` proves all properties of `attempts` for any number of attempts, any profiles and any set
of steps at which a process is cut off, under one hypothesis, `OneAtATime`: one health-check at a time, and no plan
while it runs, as in the run (the code takes no lock there; section 6 says what happens without it).
`AttemptInv` is the progress of an attempt: whoever works is on the last attempt, which is not complete before its
pointer is written, and at each step of the publication the files before it are published. `PublishedInv`
then says that once the attempt of the metadata is complete everything published is of it, and `PlannerInv` that
what the planner found there is still so at its next step. For `Retriable` the invariant adds that a phase is in
progress only while a process is at it or after a cut in `Blocking` (`PhaseInv`), and which published files go
without a profile or a pointer (`FilesInv`). `ConcludedOnEvidence` has two ways to `rolled_back_and_verified`, a verdict and
the acceptance of a WARN: an acceptance names the attempt that is current when it is read, it is never overwritten, and while it is
written and acted on no attempt runs.

`WorkbenchProofs` carries the results about pushes, the lab, qualification and evidence to the composition: a step of
`Workbench` is a step of the tool or leaves it alone, so `Workbench` implements each and has its properties. It also
proves `RoutesAccounted` for all sets of next hops, costs, route lengths and policies: the
invariant says that the result is that of the check on these tables and this policy, every such result is the
`representative` of its grounds, and the representative of a set with a ground that is no PASS is no PASS.
The three modules without a proof module of their own have a section each:

- *Collection*: `OwnAnswers` for any number of hosts and collections, any list of commands and any
  transport. The property speaks of the Snapshot, made when all threads have ended; `CollectInv` says for each stage of
  a thread where what the host answered is by then: in this collection's mirror or artifact, remembered to be reported
  when the list ends (`failures`), or remembered to be filed again by the list (`reuse`). Its lists keep the two ways the running
  configuration may be collected apart. A thread touches the files of its host only (`ThreadAlone`); a new
  collection (`BeginKeeps`) starts from whatever the last has left, killed or not, since nothing was told yet.
- *HealthComparison*: `NothingLostPasses` for all sets of names, counters, route counts and thresholds.
  The invariant says that the result was computed from facts a parser can find (`FactsOf`); the argument is by the checks: for each, a result
  that is no FAIL and no UNKNOWN keeps what worked (`NeighborsKept` to `ConfigKept`), and the worst of several results
  is one of those only if all are (`WorstQuiet`), for the order of `RESULT_ORDER`. What the profiles of a device leave out is
  not claimed: `NothingLostPasses` speaks of checks that run (`CheckRuns`) and of required commands where
  the baseline profile applies (`BaselineRuns`).
- *OverlayRender*: `RollbackScoped`, `ForwardKeepsCompared` and `AppliedIsConfigured` for all VLANs, VNIs and VRFs. A plan is accepted
  (`Accepted`) only where the before configuration has for each compared attribute the value the plan will set, or none (`AcceptedValues`).
  `PlanInv` carries this through the sections: the configuration has all of before but the values of RDs and SVI descriptions,
  has blocks only of before or of the change, and has what the sections sent so far configure (`Reached`). The first
  makes a section add and not replace, the second leaves the rollback nothing but the blocks and lines it removes and
  the unowned ones, the last is what the evaluation looks for. The exceptions are in the properties, by name: RDs, what an SVI has besides,
  address families and EVPN route targets for the rollback, the first two for the plan, and a VRF the resource leaves unstated for the
  evaluation. Each is reached in the run: leaving it out makes the property false. Two resources
  of a ChangeSet may want one VLAN, an L2VNI and a traditional L3VNI: the section of the L2VNIs comes second, so what
  the evaluation reads of the VLAN is there.

`TypesCorrect` joins the type correctness of the parts.

Only model-checked: `ApplySettles`, as liveness under fairness is out of the prover's reach. The violation runs
stay with TLC too: each refutes its property with one behaviour.

## 6. Departures from the documents

Violation runs, each with its quotation under "findings" in `PROJECT.json`:

- `v_close`: `operation close` looks at the workflow state without the lock and not again; an apply
  in between is closed.
- `v_unsaved`: devices that an apply never reached have no `pre_apply_diff`, and `save-rollback`
  takes its absence for a clean one; their unsaved lines reach startup-config.
- `v_recheck`: a recheck in `rollback_required` ignores the result of the apply.
- `v_plan`: a plan without `current.json` takes whatever a first attempt that was cut off has published.
- `v_rollback`: the rollback template removes the L3VNI of a VRF that had it before.

Seen in the models or in the code, without a run of their own.

*Managed change.* An interrupt at the start of a rollback or a save records `CANCELLED_BEFORE_APPLY` and
cancels the lifecycle after the apply has changed devices (the guard knows its own command only). apply
does not check the lifecycle, so a closed Operation is still applied. `approve` killed between record and
transition makes a second record (as the design asks: it is not overwritten,
src/docs/design/common/OPERATION_STATE_AND_APPROVAL_DESIGN.md:326-328) which apply and save do not read by default, so that
the first save policy decides, against what the operator confirmed last.
The commands are modelled without `--approval-record`: with it apply and save may be given different records; save does
not compare the approval with that of `apply/execution.json` and takes a `pre_apply_diff` that is not there for clean
(src/alred/managed_operation.py:766-771), so that an apply without the save policy and a save with it would persist what
`UnsavedKeptOut` keeps out. A recheck of the old after Snapshot following an interrupted rollback leads to
`after_completed` with a device rolled back (`NoSaveWhileMixed` shows that the save is then refused).
`device_state_unknown` and `save_failed` have edges to `rollback_required` in the table, and the
architecture overview draws them (src/docs/design/ARCHITECTURE_OVERVIEW.md:260 and 267), but no command
takes them. plan writes its input artifacts before it takes the lock; when it then fails, later plans
refuse to start until the files are removed. A crash between the acceptance of a rollback WARN and its
transition leaves an acceptance that cannot be written again; another `health-check rollback` is the way
out, but a WARN of that attempt cannot be accepted any more. With a lock removed by hand and its inode given to the next lock, `assert_held` passes for two
processes; and a process that fails before it has remembered its inode removes the file at the path of the lock, whoever made it.
Whoever has passed the check finishes both writes of its transition though the lock is removed in between.

*Archive.* Two archives of one Operation at a time, or an archive and a restore: the one that fails removes
or overwrites the file of the other, and the Operation may be lost; `Apart` keeps these pairs, and create
next to archive, restore, delete and the repair of the index, out of the run. A delete killed half-way
leaves an index that says archived, with no archive, which create, restore and delete all refuse. archive checks
the lifecycle before it has the lock: that of an inspection, which an attempt may reopen in between, is excepted from
`ArchivedIsFinal`, and nothing is shown of that interleaving.

*Attempts.* Starting and publishing an attempt take no lock. With two processes in `Procs` the model finds:
the pointer goes back to the attempt that started first (`PointerMovesOn`), the evidence of a concluded
rollback is replaced by an attempt that published later (`ConcludedOnEvidence`), and the failure of one
leaves the phase of the other where none can start (`Retriable`). With `Overlap = TRUE` a plan may mix two
attempts. `Blocking` names the steps at which being cut off leaves no way on: publication of a first before
attempt, building, and the collection of a rollback. `Retriable` says nothing of these. An acceptance beside an attempt that
publishes, which the run keeps apart too, may be about evidence that is replaced under it.

*Rendering.* The design asks for a `PLAN_ERROR` when an existing RD or route target disagrees with the policy
(src/docs/design/network-ops/NXOS_OVERLAY_CONFIG_RENDERING_DESIGN.md:331 and 337); the code compares neither: an RD is
replaced by `rd auto`, and route targets are joined by the automatic ones. The description of an existing SVI is replaced as well. The
rollback puts none of this back. A resource that names no VRF for its SVI is accepted beside an existing SVI in a VRF
(src/alred/overlay_conflict.py:143, overlay_render.py:479), applied without a change of the VRF, and then failed by the evaluation, which always compares it
(src/alred/health/overlay_evaluator.py:245). A VNI used as L2VNI and L3VNI at once is not refused.
A plan says NO_CHANGE although an existing VRF lacks its L3VNI mapping; an L2VNI and a
traditional L3VNI on the same VLAN are not refused, and the second takes over; attributes completed in an
existing block are not undone by the rollback; the evaluation looks for no EVPN, BGP or
VRF address-family command.

*Qualification.* A WARN accepted for the rollback leads to no state from which the baseline can be saved.

*Containerlab.* `CurrentIsLive` and `SavedIsVerified` except nodes that somebody touches after their verification: the code
does not look again before it saves or publishes. `current.json` says SUCCESS although the push passed over nodes that did not answer, or
ignored errors, and `CurrentIsLive` excepts these too; its hashes are computed at the end from files that may have changed.

*Evidence.* A create killed between archive and checksum stops the automatic choice of the latest package
until somebody removes the archive; an import killed while it deletes a directory leaves a part that refuses
the package from then on; two creates in the same second, one sensitive, share one checksum file. An import
of a package while prune-imports deletes it, or two imports with `keep 1`, may leave `latest` on half a
directory.

*Collection.* Steps 3 and 4 of `collect-all` remove the artifacts of commands that failed in step 1
(src/alred/cli.py:731), so that the Manifest does not list a failed base command at all. A host that the connect
check does not reach, or whose thread raises, keeps the files of an earlier collection, and a Snapshot of the
directory reads them as it reads the others.

*Health comparison.* On a device that the platform or its role keeps from `network-baseline-nxos` a required command may be
missing, as `collection_complete` is skipped with the rest (src/alred/health/evaluator.py:3963-3978 and 4011-4030). A new counter next to one that passed the fail threshold gives WARN for both; routes lost
from EVPN set WARN over the evaluation of the after Snapshot; a VLAN, VRF or SVI that is no longer configured
is NOT_APPLICABLE; a dynamic BGP range removed from the configuration is not reported; scope by platform and
by function is read from the after Snapshot alone, so a device that lost the function drops its check; OSPF,
BGP and vPC not seen in either phase are NOT_APPLICABLE; an environment table marked inapplicable in both
phases hides alarms; several comparisons pass without a value from before.

## 7. Not modelled

- Text to text: the parsers of device output, the renderers of reports, diagrams, CSV and Markdown
  (`render.py`, `topology.py`, `evpn_diagram.py`), the transformations of `lab_transform.py` and
  `clab_pipeline.py`, argument parsing and output of `cli.py` (its parser alone is more than three thousand
  lines), profiles and schemas. They keep no state and nothing interleaves in them; a model would repeat their
  text. They are most of the implementation's lines, which is why the map covers a small share of it.
- The evaluators of a single Snapshot: one threshold each over values of one phase. Where a comparison uses
  them for more than a comparison of results, they are in `HealthComparison`.
- Type-5 prefix propagation, group resolution of a ChangeSet, discovery of an Overlay, preparation of files,
  support bundles, the secret scan: pure or read-only.
- Transports (SSH, scrapli, transcripts) are input and output: their outcomes are choices of the models.
- The active change file, the latest link of Operations and the retention choice of archives: one file each
  that the commands do not rely on for correctness of an Operation.
