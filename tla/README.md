# A TLA+ model of Argos AI Security

Argos is a Linux security agent with a remote vault for backups and evidence. This
directory models the parts of it in which processes, crashes and a network meet, checks
them with TLC on small instances, and proves the central results with TLAPS for all
instances. Paths below are relative to `src/crates/`.

## 1. The system: inventory

| Part | State it keeps | Operations | What is hard | What makes it correct |
| --- | --- | --- | --- | --- |
| Upload queue (`argos-vault/src/queue.rs`) | lock file, snapshot bodies, SQLite tables `queue_meta`, `queue_items`, `receipt_archive` | `enqueue`, `drain_once` (claim, send, finish), `status`, `item` | several processes, one directory; files and rows are not one transaction; the network is used under a lease; kills anywhere | no unsent body is lost, nothing is archived that the server lacks, limits hold, everything sendable is sent |
| Archive export (`queue/archive.rs`) | a temporary file, then the export | `export_archive`, `verify_archive` | reads in batches without the lock while items are sent | an export is complete and true for its watermark |
| Bundle jobs (`queue/jobs.rs`) | `bundle_jobs`, `bundle_refs` | `enqueue_bundle`, `claim_job`, `finish_job` | two locked sections with unlocked work between; two remote phases; jobs depend on items | a job and its chunks are registered together; phases are true and only advance |
| Vault server (`server.rs`, `quota.rs`) | objects, receipts, counters in memory | `put`, `get`, capacity admission | body and receipt are two files; counters are rebuilt by a scan; failed writes | an answered receipt is kept, counts agree with the disk, limits hold |
| Bundle catalogue (`bundle/server.rs`) | catalogue rows, intents, reviews, control objects | register, complete, review | rows in a database and objects in the store; intents that survive crashes; hashing without the mutex | every failure is repairable by repetition, a revocation holds from the moment it is noted |
| Outbox, reporter, central server (`argos-storage/src/outbox.rs`, `argos-agent/src/reporter.rs`, `argos-central/src/main.rs`) | outbox rows, retry state, the server's tables | record, register, heartbeat, deliver, acknowledge, ingest | lost, late and repeated requests; restarts | each detection at the server once and in order, and in the end |
| Backups, retention, incident holds (`argos-recovery`, `argos-agent/src/backup_worker.rs`) | versions, object files, pins, approvals, retention requests | back up, prune, mark, pin, release | two threads and the command line on one database; files removed inside a transaction | what is held is not pruned, requests are fulfilled in the end |
| Policy trust (`argos-policy/src/trust.rs`) | the policy and signature files; tables of accepted policies, the active version, the audit | deploy, sign, activate, roll back | two files replaced one at a time; starts race; the clock is set; a kill anywhere | only authorised policies run, an older one only by an approval used once |
| Event loop and process stop (`argos-agent/src/main.rs`, `argos-response/src/lib.rs`) | the settings in force, the response audit | guard the policy's time, evaluate, respond, record | a PID may change hands before each step; the policy may lapse between the score and the signal | only the observed process is killed, never under a lapsed policy, and the audit is true |
| Detection engine (`argos-detect`) | per process and per group windows, suppression marks, both bounded | evaluate | eviction, late events, reused PIDs, exceptions that leave a row out | a score is that of the stored events unless the engine says it is incomplete |
| Policy simulation and exception audit (`argos-policy/src/simulation.rs`, `exception_audit.rs`) | none: they replay stored rows | simulate, audit | a warm-up long enough for every window; the same order as live | a replay decides what the agent decided |
| Sensor coverage (`argos-sensor/src/coverage.rs`, `argos-agent/src/coverage_worker.rs`) | the registered root and mounts, the last snapshot, a liveness flag | register, inspect, publish, show in the health tick | the host changes between two steps of an inspection; stalls; a dead worker; a clock set back | a loss that lasts is shown, a calm host is healthy |
| Service drills (`argos-recovery/src/service.rs`, `service/`, `argos-cli/src/service_recovery.rs`) | the workspace with its copy and report | `test` (supervisor and worker), `verify` | the backup and plan change while they are read; deadlines; process groups and reused PIDs | a passed report is about bytes that were tested, and an accepted one about the file on disk |
| Isolation (`argos-response/src/isolate.rs`) | firewall rules | isolate, release | IPv4 and IPv6 rules are applied one after the other, from a snapshot that may be stale | both families or an error that says so (planned, section 9) |

All but the last are modelled. The vault client, the semantic file watcher, the sensors, the AI
summaries, the command line and the shared configuration are left out for the
reasons that `PROJECT.json` gives component by component.

How the parts interact: `enqueue_bundle` and `enqueue` fill the same tables; workers send
items and jobs to the vault server, whose catalogue writes its control objects through the
same `put` as uploads; the detector records detections, outbox rows and retention requests
in one transaction, which the reporter and the retention thread then work off separately;
the retention thread, the capture thread and the command line share the recovery database.
The policy that `trust.rs` activates gives the event loop its settings and its validity; the
loop runs the same detection engine on live events that simulation and audit run on the
rows it stored; its health tick shows the coverage worker's last snapshot and the reporter sends that
status on. The drill's worker, its supervisor and a later `verify` meet in the
report file of the workspace.

## 2. Modules

| Module | Models | Checked by |
| --- | --- | --- |
| `VaultQueue` | `queue.rs`: producers, workers, kills, the server as the client sees it | `queue_delivery`; proofs in `VaultQueue_proofs` |
| `VaultDelivery` | abstract: an object is accepted once, delivered, then confirmed | implemented by `VaultQueue` and `VaultBundleJobs` (checked and proved) |
| `VaultQueueReaders` | `status` and `export_archive` beside all of `VaultQueue` | `readers_export`; proofs in `VaultQueue_proofs` |
| `VaultBundleJobs` | `queue/jobs.rs` over items seen as `VaultDelivery` shows them | `jobs_publish`; proofs in `VaultBundleJobs_proofs` |
| `VaultStorage` | `server.rs` `put_inner`/`get`, `lib.rs` `write_new`, `quota.rs` | `storage_crash`; proofs in `VaultStorage_proofs` |
| `BundleCatalog` | `bundle/server.rs` register, complete, review, over storage seen as `VaultStorage` presents it | `catalog_crash`; proofs in `BundleCatalog_proofs` |
| `DetectionReports` | outbox, reporter thread, central server's three handlers | `reports_faults`; proofs in `AgentThreads_proofs` |
| `ReportLog` | abstract: a log received in order and forgotten behind | implemented by `DetectionReports` (checked and proved) |
| `IncidentRetention` | backups, prune, marks, pins, approvals, retention requests and the threads that use them | `retention_hold`; proofs in `IncidentRetention_proofs` |
| `PolicyTrust` | activation of signed policies: files, transaction, tables, rollback approvals | `policy_trust`; proofs in `PolicyTrust_proofs` |
| `AgentResponse` | the event loop, the time guard, `LinuxResponder::execute` and the response audit | `agent_response`; proofs in `AgentThreads_proofs` |
| `DetectionEngine` | the engine as a function of its state and the next event: approvals, what an agent samples, both scorers, windows, limits, the announced maxima | through `PolicyReplay` |
| `PolicyReplay` | live engines beside the stored rows, `simulate` and `audit_exceptions`; extends `DetectionEngine` | `policy_replay` |
| `SensorCoverage` | registration and inspection of a root, the coverage worker, the status the health tick shows | `sensor_coverage`; proofs in `AgentThreads_proofs` |
| `ServiceDrill` | the drill's worker, its supervisor, `verify`, and everybody who changes backup and plan meanwhile | `service_drill`; proofs in `ServiceDrill_proofs` |

Each `MC*` module gives one of these its instances. The modules stack: the queue's items
become one step each in `VaultBundleJobs`, justified by the refinement of `VaultDelivery`;
a `put` becomes one step (stored, refused, or failed) in `BundleCatalog`, which is what
`VaultStorage`'s `StorageIsSound` allows; `AgentResponse` starts with any activated policy,
which `PolicyTrust` is about, and abstracts the score that `DetectionEngine` computes.
`AgentThreads_proofs` extends three modules at once (the agent's event loop, its coverage worker and its reporter, which share no
variable), so their specifications have names of their own: `ResponseSpec`, `CoverageSpec` and `ReportsSpec`, and likewise
`Init`, `Next` and `TypeOK`. The proofs about several components use the same few lemmas, and each module has those it needs.

## 3. State and actions against the code

`PROJECT.json` maps every definition to its lines. In outline:

* **VaultQueue.** `active`, `archive` and `row` are the two item tables, `file` the bodies
  under `objects/`, `lock` the flock, `meta` the row that pins target and limits. A producer
  goes wait → opened → written → ok; `EnqueueWrite` creates the body, `EnqueueCommit` the row,
  so a kill in between leaves the orphan that `Cleaned` (`cleanup`) removes whenever
  the queue is next opened for writing. A worker claims under the lock, sends without it, and
  takes it again to finish; the token comparison in `finish` is `Owns`. Times count down:
  `retry` and `left` are the distances to `next_retry_ms` and to the end of the lease.
  `Crash` kills a process anywhere, `Damage` spoils a body, `ServeLate` lets an abandoned
  request still arrive, and commits may report an error although they took effect.
* **VaultQueueReaders.** `validate_database` is two steps, as the code counts in two
  statements; an export then reads `Batch` rows at a time up to its watermark.
* **VaultBundleJobs.** The two locked sections of `enqueue_bundle` are one step each; the
  hashing of reused bodies between them is a loop of steps in which everything may change.
  A job goes register → complete → done, each by claim, request and `finish_job`.
* **VaultStorage.** Each file is published by separate steps: create the directory, write a
  temporary file, link, remove, sync. A file is absent, linked, or kept (synced); `SystemCrash`
  may undo what was not synced, `Kill` leaves a half published object. `use` and `rev` are
  the counters of `quota.rs`; `ok` is the flag that any failed write clears.
* **BundleCatalog.** `toDo`, `toReview` and `toRevoke` are the three intents; `act` is the
  request that holds the storage mutex and is between two of its steps (object, row, intent
  removed). A completion hashes chunks without the mutex, and re-checks after.
* **DetectionReports.** `pc` follows the loop of the reporter thread; `req` is the request
  under way, `late` the ones it gave up on. `Ingest` is the insert that ignores conflicts.
  A detection is named by its row number: the outbox is read in that order.
* **IncidentRetention.** A transaction that only changes tables is one step. `backup` and
  `prune` hold SQLite's write lock over several steps because they also change files.
  `PinPath` is one `pin_known_good_before` of the retention thread, `Settle` the end of its
  request: completed, or scheduled again.
* **PolicyTrust.** `policyFile` and `sigFile` are replaced in separate steps, so a start may
  read one of each generation. A start goes off → open → read → checked → locked → running: it
  reads the policy, then the signature, opens SQLite's immediate transaction (`lock`), takes
  `now` inside it, decides (`check_acceptance`), and commits accepted row, active version and audit
  row together. Trusted keys sign only documents of `Endorsed`, other keys anything; a hash names its bytes.
* **AgentResponse.** One PID with successive instances; `target` is the one an event
  named, `fd` the one the pidfd holds. The steps of the response are those of the code: guard,
  open the pidfd, compare the start identity, signal, wait, record. `SetClock` moves the wall clock
  to any time before any of them.
* **DetectionEngine, PolicyReplay.** `Evaluate(engine, cfg, event)` is one call of the engine: the approvals, the
  process scorer with its window and its bounded memory, the four groupings of the multi-window scorer, the
  suppression of repeated alerts and the reported `incomplete_until`. Scores are kept
  exact as integers (`Scale`). `seen` holds what a file contains (the entropy of its front and of sampled
  contents, in whole bits); `Collected` is what an agent with a given policy measures of it, so sizes and thresholds decide
  separately what is measured, what counts (`EncryptionSignal`) and what validation announces (`EntropyPossible`,
  `MaxScore`, `BaseMaxScore`). In `PolicyReplay` each policy has an engine that
  sees every event live; `rows` is what the agent named by `recorder` stored, and the replays are operators over `rows`.
* **SensorCoverage.** `host` is what is there, `base` what was registered. The worker's
  steps (mounts, root, scan, second look, publish) read `host` one at a time. Ages
  replace clocks and stop counting at the first stale age; a clock set behind a snapshot is `ahead`.
* **ServiceDrill.** A backup is a list of parts read one at a time, so that a write may fall between
  two reads; `stamp` moves with a write unless it is one of the `unseen`. `held` and `torn` record, for the
  properties, which bodies the open file has had and into which reads an unseen write fell. `late` says which of the two deadlines has
  passed. The worker is doomed from the supervisor's kill on; its PID becomes free when
  it is reaped, and may then belong to another. `Broken` says which stages and checks a content fails.

## 4. What the runs check

| Run | Instance | Shows |
| --- | --- | --- |
| `queue_delivery` | 2 workers, 2 producers with two sets of limits, one for another target, 2 ids, 2 objects, archive of 2, 1 fault | an unsent item keeps its body; the stored limits hold; a running lease is ended by its holder alone; what `enqueue` returned is safe; the queue implements `VaultDelivery` |
| `readers_export` | 2 items, 1 worker, 1 producer, batches of 1, 1 fault, fair | an export that runs beside senders is complete; every sendable item is sent |
| `jobs_publish` | 1 producer, 2 workers, 3 objects, 2 manifests that claim one id, tight limits, 1 fault, fair | job and chunks together or not at all, phases true, limits kept; single files and bundles together implement `VaultDelivery`; what `enqueue_bundle` returned is safe; every bundle is published in the end |
| `storage_crash` | 2 server processes, 2 agents, 2 contents, 2 configurations, 2 faults | receipts have bodies, answered ones survive crashes, counts agree with the disk, the disk stays within the limits |
| `catalog_crash` | 1 id, 2 manifests, 2 completions, 2 good reviews, 2 revocations, history of 3, 3 faults, fair | failures are repairable, the history is sound, revocations hold and are final, only whole bundles complete, with room a repeated revocation ends |
| `reports_faults` | 2 detections, 3 faults, 1 change of health, delay cap 3, fair | `ReportLog` implemented (in order and once), everything is reported, the last health is shown |
| `retention_hold` | 2 paths sharing 1 content, 2 versions, 1 request, 1 operator, 1 fault, fair | what is held is not pruned and is released only by somebody else's approval; completed requests pinned every path; every path that can be pinned is |
| `policy_trust` | 2 starts, 5 documents (one that names an untrusted key, two rollbacks under one approval), a trusted and an untrusted key, clock 0..2, audit bound 1 | only endorsed policies are accepted, an approval is used once, the newest row is the active one; the highest accepted version never falls; a running agent runs what it committed |
| `agent_response` | 1 PID with 2 instances, clock 0..2, a blocking and an observing policy | only the observed process is killed; none once the agent saw its policy out of force, even if the clock is set back; a recorded success means a dead process |
| `policy_replay` | 6 kinds of events, late ones included, histories of 4, 3 policies with different sampling, rows recorded under 2 of them, engine limits of 3 events and 2 groups, queries of 3 rows | memory is bounded, complete windows are exact and group alerts are exact or marked incomplete; simulation and exception audit agree with live engines unless different sampling is warned of; a threshold called unreachable is not reached |
| `sensor_coverage` | interval 1, stale age 3, scan 1, a root of 3 values, configured path and mounts of 2, fair | a lasting loss is shown within the stale age; a calm host becomes and stays healthy |
| `service_drill` | backups of 2 parts over 2 contents, a SQLite and a PostgreSQL plan, preapproval or not, 3 changes, 2 of them unseen by timestamps, fair | a passed report names bytes that were restored and passed every check, and a copy that is tested is one body of the file unless an unseen write fell into it; `test` answers passed only with the report on disk; no foreign process group is killed; an accepted report speaks for a body the file had while `verify` had it open unless unseen writes fell into both reads; `test` ends |

**Bounds.** `MaxFaults` counts kills, failing steps, lost answers and damage; it is the
bound on the length of the interesting part of a behaviour, and every liveness property
speaks of what happens after the last one. Two workers are enough for an expired lease and
its successor, two faults for a repair that itself fails. Two detections are enough for one
to be late while the next is under way, and the theorems remove the bound. Limits and
archive sizes are chosen so that both "fits" and "full" are reached; the delay caps so that
both the growing and the capped delay are. `retention_hold` keeps no old version
(`Keep = 0`) so that everything not held is pruned; the capacity of pending requests
is not exceeded there by its one detection. Two starts are enough for a race over one approval, two instances for a reused PID, and
the theorems remove both bounds. Four events overfill memories of three, of which one may
come late. In `service_drill` one change falls in the drill and the others may fall in
the verification, which is enough for a write between the two reads of a part and for a file
replaced behind an open handle. It is one unseen write too few to spoil both reads alike and end with the report's bytes: the
exception in `AcceptedHolds` does not occur in the run, and the theorem `AcceptedWasOnDisk` covers it. Symmetry is used only in runs without
liveness properties, over ids, tokens and processes that the code compares for equality only.

**Deadlock** is checked where processes run for ever. It is switched off in
`storage_crash` and `catalog_crash`, where a finished system waits for requests (the
requests of the instance are used up), in `retention_hold`, where the bounded
supply of versions, detections and time runs out, and in `policy_replay`, whose histories end.

## 5. Fairness

* `VaultQueue`: weak fairness of a running call and of the scheduled drain; strong fairness
  of taking the lock (`ClaimOpen`, `FinishOpen`): flock sections are short and the operator's timer
  starts the drain again and again, so a worker is not refused for ever. Producers need not
  call. Time passes.
* `VaultBundleJobs`: weak fairness of started calls, of item sending, of each worker's job
  step and of time. A worker tries jobs before items, hence jobs are not starved by items.
* `BundleCatalog`: a request under way goes on and a stopped server is restarted. Strong
  fairness of `Retry` is the administrator who repeats a revocation that was not confirmed,
  as `docs/FEATURE_BUNDLE_OPERATIONS.md` demands; without it nothing would finish the intent.
* `DetectionReports`: the reporter thread runs, the clock runs, the service manager starts
  the agent again. That the server answers in the end is not a fairness condition of its own:
  `Serve` belongs to the loop, lost answers and store errors are faults, which are bounded, and an agent that is refused registers again.
* `IncidentRetention`: both threads and the clock run. Strong fairness of `Take`
  and `PinPath`: the thread takes due requests in order of `next_attempt_ms`, and the write lock
  is free again and again (`busy_timeout`).
* `SensorCoverage`: the worker is a runnable thread and time passes. A stalled disk is excluded
  by `Calm`, not by fairness: while it lasts nothing is promised but `LossIsShown`.
* `ServiceDrill`: the deadline comes and the supervisor runs. The worker is given no fairness: `TestEnds`
  holds because the supervisor kills it and stops waiting when even that does not end it.

`VaultStorage` claims no liveness: a failed write stops the server's writing until an
operator repairs and restarts. Neither do `PolicyTrust` (a start may be refused or killed),
`AgentResponse` (a response may fail) and `PolicyReplay`.

## 6. What is proved

The theorems of the eight `_proofs` modules hold for every value of the constants
under the `ASSUME`s of the modules (ids finite; bounds natural numbers, the retry and
lease lengths positive; disjoint processes; every configuration a target; documents
well shaped and named by their hash; manifests, completions and reviews told apart; agents, contents and
a bundle's chunks finite in number; and `None`, the absent row or value, none of the values that may be present).

**The queue.** `TypeCorrect` rests on `TypeInv`, which adds to `TypeOK` what a process
carries at each program counter. The safety theorems rest on `SafeInv`. The properties
are not inductive alone: that a body survives cleanup needs that the flock is held by exactly
the process inside a locked section (`LockInv`) and that a written body waiting for its commit
belongs to no row (`WriteInv`); that the archive is true needs that a worker believes a
receipt only when the pinned server has the object (`LeaseInv`), for requests that arrive
late as well (`WireInv`); that nothing precedes the set-up is `SetupInv`. From these follow
`BodiesKept`, `ArchiveIsTrue`, `NoDuplicateRows`, `SlotsSuffice` and `ExclusiveLeases`, the action
properties `ItemsNeverForgotten`, `LateAnswersHarmless` and `ReturnedItemsAreSafe`, and the
refinement `QueueImplementsDelivery`. Its lemma `StepKinds` sorts the steps into
those that register, confirm, deliver or leave the abstract state alone.

`LimitsHold` adds `BytesInv`: the pending bytes are within the limits of `queue_meta`, and the bytes together with those of a body that
is written but not committed are within the limits its caller brought. The second part survives other processes because the flock keeps
everybody else from adding a row in between (`WrittenAlone`); a commit that stores narrower limits in `queue_meta` is
therefore one whose caller, its own body counted, is within them. A sum of sizes is written as the number of
elements of a set (each object paired with `1 .. Size`), in the queue, the jobs and the storage alike: the sizes of disjoint finite sets add up, so
that no induction over a set is needed.

**The readers.** `ExportsAreComplete` rests on `ExportInv`: `order` has every archived item exactly once, an export under way holds the first rows of
it and none behind its watermark, and whatever a status reported is under the watermark. Items sent meanwhile only extend `order` at its
end (`OneRowMore`), so neither the rows already read nor the watermark move under the export; that its receipts
are true is the queue's `ArchiveIsTrue`.

**Bundle jobs.** Between the two locked sections of `enqueue_bundle` everything may change, so `Inv` says nothing of the chunks a call has
looked at; `JobsStaySound` and `ReturnedBundlesAreSafe` hold because the second section looks again. They need `Items` (an item is
pending with its body kept, or archived and then at the server), `Calls` (what a call carries), `Leases` and `Late`. `Busy` is what a worker may rely on without the lock: all chunks of
its job are archived, which no step undoes, and while the job carries its token the phase is the one it claimed; without the token
its answer is discarded by `Owns`, which is why a late "registered" cannot undo a "done". `Late` says the same of requests that were given
up and may still arrive. `BundlesImplementDelivery` maps a bundle's commit to the acceptance of its new chunks, and shows that no job goes back or away.

**Storage.** `StorageStaysSound` follows one `put` through its files. `AtStep` says, for each step, in which state body and receipt are;
`OneServer`, the writer lock, makes this the only publication under way, and `Publishing` that its server still vouches for its storage. `Clean` says that
such a server has nothing half published besides, `Counted` that its counters are the files plus
the object being written, in the class (revocation or not) that its configuration gives it, and `Admitted` that this object fitted when everything else
charged to the same budget is counted. A scan after a restart establishes these again for another configuration.
From them follow that receipts have bodies and that counts are true, and `DiskStaysWithinLimits`, for every
file system. That answered receipts survive machine crashes (`AnsweredIsKept`) is proved under `KeepsParents`, and needs that the directory of an answered
object is kept too (`AnswerInDirectory`): section 8 says what happens without.

**The reports.** `ReportedInOrder` becomes inductive with three facts: the request the reporter
carries is for the first detection not acknowledged (`RequestInv`), the server is at most one ahead of
the acknowledgements (`AheadInv`), and a late request is never for a later detection
(`LateInv`). `ReportsTyped`, `InOrderAndOnce` and `ReportsImplementLog` follow.

**Policy trust.** `TablesStaySound` becomes inductive with two facts about starts under way: what `read_verify`
accepted is an endorsed document (`Reading`), because a signature over other bytes
does not verify even if the files were exchanged between the two reads; and the verdict
of an open transaction is still the verdict on the tables, because nobody else can write while it
is open. With `Tables` (the newest accepted row is the active version, a running agent runs a row of the
table) follow `WatermarkNeverFalls` and `RunningIsCommitted`.

**Response.** `OnlyTheObservedIsKilled` needs `Pids`: only the youngest instance can
have the PID, so an observed instance that is not the one behind the pidfd cannot return.
`LapsedPolicyKillsNothing` needs `Lapses`: once a time outside the validity was read, `invalid` is set and
no step of a response is under way. `AuditedResultsAreTrue` needs `Successes`: a success is
recorded only after the process behind the pidfd has exited.

**The catalogue.** `CatalogStaysSound` says that a bundle can always be repaired by repeating the request,
which speaks of counts: `owners` against the control objects on disk. The invariant therefore follows every
object (`Named`: each completion and each review among a bundle's objects is in a row or noted in an intent, and
what the rows name is there) and counts them (`Counted`: the objects are as many as the manifests, the completion, the reviews
and the intents already published). `Intended` says that an intent continues the rows: nothing is completed yet, the review
has the next number of the history, is not in it, and has a slot. `ActSound` carries this through the steps of the request that
holds the mutex, so that a kill between the object and the row leaves exactly the intent behind. `RevocationsAreFinal` needs `Noted`: a
revocation once stored is entered or still noted, which `Shown` reads. `CompletedWasWhole` needs only that a completion
commits with the chunks hashed and unchanged.

**Retention.** `HeldAlways` is about a prune that is interrupted. `DoomedIsFree` says that what the open transaction deletes is
unreviewed and not held; it stays so because the index is locked from the moment the prune has
chosen (`LockHeld`), and pins and marks write to the same index. `PinnedPresent` gives an active pin a row, so that the
object of a shared hash is spared. `CompletedStayPinned` needs `WorkerPinned`: the retention thread
has a pin on every path it has left behind, unless it noted a failure. `RetentionTypes` includes
the limits of the delay and of the pending requests.

**Coverage.** `LossAlwaysShown` compares ages. An inspection that began after the loss has met it
wherever it has looked already (`Inspected`), hence so has the one published last (`PublishedLoss`): either that one is younger than
the loss and reports the gap, or it is older and by then stale. Growing older keeps that order although
ages stop counting at `Old` (`OlderKeepsOrder`).

**Drills.** `PassedWasTested` needs `Staged`, which follows the worker's stages: a worker that has not failed has a whole body
with a sound header, then one that restores, then one that passes the first `done` checks. Its second half, that the tested copy is of
the file, needs `Copied`: while the times of the open file have not moved, the parts read so far are those
of the body that is there, and a whole read is a body that was there (`Sound`), unless an unseen write fell into
the read. `AnsweredStaysOnDisk` needs `OnDisk`: the
report on disk is the worker's own from the moment it can be printed, and whoever answers "passed" has
seen its writer gone. `OnlyOwnGroupKilled` needs `Owned`: `waitid` with WNOWAIT leaves the id with the worker until the supervisor has
stopped looking at it. `AcceptedWasOnDisk` needs `Undisturbed`, which is `Sound` for the two reads of `verify`: both are compared, so
one that no unseen write fell into makes the other a body of the file as well. There is no bound on the number of unseen
writes; the case left out is the one in which both reads were hit.

Some theorems (`ArchiveIsTrue`, `NoDuplicateRows`, `SlotsSuffice`, `ExclusiveLeases`, `ItemsNeverForgotten`,
`InOrderAndOnce`) state properties no run repeats: they hold for every instance.

**Only model-checked:**

* all liveness (`EventuallySent`, `EventuallyPublished`, `RevocationEndsWithRoom`, `AllReported`, `HealthShown` and the others of section 5):
  the prover has neither fairness nor ENABLED;
* the four invariants of `policy_replay`. They compare what folds over a history compute, live and replayed; for every
  history that needs induction over data, which the installed provers cannot do. The only RECURSIVE operator,
  `ExpireBefore` of `DetectionEngine`, is out of their reach as well.

Every other safety invariant, action property and refinement that a run checks is proved.

## 7. Observations

Behaviour met while modelling that a reader of the code should know. None of it breaks a property above;
the properties are stated around it.

* **Readers at a full archive.** `queue.rs:343` and `:352` count active and archived rows in two
  statements, and readers hold no lock. An item moved in between is counted twice, and with a full archive
  `status`, `item`, the export and the end of `drain_once` fail, although
  `docs/FEATURE_VAULT_QUEUE.md:72` speaks of new registrations only. Gone at the next call.
* **Revocation with a full history.** `bundle/server.rs:600` notes a revocation before `:619` looks at the
  limit of the history. With a full history the intent can never be finished, and the
  bundle is unavailable for ever (it fails closed); `RevocationEndsWithRoom` says "with room" for that reason.
* **Prune and crash.** `argos-recovery/src/lib.rs:567` removes object files before the commit at `:572`; a kill or
  a failing commit brings rows back whose objects are gone, and `pin_version` pins them
  without looking.
* **Released, pinned again.** A retried retention request pins again what an operator released
  meanwhile, because the unique index covers active pins only. A request that can
  never succeed is retried for ever and keeps its place among the 10,000.
* **Late events.** The process scorer's `incomplete_until` can move backwards when an event
  comes late; `EngineIsExact` is about histories and windows the engine itself calls complete.
* **An approval can raise a score.** It takes rows out of the window, and with them out of the denominators
  of the ratio terms.
* **Storage errors in the loop.** A failed `insert_file_event` is logged but not shown in the
  health, and `analysis_incomplete` is overwritten by each event.
* **Stored samples.** `simulation.rs:199` warns when baseline and candidate sample differently, and `:356` clears stored entropy
  only for a candidate without sample bytes. A candidate that samples too little for its threshold is announced with
  the lower maximum (`argos-detect/src/lib.rs:298`), yet rows recorded with larger samples can lift its replayed score above that; the report then
  carries the warning, and `UnreachableIsUnreached` and `SimulationIsExact` except it. The warning compares the two policies given, not
  the one under which the rows were recorded: both properties are about rows of the baseline. Different `history_secs` and `max_files` of
  the content sampling are not warned of.
* **Drills.** Staging alone cannot see a write too quick for timestamps; the report names the bytes that were tested all the
  same. `verify` reads twice and compares: a read into which an unseen write fell is found out by the other, but when such writes
  fall into both reads alike, a report may be accepted for bytes that never were one file.
  `docs/FEATURE_SERVICE_RECOVERY.md:118` says that two reads are no snapshot, and `AcceptedHolds` names this exception. In the preapproval sandbox the journal check
  is vacuous, since only the backup file is bound into it. A worker that finishes between the supervisor's
  decision and the kill leaves a valid passed report although `test` answers failed. The
  supervisor judges by the report and not by the worker's exit status.

## 8. What is not modelled

* Queue: migration of schema v1 and v2, `verify_archive` (a parser of a finished file), the spool
  directory a killed `enqueue_bundle` leaves, `note_control`'s owner limit and the counters of
  rejected admissions. The clock does not go backwards. `Damage` happens only while
  nobody holds the lock. That unsendable old items delay younger ones is a matter of timing
  (`EventuallySent` excludes it).
* Storage: the free-space floor is a refusal that may always happen. `KeepsParents` says that
  syncing a directory also keeps its own entry in its parent. On a file system where
  it does not (`KeepsParents = FALSE`), a machine crash may take a new agent directory with answered
  objects, because `server.rs:312` does not sync the root; the docs promise nothing about that, so no run claims it.
* Catalogue: creation of the catalogue file and its marker, list pages, the limits of
  1000 and 10000 bundles, a request id reused with other content, damaged control
  objects. When a registration of one manifest is interrupted and another with the same id
  follows, the bundle stays unavailable; this is the exception in `AlwaysRepairable`.
* Jobs: the server there ignores pending reviews, which are `BundleCatalog`'s subject.
* Reports: change of the agent id, tokens, and the flag a stopping sensor sets just before the process
  exits. A detection the server refuses would block the ones behind it; the server's
  checks of content (time stamp, score up to 100, length of the delivery id) cannot fail for
  what the detector records.
* Retention: machine crashes, the bounded channel that drops captures, I/O pacing, the audit
  table and the counter of failed attempts; restore, preview, recommend and
  trial restores only read.
* Policy trust: damage to the state database, its size limits and the time a start waits for the
  transaction; the warnings about broad scopes and a clock near the end of validity; the read-only views of the state.
* Response: `isolate.rs`, which reads, tests, applies and reads back the firewall rules of both address families
  when an operator asks for it, is planned. Stored events and semantic findings are side outputs of the loop.
* Engine and replay: fractions of a bit of entropy; whether the content sampler finds a file changed against its bounded
  history (an event says so, `odd`); the counters and example lists of the
  reports, and rejected configuration beyond `Valid`. Six kinds of events stand for paths inside, outside and below protected roots.
* Coverage: one protected root of several, identified by device and inode as in the code, so a directory that is
  replaced by one with the same pair is no change; what the scan finds in a tree is one bit (`dense`).
* Drills: the SQL of a check, the size and process limits of the sandbox, and the layout of the workspace.

## 9. Plan

Done, in this order: `VaultQueue` with its abstract specification and proofs, readers,
bundle jobs, storage, catalogue, detection reports with proofs, retention, policy trust and the response with proofs,
engine and replay, coverage, drills; the proofs of coverage, retention, catalogue and drills; then those of the byte limits, the
export, the bundle jobs and the storage.

Next:

1. `NetworkIsolation`: `isolate.rs` with a second operator and other programs that change the rules
   between the snapshot, the application and the check afterwards.
2. Restores beside prune, and machine crashes in the recovery store.
3. More of the catalogue (creation, limits, reuse of request ids) and of the queue (migration).
4. That `BundleCatalog` may see a `put` as one step, as a refinement of an abstract store by `VaultStorage`.

Properties that a theorem or a refinement subsumes give way to new ones, so that
the set of runs stays small enough to be run on every change.
