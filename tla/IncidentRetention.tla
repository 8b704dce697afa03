-------------------------- MODULE IncidentRetention --------------------------
(***************************************************************************)
(* Backups and what incidents keep of them: argos-recovery/src/lib.rs and  *)
(* retention.rs (versions, objects, pins), the retention requests of       *)
(* argos-storage/src/outbox.rs, and the two threads of argos-agent/src/    *)
(* backup_worker.rs beside operators on the command line.                  *)
(*                                                                         *)
(* index.db has one writer at a time.  A transaction that only changes     *)
(* tables is one step; backup and prune also change files and hold the     *)
(* write lock over several steps.  Contents are told apart by their hash.  *)
(* A detection is named by its id, which also names its incident; operators *)
(* pin for such incidents too, and enter any name as the approver's.       *)
(***************************************************************************)
EXTENDS Integers, FiniteSets

CONSTANTS
    Paths, Hashes, Operators, Approvals,
    Keep,           \* keep_versions
    Capacity,       \* RETENTION_CAPACITY
    DelayCap,       \* attempts.min(6): attempts that make the delay longer
    MaxDelay,       \* longest retry delay
    MaxVersions,    \* bound: backed up versions
    MaxDetections,  \* bound: detections
    MaxTime,        \* bound: the clock of time stamps
    MaxFaults,      \* bound: failing transactions, kills
    Agent,          \* the actor "argos-agent"
    None

VARIABLES
    version,    \* versions: id -> row
    lastVer,    \* AUTOINCREMENT
    objects,    \* hashes of the files in objects/
    pins,       \* retention_pins
    used,       \* retention_approvals: id -> approver
    request,    \* retention_jobs: detection -> request
    lock,       \* index.db is being written by the backup thread
    cap,        \* the backup thread: where it is and what it read
    doomed,     \* rows deleted in its open transaction
    worker,     \* the retention thread
    marking,    \* the version an operator verified and is about to mark
    now, faults

index == <<version, lastVer, pins, used>>
thread == <<lock, cap, doomed>>
vars == <<index, objects, request, thread, worker, marking, now, faults>>

ASSUME RetentionAssumption ==
    /\ Keep \in Nat /\ Capacity \in Nat /\ DelayCap \in Nat /\ MaxDelay \in Nat \ {0}
    /\ MaxVersions \in Nat /\ MaxDetections \in Nat /\ MaxTime \in Nat /\ MaxFaults \in Nat
    /\ Agent \notin Operators /\ None \notin Operators \cup {Agent} \cup Hashes \cup Nat

Ids == 1 .. MaxVersions
Detections == 1 .. MaxDetections
Actors == Operators \cup {Agent}

Version == [path : Paths, hash : Hashes, time : 0 .. MaxTime, good : BOOLEAN]

\* A pin keeps the path of its version; by is the approval that released it.
Pin == [inc : Detections, ver : Ids, path : Paths, actor : Actors, by : Approvals \cup {None}]

Request == [state : {"pending", "done", "overflow"}, paths : SUBSET Paths, time : 0 .. MaxTime,
            attempts : 0 .. DelayCap, wait : 0 .. MaxDelay]

\* None is neither a row nor a request.
ASSUME NoneAssumption == None \notin Version \cup Request

IdleCap == [at |-> "idle", path |-> None, hash |-> None, time |-> 0]
IdleWorker == [job |-> None, todo |-> {}, failed |-> FALSE]

Init ==
    /\ version = [v \in Ids |-> None] /\ lastVer = 0 /\ objects = {}
    /\ pins = {} /\ used = [a \in Approvals |-> None]
    /\ request = [d \in Detections |-> None]
    /\ lock = FALSE /\ cap = IdleCap /\ doomed = {}
    /\ worker = IdleWorker /\ marking = None
    /\ now = 0 /\ faults = 0

-----------------------------------------------------------------------------
(* Helpers *)

Fault == faults < MaxFaults /\ faults' = faults + 1

Present == {v \in Ids : version[v] # None}

Pinned(v) == \E p \in pins : p.ver = v /\ p.by = None

Pending == {d \in Detections : request[d] # None /\ request[d].state = "pending"}

\* known_good and strictly before the incident
GoodBefore(path, time) ==
    {v \in Present : version[v].path = path /\ version[v].good /\ version[v].time < time}

\* 1000 * 2^min(attempts, 6), at most 60000; in seconds
RetryDelay(n) == IF 2^n \in 0 .. MaxDelay THEN 2^n ELSE MaxDelay

-----------------------------------------------------------------------------
(* The backup thread *)

\* The time is taken and the file is read before the lock is asked for.
BackupRead(path, hash) ==
    /\ cap.at = "idle"
    /\ lastVer < MaxVersions
    /\ cap' = [at |-> "read", path |-> path, hash |-> hash, time |-> now]
    /\ UNCHANGED <<index, objects, request, lock, doomed, worker, marking, now, faults>>

LastHash(path) ==
    LET mine == {v \in Present : version[v].path = path} IN
    IF mine = {} THEN None
    ELSE version[CHOOSE v \in mine : \A w \in mine : w <= v].hash

\* Every hundredth capture is followed by prune.
Captured == cap' = IdleCap \/ cap' = [IdleCap EXCEPT !.at = "prune"]

BackupSame ==
    /\ cap.at = "read" /\ ~lock
    /\ LastHash(cap.path) = cap.hash
    /\ Captured
    /\ UNCHANGED <<index, objects, request, lock, doomed, worker, marking, now, faults>>

BackupWrite ==
    /\ cap.at = "read" /\ ~lock
    /\ LastHash(cap.path) # cap.hash
    /\ lock' = TRUE
    /\ objects' = objects \cup {cap.hash}
    /\ cap' = [cap EXCEPT !.at = "written"]
    /\ UNCHANGED <<index, request, doomed, worker, marking, now, faults>>

BackupCommit ==
    /\ cap.at = "written"
    /\ lastVer' = lastVer + 1
    /\ version' = [version EXCEPT ![lastVer + 1] =
                     [path |-> cap.path, hash |-> cap.hash, time |-> cap.time, good |-> FALSE]]
    /\ lock' = FALSE
    /\ Captured
    /\ UNCHANGED <<pins, used, objects, request, doomed, worker, marking, now, faults>>

\* Unreviewed versions of the path that are newer than v.
Newer(v) == {w \in Present : w > v /\ version[w].path = version[v].path /\ ~version[w].good}

Prunable ==
    {v \in Present : ~version[v].good /\ ~Pinned(v) /\ Cardinality(Newer(v)) >= Keep}

PruneBegin ==
    /\ cap.at = "prune" /\ ~lock
    /\ lock' = TRUE
    /\ doomed' = Prunable
    /\ cap' = [cap EXCEPT !.at = "pruning"]
    /\ UNCHANGED <<index, objects, request, worker, marking, now, faults>>

\* Mutant: the objects of deleted rows go, shared or not.
LiveUnshared == Hashes \ {version[v].hash : v \in doomed}

Live == {version[v].hash : v \in Present \ doomed}

\* The files go one by one, while the transaction is open.
PruneObject ==
    /\ cap.at = "pruning"
    /\ \E h \in objects \ Live : objects' = objects \ {h}
    /\ UNCHANGED <<index, request, thread, worker, marking, now, faults>>

\* A file that cannot be removed is passed over.
PruneCommit ==
    /\ cap.at = "pruning"
    /\ \/ objects \subseteq Live /\ UNCHANGED faults
       \/ Fault
    /\ version' = [v \in Ids |-> IF v \in doomed THEN None ELSE version[v]]
    /\ lock' = FALSE /\ doomed' = {} /\ cap' = IdleCap
    /\ UNCHANGED <<lastVer, pins, used, objects, request, worker, marking, now>>

\* The transaction fails, or the lock is not to be had: rows are rolled back.
CaptureFails ==
    /\ cap.at # "idle"
    /\ Fault
    /\ lock' = FALSE /\ doomed' = {} /\ cap' = IdleCap
    /\ UNCHANGED <<index, objects, request, worker, marking, now>>

-----------------------------------------------------------------------------
(* Retention requests and the retention thread *)

\* record_detection with retain
Record(d, paths) ==
    /\ request[d] = None
    /\ \A e \in Detections : e < d => request[e] # None
    /\ request' = [request EXCEPT ![d] =
                     [state |-> IF Cardinality(Pending) < Capacity THEN "pending" ELSE "overflow",
                      paths |-> paths, time |-> now, attempts |-> 0, wait |-> 0]]
    /\ UNCHANGED <<index, objects, thread, worker, marking, now, faults>>

\* Mutant: a request that failed is not taken again.
DueOnce == {d \in Pending : request[d].attempts = 0}

Due == {d \in Pending : request[d].wait = 0}

\* pending_retention_jobs; the batch is worked off in its order.
Take(d) ==
    /\ worker.job = None
    /\ d \in Due
    /\ worker' = [job |-> d, todo |-> request[d].paths, failed |-> FALSE]
    /\ UNCHANGED <<index, objects, request, thread, marking, now, faults>>

\* pin_in_transaction: an active pin of the pair stays as it is.
NewPins(inc, vs, actor) ==
    {[inc |-> inc, ver |-> v, path |-> version[v].path, actor |-> actor, by |-> None] :
        v \in {w \in vs : ~\E p \in pins : p.inc = inc /\ p.ver = w /\ p.by = None}}

\* Mutant: the result of the last path decides.
PinPathLast(p) ==
    /\ p \in worker.todo /\ ~lock
    /\ LET vs == GoodBefore(p, request[worker.job].time) IN
       \/ /\ vs # {}
          /\ pins' = pins \cup NewPins(worker.job, vs, Agent)
          /\ worker' = [worker EXCEPT !.todo = @ \ {p}, !.failed = FALSE]
          /\ UNCHANGED faults
       \/ /\ (vs = {} /\ UNCHANGED faults) \/ Fault
          /\ worker' = [worker EXCEPT !.todo = @ \ {p}, !.failed = TRUE]
          /\ UNCHANGED pins
    /\ UNCHANGED <<version, lastVer, used, objects, request, thread, marking, now>>

\* pin_known_good_before; the other paths are still tried after a failure.
PinPath(p) ==
    /\ p \in worker.todo /\ ~lock
    /\ LET vs == GoodBefore(p, request[worker.job].time) IN
       \/ /\ vs # {}
          /\ pins' = pins \cup NewPins(worker.job, vs, Agent)
          /\ worker' = [worker EXCEPT !.todo = @ \ {p}]
          /\ UNCHANGED faults
       \/ /\ (vs = {} /\ UNCHANGED faults) \/ Fault
          /\ worker' = [worker EXCEPT !.todo = @ \ {p}, !.failed = TRUE]
          /\ UNCHANGED pins
    /\ UNCHANGED <<version, lastVer, used, objects, request, thread, marking, now>>

\* acknowledge_retention_job or record_retention_failure; either may fail.
Settle ==
    /\ worker.job # None /\ worker.todo = {}
    /\ LET r == request[worker.job] IN
       \/ /\ request' = [request EXCEPT ![worker.job] =
                IF worker.failed
                  THEN [r EXCEPT !.attempts = IF @ < DelayCap THEN @ + 1 ELSE @,
                                 !.wait = RetryDelay(r.attempts)]
                  ELSE [r EXCEPT !.state = "done"]]
          /\ UNCHANGED faults
       \/ Fault /\ UNCHANGED request
    /\ worker' = IdleWorker
    /\ UNCHANGED <<index, objects, thread, marking, now>>

\* The agent is killed; it is started again at once.
Kill ==
    /\ Fault
    /\ lock' = FALSE /\ doomed' = {} /\ cap' = IdleCap
    /\ worker' = IdleWorker
    /\ UNCHANGED <<index, objects, request, marking, now>>

-----------------------------------------------------------------------------
(* Operators *)

\* mark_known_good: the version is read and its object verified ...
MarkVerify(v) ==
    /\ marking = None
    /\ v \in Present /\ ~version[v].good
    /\ version[v].hash \in objects
    /\ marking' = v
    /\ UNCHANGED <<index, objects, request, thread, worker, now, faults>>

\* ... and then the row is updated, if it is still there.
Mark ==
    /\ marking # None /\ ~lock
    /\ version' = [v \in Ids |-> IF v = marking /\ v \in Present
                                   THEN [version[v] EXCEPT !.good = TRUE] ELSE version[v]]
    /\ marking' = None
    /\ UNCHANGED <<lastVer, pins, used, objects, request, thread, worker, now, faults>>

RevokeGood(v) ==
    /\ ~lock
    /\ v \in Present /\ version[v].good
    /\ version' = [version EXCEPT ![v].good = FALSE]
    /\ UNCHANGED <<lastVer, pins, used, objects, request, thread, worker, marking, now, faults>>

PinVersion(v, inc, actor) ==
    /\ ~lock
    /\ v \in Present
    /\ NewPins(inc, {v}, actor) # {}
    /\ pins' = pins \cup NewPins(inc, {v}, actor)
    /\ UNCHANGED <<version, lastVer, used, objects, request, thread, worker, marking, now, faults>>

\* record_approval
Approvable(ps, a, approver) ==
    /\ used[a] = None
    /\ \A p \in ps : p.actor # approver

Release(ps, a, approver) ==
    /\ ~lock
    /\ ps # {}
    /\ Approvable(ps, a, approver)
    /\ used' = [used EXCEPT ![a] = approver]
    /\ pins' = (pins \ ps) \cup {[p EXCEPT !.by = a] : p \in ps}
    /\ UNCHANGED <<version, lastVer, objects, request, thread, worker, marking, now, faults>>

Active(inc) == {p \in pins : p.inc = inc /\ p.by = None}

ReleaseIncident(inc, a, approver) == Release(Active(inc), a, approver)

ReleasePin(p, a, approver) == p.by = None /\ Release({p}, a, approver)

Tick ==
    /\ now < MaxTime \/ \E d \in Pending : request[d].wait > 0
    /\ now' = IF now < MaxTime THEN now + 1 ELSE now
    /\ request' = [d \in Detections |->
                     IF d \in Pending /\ request[d].wait > 0
                       THEN [request[d] EXCEPT !.wait = @ - 1] ELSE request[d]]
    /\ UNCHANGED <<index, objects, thread, worker, marking, faults>>

-----------------------------------------------------------------------------
Capture == BackupSame \/ BackupWrite \/ BackupCommit \/ PruneBegin \/ PruneObject \/ PruneCommit

OperatorStep ==
    \/ \E v \in Ids : MarkVerify(v) \/ RevokeGood(v)
    \/ Mark
    \/ \E v \in Ids, inc \in Detections, o \in Operators : PinVersion(v, inc, o)
    \/ \E a \in Approvals, o \in Actors :
          \/ \E inc \in Detections : ReleaseIncident(inc, a, o)
          \/ \E p \in pins : ReleasePin(p, a, o)

Next ==
    \/ \E p \in Paths, h \in Hashes : BackupRead(p, h)
    \/ Capture \/ CaptureFails
    \/ \E d \in Detections, paths \in SUBSET Paths : Record(d, paths)
    \/ \E d \in Detections : Take(d)
    \/ \E p \in Paths : PinPath(p)
    \/ Settle \/ Kill
    \/ OperatorStep \/ Tick

Spec == Init /\ [][Next]_vars

\* Both threads run and the clock does; a request is taken again when it is
\* due, oldest first, and the write lock is free again and again.
Fairness ==
    /\ WF_vars(Capture) /\ WF_vars(Settle) /\ WF_vars(Tick)
    /\ \A d \in Detections : SF_vars(Take(d))
    /\ \A p \in Paths : SF_vars(PinPath(p))

FairSpec == Spec /\ Fairness

-----------------------------------------------------------------------------
(* Properties *)

\* Every variable keeps its type; in particular the delay of a retry stays
\* within its limit and the pending requests within RETENTION_CAPACITY.
TypeOK ==
    /\ version \in [Ids -> Version \cup {None}] /\ lastVer \in 0 .. MaxVersions
    /\ objects \subseteq Hashes /\ pins \subseteq Pin
    /\ used \in [Approvals -> Actors \cup {None}]
    /\ request \in [Detections -> Request \cup {None}] /\ Cardinality(Pending) <= Capacity
    /\ lock \in BOOLEAN /\ doomed \subseteq Ids
    /\ cap \in [at : {"idle", "read", "written", "prune", "pruning"}, path : Paths \cup {None},
                hash : Hashes \cup {None}, time : 0 .. MaxTime]
    /\ worker \in [job : Detections \cup {None}, todo : SUBSET Paths, failed : BOOLEAN]
    /\ marking \in Ids \cup {None}
    /\ now \in 0 .. MaxTime /\ faults \in 0 .. MaxFaults

ObjectStays(v) == version[v].hash \in objects => version[v].hash \in objects'

\* A version that is pinned or known good, and its object, are never pruned,
\* whatever prune, pins, marks and kills interleave; a pin ends only with an
\* approval that was never used before, by somebody other than its actor.
HeldUntilApproved ==
    [][/\ \A p \in pins : p.by = None =>
            \/ p \in pins' /\ version'[p.ver] # None /\ ObjectStays(p.ver)
            \/ \E a \in Approvals : /\ used[a] = None /\ used'[a] \notin {None, p.actor}
                                    /\ [p EXCEPT !.by = a] \in pins'
       /\ \A v \in Present : version[v].good => version'[v] # None /\ ObjectStays(v)]_vars

\* A request counted as completed pinned something on every one of its paths,
\* however many attempts, failures and restarts it took.
CompletedIsPinned ==
    \A d \in Detections : request[d] # None /\ request[d].state = "done" =>
        \A path \in request[d].paths : \E p \in pins : p.inc = d /\ p.path = path

\* Where an accepted request finds known good versions on a path, the path
\* gets a pin in the end unless the trust in all of them is revoked, even if
\* other paths of the request never succeed.
EventuallyPinned ==
    \A d \in Detections, path \in Paths :
        (d \in Pending /\ path \in request[d].paths /\ GoodBefore(path, request[d].time) # {})
          ~> request[d] # None /\ \/ \E p \in pins : p.inc = d /\ p.path = path
                                  \/ GoodBefore(path, request[d].time) = {}
=============================================================================
