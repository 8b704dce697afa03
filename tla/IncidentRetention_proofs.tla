---------------------- MODULE IncidentRetention_proofs ----------------------
(***************************************************************************)
(* Proofs about backups and incident holds, for any number of paths,       *)
(* versions, detections, operators, approvals and faults.                  *)
(***************************************************************************)
EXTENDS IncidentRetention, FiniteSetTheorems, TLAPS

\* A captured file is named and its content known, and there is room for its row.
CapReady == cap.at \in {"read", "written"} =>
                cap.path \in Paths /\ cap.hash \in Hashes /\ lastVer < MaxVersions

\* The write lock is held exactly while the backup thread writes.
LockHeld == lock <=> cap.at \in {"written", "pruning"}

\* Row ids are given out in order.
FreshIds == \A v \in Present : v <= lastVer

\* The rows an open prune deletes are there, unreviewed and not held.
DoomedIsFree ==
    /\ doomed # {} => cap.at = "pruning"
    /\ \A v \in doomed : v \in Present /\ ~version[v].good /\ ~Pinned(v)

\* An active pin holds a version that is there, and names its path.
PinnedPresent == \A p \in pins : p.by = None => p.ver \in Present /\ version[p.ver].path = p.path

HasPin(d, path) == \E p \in pins : p.inc = d /\ p.path = path

\* The retention thread has pinned something on every path it is done with,
\* unless it has noted a failure.
WorkerPinned ==
    /\ worker.job = None => worker.todo = {}
    /\ worker.job # None =>
        /\ request[worker.job] # None /\ request[worker.job].state = "pending"
        /\ ~worker.failed => \A path \in request[worker.job].paths \ worker.todo : HasPin(worker.job, path)

Inv == /\ TypeOK /\ CapReady /\ LockHeld /\ FreshIds /\ DoomedIsFree /\ PinnedPresent
       /\ WorkerPinned /\ CompletedIsPinned

CapType == [at : {"idle", "read", "written", "prune", "pruning"}, path : Paths \cup {None},
            hash : Hashes \cup {None}, time : 0 .. MaxTime]
WorkerType == [job : Detections \cup {None}, todo : SUBSET Paths, failed : BOOLEAN]

-----------------------------------------------------------------------------
(* None is no version, no request, no detection and nobody's name.           *)
LEMMA NoneIsOther ==
    /\ None \notin Version /\ None \notin Request
    /\ None \notin Ids /\ None \notin Detections /\ None \notin Actors
BY RetentionAssumption, NoneAssumption DEF Ids, Detections, Actors

(* The delay of a retry never exceeds its limit.                             *)
LEMMA DelayBounded == \A n : RetryDelay(n) \in 0 .. MaxDelay
<1>1. MaxDelay \in 0 .. MaxDelay
    BY RetentionAssumption
<1> QED BY <1>1, Zenon DEF RetryDelay

(* What a step that updates one field of a record leaves in the others.      *)
LEMMA CapSteps ==
    ASSUME cap \in CapType
    PROVE  /\ BackupWrite => cap' = [at |-> "written", path |-> cap.path, hash |-> cap.hash, time |-> cap.time]
           /\ PruneBegin => cap' = [at |-> "pruning", path |-> cap.path, hash |-> cap.hash, time |-> cap.time]
           /\ Captured => cap' = IdleCap \/ cap' = [at |-> "prune", path |-> None, hash |-> None, time |-> 0]
<1>1. BackupWrite => cap' = [at |-> "written", path |-> cap.path, hash |-> cap.hash, time |-> cap.time]
    BY Zenon DEF BackupWrite, CapType
<1>2. PruneBegin => cap' = [at |-> "pruning", path |-> cap.path, hash |-> cap.hash, time |-> cap.time]
    BY Zenon DEF PruneBegin, CapType
<1>3. ASSUME NEW q, q = [IdleCap EXCEPT !.at = "prune"]
      PROVE  q = [at |-> "prune", path |-> None, hash |-> None, time |-> 0]
    BY <1>3, Zenon DEF IdleCap
<1>4. Captured => cap' = IdleCap \/ cap' = [at |-> "prune", path |-> None, hash |-> None, time |-> 0]
    BY <1>3, Zenon DEF Captured
<1> QED BY <1>1, <1>2, <1>4

(* Marking and revoking change nothing of a row but its mark.                *)
LEMMA MarkSteps ==
    ASSUME version \in [Ids -> Version \cup {None}]
    PROVE  /\ Mark => \A v \in Ids :
                \/ version'[v] = version[v]
                \/ /\ version[v] # None
                   /\ version'[v] = [path |-> version[v].path, hash |-> version[v].hash,
                                     time |-> version[v].time, good |-> TRUE]
           /\ \A w \in Ids : RevokeGood(w) => \A v \in Ids :
                \/ version'[v] = version[v]
                \/ /\ version[v] # None
                   /\ version'[v] = [path |-> version[v].path, hash |-> version[v].hash,
                                     time |-> version[v].time, good |-> FALSE]
<1>0. ASSUME NEW r \in Version, NEW b, NEW q, q = [r EXCEPT !.good = b]
      PROVE  q = [path |-> r.path, hash |-> r.hash, time |-> r.time, good |-> b]
    BY <1>0, Zenon DEF Version
<1>1. ASSUME Mark, NEW v \in Ids
      PROVE  \/ version'[v] = version[v]
             \/ /\ version[v] # None
                /\ version'[v] = [path |-> version[v].path, hash |-> version[v].hash,
                                  time |-> version[v].time, good |-> TRUE]
    <2>1. CASE v = marking /\ v \in Present
        <3>1. version[v] \in Version
            BY <2>1 DEF Present
        <3>2. version'[v] = [version[v] EXCEPT !.good = TRUE]
            BY <1>1, <2>1, Zenon DEF Mark
        <3>3. version[v] # None
            BY <2>1 DEF Present
        <3> QED BY <1>0, <3>1, <3>2, <3>3, Zenon
    <2>2. CASE ~(v = marking /\ v \in Present)
        BY <1>1, <2>2, Zenon DEF Mark
    <2> QED BY <2>1, <2>2
<1>2. ASSUME NEW w \in Ids, RevokeGood(w), NEW v \in Ids
      PROVE  \/ version'[v] = version[v]
             \/ /\ version[v] # None
                /\ version'[v] = [path |-> version[v].path, hash |-> version[v].hash,
                                  time |-> version[v].time, good |-> FALSE]
    <2>1. CASE v = w
        <3>1. version[v] \in Version /\ version[v] # None
            BY <1>2, <2>1 DEF Present, RevokeGood
        <3>2. version'[v] = [version[v] EXCEPT !.good = FALSE]
            BY <1>2, <2>1, Zenon DEF RevokeGood
        <3> QED BY <1>0, <3>1, <3>2, Zenon
    <2>2. CASE v # w
        BY <1>2, <2>2, Zenon DEF RevokeGood
    <2> QED BY <2>1, <2>2
<1> QED BY <1>1, <1>2

(* Every pin a release touches stays, under the approval that released it.   *)
LEMMA ReleaseSteps ==
    ASSUME pins \subseteq Pin, NEW ps \in SUBSET pins, NEW a, NEW o, Release(ps, a, o)
    PROVE  /\ \A p \in pins \ ps : p \in pins'
           /\ \A p \in ps : [inc |-> p.inc, ver |-> p.ver, path |-> p.path, actor |-> p.actor, by |-> a] \in pins'
           /\ \A q \in pins' : \/ q \in pins
                               \/ \E p \in ps : q = [inc |-> p.inc, ver |-> p.ver, path |-> p.path,
                                                     actor |-> p.actor, by |-> a]
<1>1. pins' = (pins \ ps) \cup {[p EXCEPT !.by = a] : p \in ps}
    BY Zenon DEF Release
<1>2. ASSUME NEW p \in ps, NEW q, q = [p EXCEPT !.by = a]
      PROVE  q = [inc |-> p.inc, ver |-> p.ver, path |-> p.path, actor |-> p.actor, by |-> a]
    <2>1. p \in Pin
        OBVIOUS
    <2> QED BY <1>2, <2>1, Zenon DEF Pin
<1>3. \A p \in pins \ ps : p \in pins'
    BY <1>1, Zenon
<1>4. \A p \in ps : [p EXCEPT !.by = a] \in pins'
    BY <1>1, Zenon
<1>5. \A p \in ps : [inc |-> p.inc, ver |-> p.ver, path |-> p.path, actor |-> p.actor, by |-> a] \in pins'
    BY <1>2, <1>4, Zenon
<1>6. ASSUME NEW q \in pins', q \notin pins
      PROVE  \E p \in ps : q = [inc |-> p.inc, ver |-> p.ver, path |-> p.path, actor |-> p.actor, by |-> a]
    <2>1. PICK p \in ps : q = [p EXCEPT !.by = a]
        BY <1>1, <1>6, Zenon
    <2> QED BY <1>2, <2>1, Zenon
<1> QED BY <1>3, <1>4, <1>5, <1>6, Zenon

(* What a path's turn leaves of the retention thread's state.                *)
LEMMA PinPathSteps ==
    ASSUME worker \in WorkerType, NEW p, PinPath(p)
    PROVE  \/ /\ GoodBefore(p, request[worker.job].time) # {}
              /\ pins' = pins \cup NewPins(worker.job, GoodBefore(p, request[worker.job].time), Agent)
              /\ worker' = [job |-> worker.job, todo |-> worker.todo \ {p}, failed |-> worker.failed]
           \/ /\ pins' = pins
              /\ worker' = [job |-> worker.job, todo |-> worker.todo \ {p}, failed |-> TRUE]
<1> DEFINE vs == GoodBefore(p, request[worker.job].time)
<1>1. CASE /\ vs # {}
           /\ pins' = pins \cup NewPins(worker.job, vs, Agent)
           /\ worker' = [worker EXCEPT !.todo = @ \ {p}]
    <2>1. worker' = [job |-> worker.job, todo |-> worker.todo \ {p}, failed |-> worker.failed]
        BY <1>1, Zenon DEF WorkerType
    <2> QED BY <1>1, <2>1, Zenon
<1>2. CASE /\ worker' = [worker EXCEPT !.todo = @ \ {p}, !.failed = TRUE]
           /\ UNCHANGED pins
    <2>1. worker' = [job |-> worker.job, todo |-> worker.todo \ {p}, failed |-> TRUE]
        BY <1>2, Zenon DEF WorkerType
    <2> QED BY <1>2, <2>1, Zenon
<1> QED BY <1>1, <1>2, Zenon DEF PinPath

(* A settled request is done, or waits to be tried again, or stays.          *)
LEMMA SettleSteps ==
    ASSUME request \in [Detections -> Request \cup {None}], worker \in WorkerType,
           request[worker.job] # None, Settle
    PROVE  \/ request' = request
           \/ /\ ~worker.failed
              /\ request' = [request EXCEPT ![worker.job] =
                    [state |-> "done", paths |-> request[worker.job].paths, time |-> request[worker.job].time,
                     attempts |-> request[worker.job].attempts, wait |-> request[worker.job].wait]]
           \/ request' = [request EXCEPT ![worker.job] =
                    [state |-> request[worker.job].state, paths |-> request[worker.job].paths,
                     time |-> request[worker.job].time,
                     attempts |-> IF request[worker.job].attempts < DelayCap
                                    THEN request[worker.job].attempts + 1 ELSE request[worker.job].attempts,
                     wait |-> RetryDelay(request[worker.job].attempts)]]
<1> DEFINE r == request[worker.job]
<1>1. worker.job \in Detections
    BY DEF Settle, WorkerType
<1>2. r \in Request
    BY <1>1
<1>3. ASSUME NEW q, q = [r EXCEPT !.state = "done"]
      PROVE  q = [state |-> "done", paths |-> r.paths, time |-> r.time, attempts |-> r.attempts, wait |-> r.wait]
    BY <1>2, <1>3, Zenon DEF Request
<1>4. ASSUME NEW q, q = [r EXCEPT !.attempts = IF @ < DelayCap THEN @ + 1 ELSE @, !.wait = RetryDelay(r.attempts)]
      PROVE  q = [state |-> r.state, paths |-> r.paths, time |-> r.time,
                  attempts |-> IF r.attempts < DelayCap THEN r.attempts + 1 ELSE r.attempts,
                  wait |-> RetryDelay(r.attempts)]
    BY <1>2, <1>4, Zenon DEF Request
<1>5. \/ request' = request
      \/ ~worker.failed /\ request' = [request EXCEPT ![worker.job] = [r EXCEPT !.state = "done"]]
      \/ request' = [request EXCEPT ![worker.job] =
            [r EXCEPT !.attempts = IF @ < DelayCap THEN @ + 1 ELSE @, !.wait = RetryDelay(r.attempts)]]
    <2>1. CASE worker.failed
        BY <2>1, Zenon DEF Settle
    <2>2. CASE ~worker.failed
        BY <2>2, Zenon DEF Settle
    <2> QED BY <2>1, <2>2
<1> QED BY <1>3, <1>4, <1>5, Zenon

(* Time only shortens the wait of requests.                                  *)
LEMMA TickSteps ==
    ASSUME request \in [Detections -> Request \cup {None}], Tick
    PROVE  /\ DOMAIN request' = Detections /\ request' = [d \in Detections |-> request'[d]]
           /\ \A d \in Detections :
               \/ request'[d] = request[d]
               \/ /\ request[d] # None /\ request[d].wait > 0
                  /\ request'[d] = [state |-> request[d].state, paths |-> request[d].paths,
                                    time |-> request[d].time, attempts |-> request[d].attempts,
                                    wait |-> request[d].wait - 1]
<1>0. request' = [d \in Detections |-> IF d \in Pending /\ request[d].wait > 0
                    THEN [request[d] EXCEPT !.wait = @ - 1] ELSE request[d]]
    BY Zenon DEF Tick
<1>1. DOMAIN request' = Detections /\ request' = [d \in Detections |-> request'[d]]
    BY <1>0, Zenon
<1>2. ASSUME NEW d \in Detections
      PROVE  \/ request'[d] = request[d]
             \/ /\ request[d] # None /\ request[d].wait > 0
                /\ request'[d] = [state |-> request[d].state, paths |-> request[d].paths,
                                  time |-> request[d].time, attempts |-> request[d].attempts,
                                  wait |-> request[d].wait - 1]
    <2>1. CASE d \in Pending /\ request[d].wait > 0
        <3>1. request[d] \in Request /\ request[d] # None
            BY <2>1 DEF Pending
        <3>2. request'[d] = [request[d] EXCEPT !.wait = @ - 1]
            BY <1>0, <2>1, Zenon
        <3>3. request'[d] = [state |-> request[d].state, paths |-> request[d].paths, time |-> request[d].time,
                             attempts |-> request[d].attempts, wait |-> request[d].wait - 1]
            BY <3>1, <3>2, Zenon DEF Request
        <3> QED BY <2>1, <3>1, <3>2, <3>3, Zenon
    <2>2. CASE ~(d \in Pending /\ request[d].wait > 0)
        BY <1>0, <2>2, Zenon
    <2> QED BY <2>1, <2>2
<1> QED BY <1>1, <1>2

-----------------------------------------------------------------------------
\* The parts of the type invariant: the backup thread and its rows, ...
IndexType ==
    /\ version \in [Ids -> Version \cup {None}] /\ lastVer \in 0 .. MaxVersions
    /\ objects \subseteq Hashes /\ lock \in BOOLEAN /\ doomed \subseteq Ids
    /\ cap \in CapType /\ marking \in Ids \cup {None}
    /\ now \in 0 .. MaxTime /\ faults \in 0 .. MaxFaults

\* ... the pins and approvals, ...
HoldType == pins \subseteq Pin /\ used \in [Approvals -> Actors \cup {None}]

\* ... the requests and the thread that works them off.
RequestType ==
    /\ request \in [Detections -> Request \cup {None}] /\ Cardinality(Pending) <= Capacity
    /\ worker \in WorkerType

(* The parts are the whole.                                                  *)
LEMMA TypeParts == TypeOK <=> IndexType /\ HoldType /\ RequestType
BY DEF TypeOK, IndexType, HoldType, RequestType, CapType, WorkerType

(* The steps of the two threads, the operators and the clock; both ways of   *)
(* releasing take active pins.                                               *)
LEMMA NextCases ==
    ASSUME [Next]_vars
    PROVE  \/ UNCHANGED vars
           \/ \E p \in Paths, h \in Hashes : BackupRead(p, h)
           \/ BackupSame \/ BackupWrite \/ BackupCommit
           \/ PruneBegin \/ PruneObject \/ PruneCommit \/ CaptureFails
           \/ \E d \in Detections, paths \in SUBSET Paths : Record(d, paths)
           \/ \E d \in Detections : Take(d)
           \/ \E p \in Paths : PinPath(p)
           \/ Settle \/ Kill
           \/ \E v \in Ids : MarkVerify(v)
           \/ \E v \in Ids : RevokeGood(v)
           \/ Mark
           \/ \E v \in Ids, inc \in Detections, o \in Operators : PinVersion(v, inc, o)
           \/ \E a \in Approvals, o \in Actors, ps \in SUBSET pins :
                 (\A p \in ps : p.by = None) /\ Release(ps, a, o)
           \/ Tick
<1>1. ASSUME NEW a \in Approvals, NEW o \in Actors, NEW inc \in Detections, ReleaseIncident(inc, a, o)
      PROVE  \E ps \in SUBSET pins : (\A p \in ps : p.by = None) /\ Release(ps, a, o)
    <2>1. Active(inc) \in SUBSET pins /\ \A p \in Active(inc) : p.by = None
        BY Zenon DEF Active
    <2> QED BY <1>1, <2>1, Zenon DEF ReleaseIncident
<1>2. ASSUME NEW a \in Approvals, NEW o \in Actors, NEW p \in pins, ReleasePin(p, a, o)
      PROVE  \E ps \in SUBSET pins : (\A q \in ps : q.by = None) /\ Release(ps, a, o)
    <2>1. {p} \in SUBSET pins /\ (\A q \in {p} : q.by = None) /\ Release({p}, a, o)
        BY <1>2, Zenon DEF ReleasePin
    <2> QED BY <2>1, Zenon
<1> QED BY <1>1, <1>2, Zenon DEF Next, Capture, OperatorStep

(* Nothing is backed up, held, requested or running when the first agent     *)
(* starts.                                                                   *)
LEMMA InitInv == Init => Inv
<1> SUFFICES ASSUME Init PROVE Inv
    OBVIOUS
<1>1. cap = [at |-> "idle", path |-> None, hash |-> None, time |-> 0]
    BY DEF Init, IdleCap
<1>2. worker = [job |-> None, todo |-> {}, failed |-> FALSE]
    BY DEF Init, IdleWorker
<1>3. Present = {} /\ Pending = {}
    BY DEF Init, Present, Pending
<1>a. cap \in CapType
    BY <1>1, RetentionAssumption DEF CapType
<1>b. version \in [Ids -> Version \cup {None}]
    BY DEF Init
<1>c. lastVer \in 0 .. MaxVersions /\ now \in 0 .. MaxTime /\ faults \in 0 .. MaxFaults
    BY RetentionAssumption DEF Init
<1>4. IndexType
    BY <1>a, <1>b, <1>c, Zenon DEF Init, IndexType
<1>5. HoldType
    BY DEF Init, HoldType
<1>6. RequestType
    BY <1>2, <1>3, FS_EmptySet, RetentionAssumption DEF Init, RequestType, WorkerType
<1>7. CapReady /\ LockHeld /\ FreshIds /\ DoomedIsFree /\ PinnedPresent
    BY <1>1, <1>3 DEF Init, CapReady, LockHeld, FreshIds, DoomedIsFree, PinnedPresent
<1>8. WorkerPinned /\ CompletedIsPinned
    BY <1>2 DEF Init, WorkerPinned, CompletedIsPinned
<1> QED BY <1>4, <1>5, <1>6, <1>7, <1>8, TypeParts DEF Inv

(* The backup thread keeps its types, its lock and the order of its row ids. *)
LEMMA IndexStep == Inv /\ [Next]_vars => (IndexType /\ CapReady /\ LockHeld /\ FreshIds)'
<1> DEFINE J == IndexType /\ CapReady /\ LockHeld /\ FreshIds
<1> SUFFICES ASSUME Inv, [Next]_vars PROVE J'
    OBVIOUS
<1>0. IndexType /\ HoldType /\ RequestType /\ CapReady /\ LockHeld /\ FreshIds
    BY TypeParts DEF Inv
<1>a. IdleCap = [at |-> "idle", path |-> None, hash |-> None, time |-> 0]
    BY DEF IdleCap
<1>b. 0 \in 0 .. MaxTime
    BY RetentionAssumption
<1>c. Captured => cap' \in CapType /\ cap'.at \in {"idle", "prune"}
    BY <1>0, <1>a, <1>b, CapSteps DEF IndexType, CapType
<1>d. Fault => faults' \in 0 .. MaxFaults
    BY <1>0, RetentionAssumption DEF Fault, IndexType
<1> USE <1>0 DEF IndexType, CapReady, LockHeld, FreshIds
<1>1. CASE UNCHANGED vars
    BY <1>1 DEF vars, index, thread, Present
<1>2. ASSUME NEW p \in Paths, NEW h \in Hashes, BackupRead(p, h) PROVE J'
    BY <1>2 DEF BackupRead, index, Present, CapType
<1>3. CASE BackupSame
    BY <1>3, <1>c DEF BackupSame, index, Present
<1>4. CASE BackupWrite
    <2>1. cap' = [at |-> "written", path |-> cap.path, hash |-> cap.hash, time |-> cap.time]
        BY <1>4, CapSteps
    <2>2. cap' \in CapType /\ cap'.at = "written" /\ cap'.path = cap.path /\ cap'.hash = cap.hash
        BY <2>1 DEF CapType
    <2>3. lock' = TRUE /\ objects' = objects \cup {cap.hash} /\ cap.at = "read"
        BY <1>4, Zenon DEF BackupWrite
    <2>4. UNCHANGED <<version, lastVer, doomed, marking, now, faults>>
        BY <1>4, Zenon DEF BackupWrite, index
    <2> QED BY <2>2, <2>3, <2>4 DEF Present
<1>5. CASE BackupCommit
    <2>1. cap' \in CapType /\ cap'.at \in {"idle", "prune"}
        BY <1>5, <1>c DEF BackupCommit
    <2>2. [path |-> cap.path, hash |-> cap.hash, time |-> cap.time, good |-> FALSE] \in Version
        BY <1>5 DEF BackupCommit, Version, CapType
    <2>3. lastVer' \in 0 .. MaxVersions /\ lastVer' = lastVer + 1
        BY <1>5, RetentionAssumption DEF BackupCommit
    <2>4. version' \in [Ids -> Version \cup {None}]
        BY <1>5, <2>2 DEF BackupCommit
    <2>5. FreshIds'
        <3> SUFFICES ASSUME NEW v \in Ids, version'[v] # None PROVE v <= lastVer'
            BY DEF Present
        <3>1. v = lastVer + 1 \/ version'[v] = version[v]
            BY <1>5 DEF BackupCommit
        <3> QED BY <2>3, <3>1 DEF Present, Ids
    <2> QED BY <1>5, <2>1, <2>3, <2>4, <2>5 DEF BackupCommit
<1>6. CASE PruneBegin
    <2>1. cap' = [at |-> "pruning", path |-> cap.path, hash |-> cap.hash, time |-> cap.time]
        BY <1>6, CapSteps
    <2>2. cap' \in CapType /\ cap'.at = "pruning"
        BY <2>1 DEF CapType
    <2>3. lock' = TRUE /\ doomed' = Prunable
        BY <1>6, Zenon DEF PruneBegin
    <2>4. UNCHANGED <<version, lastVer, objects, marking, now, faults>>
        BY <1>6, Zenon DEF PruneBegin, index
    <2>5. Prunable \subseteq Ids
        BY Zenon DEF Prunable, Present
    <2> QED BY <2>2, <2>3, <2>4, <2>5 DEF Present
<1>7. CASE PruneObject
    BY <1>7 DEF PruneObject, index, thread, Present
<1>8. CASE PruneCommit
    <2>1. version' \in [Ids -> Version \cup {None}]
        BY <1>8 DEF PruneCommit
    <2>2. Present' \subseteq Present
        BY <1>8 DEF PruneCommit, Present
    <2>3. faults' \in 0 .. MaxFaults
        BY <1>8, <1>d DEF PruneCommit
    <2>4. cap' \in CapType /\ cap'.at = "idle"
        BY <1>8, <1>a, <1>b DEF PruneCommit, CapType
    <2> QED BY <1>8, <2>1, <2>2, <2>3, <2>4 DEF PruneCommit
<1>9. CASE CaptureFails \/ Kill
    <2>1. cap' \in CapType /\ cap'.at = "idle"
        BY <1>9, <1>a, <1>b DEF CaptureFails, Kill, CapType
    <2> QED BY <1>9, <2>1, <1>d DEF CaptureFails, Kill, index, Present
<1>10. ASSUME \/ \E d \in Detections, paths \in SUBSET Paths : Record(d, paths)
              \/ \E d \in Detections : Take(d)
       PROVE  J'
    BY <1>10 DEF Record, Take, index, thread, Present
<1>11. ASSUME NEW p \in Paths, PinPath(p) PROVE J'
    <2>1. faults' = faults \/ Fault
        BY <1>11, Zenon DEF PinPath
    <2>2. UNCHANGED <<version, lastVer, objects, thread, marking, now>>
        BY <1>11, Zenon DEF PinPath
    <2> QED BY <1>d, <2>1, <2>2 DEF thread, Present
<1>12. CASE Settle
    <2>1. faults' = faults \/ Fault
        BY <1>12, Zenon DEF Settle
    <2>2. UNCHANGED <<index, objects, thread, marking, now>>
        BY <1>12, Zenon DEF Settle
    <2> QED BY <1>d, <2>1, <2>2 DEF thread, index, Present
<1>13. ASSUME NEW v \in Ids, MarkVerify(v) PROVE J'
    BY <1>13 DEF MarkVerify, index, thread, Present
<1>14. CASE Mark \/ \E v \in Ids : RevokeGood(v)
    <2>1. version' \in [Ids -> Version \cup {None}] /\ Present' \subseteq Present
        <3>1. version' = [v \in Ids |-> version'[v]]
            <4>1. CASE Mark
                BY <4>1, Zenon DEF Mark
            <4>2. ASSUME NEW w \in Ids, RevokeGood(w) PROVE version' = [v \in Ids |-> version'[v]]
                BY <4>2, Zenon DEF RevokeGood
            <4> QED BY <1>14, <4>1, <4>2
        <3>2. ASSUME NEW v \in Ids
              PROVE  version'[v] \in Version \cup {None} /\ (version'[v] # None => version[v] # None)
            <4>1. \/ version'[v] = version[v]
                  \/ \E b \in BOOLEAN : /\ version[v] # None
                                        /\ version'[v] = [path |-> version[v].path, hash |-> version[v].hash,
                                                          time |-> version[v].time, good |-> b]
                BY <1>14, MarkSteps
            <4>2. ASSUME NEW b \in BOOLEAN, version[v] # None
                  PROVE  [path |-> version[v].path, hash |-> version[v].hash,
                          time |-> version[v].time, good |-> b] \in Version
                <5>1. version[v] \in Version
                    BY <4>2
                <5> QED BY <5>1 DEF Version
            <4> QED BY <4>1, <4>2
        <3>3. \A v \in Ids : version'[v] \in Version \cup {None}
            BY <3>2
        <3>4. version' \in [Ids -> Version \cup {None}]
            BY <3>1, <3>3, Zenon
        <3> QED BY <3>2, <3>4 DEF Present
    <2>2. UNCHANGED <<lastVer, objects, thread, now, faults>> /\ marking' \in {marking, None}
        BY <1>14, Zenon DEF Mark, RevokeGood
    <2> QED BY <2>1, <2>2 DEF thread
<1>15. ASSUME NEW v \in Ids, NEW inc \in Detections, NEW o \in Operators, PinVersion(v, inc, o) PROVE J'
    BY <1>15 DEF PinVersion, thread, Present
<1>16. ASSUME NEW a, NEW o, NEW ps, Release(ps, a, o) PROVE J'
    <2>1. UNCHANGED <<version, lastVer, objects, thread, marking, now, faults>>
        BY <1>16, Zenon DEF Release
    <2> QED BY <2>1 DEF thread, Present
<1>17. CASE Tick
    <2>1. UNCHANGED <<index, objects, thread, marking, faults>> /\ now' = IF now < MaxTime THEN now + 1 ELSE now
        BY <1>17, Zenon DEF Tick
    <2>2. now' \in 0 .. MaxTime
        BY <2>1, RetentionAssumption
    <2> QED BY <2>1, <2>2 DEF thread, index, Present
<1> QED BY <1>1, <1>2, <1>3, <1>4, <1>5, <1>6, <1>7, <1>8, <1>9, <1>10, <1>11, <1>12,
           <1>13, <1>14, <1>15, <1>16, <1>17, NextCases, Zenon

(* What is newly pinned is there, under its own path; nothing else is added. *)
LEMMA NewPinsAreGood ==
    ASSUME IndexType, NEW inc \in Detections, NEW vs \in SUBSET Present, NEW actor \in Actors,
           NEW q \in NewPins(inc, vs, actor)
    PROVE  /\ q \in Pin /\ q.inc = inc /\ q.by = None
           /\ q.ver \in Present /\ version[q.ver].path = q.path
<1>1. PICK v \in vs : q = [inc |-> inc, ver |-> v, path |-> version[v].path, actor |-> actor, by |-> None]
    BY Zenon DEF NewPins
<1>2. v \in Ids /\ version[v] \in Version
    BY <1>1 DEF IndexType, Present
<1>3. version[v].path \in Paths
    BY <1>2 DEF Version
<1> QED BY <1>1, <1>2, <1>3 DEF Pin

(* Pins keep their type, active pins hold versions that are there, and what   *)
(* an open prune deletes is never held: prune and pinning exclude each other.  *)
LEMMA HoldStep == Inv /\ [Next]_vars => (HoldType /\ DoomedIsFree /\ PinnedPresent)'
<1> DEFINE J == HoldType /\ DoomedIsFree /\ PinnedPresent
<1> SUFFICES ASSUME Inv, [Next]_vars PROVE J'
    OBVIOUS
<1>0. /\ IndexType /\ HoldType /\ RequestType /\ CapReady /\ LockHeld /\ FreshIds
      /\ DoomedIsFree /\ PinnedPresent /\ WorkerPinned
    BY TypeParts DEF Inv
<1>a. ~lock => doomed = {}
    BY <1>0 DEF LockHeld, DoomedIsFree
<1>b. CASE UNCHANGED <<version, pins, used, doomed, cap>>
    BY <1>0, <1>b DEF HoldType, DoomedIsFree, PinnedPresent, Present, Pinned
<1>c. ASSUME UNCHANGED <<version, pins, used>>, doomed' = {}
      PROVE  J'
    BY <1>0, <1>c DEF HoldType, DoomedIsFree, PinnedPresent, Present
<1>d. ASSUME UNCHANGED <<version, used, doomed>>, ~lock,
             NEW inc \in Detections, NEW vs \in SUBSET Present, NEW actor \in Actors,
             pins' = pins \cup NewPins(inc, vs, actor)
      PROVE  J'
    <2>1. Present' = Present /\ doomed' = {}
        BY <1>a, <1>d DEF Present
    <2>2. ASSUME NEW q \in pins'
          PROVE  q \in Pin /\ (q.by = None => q.ver \in Present /\ version[q.ver].path = q.path)
        <3>1. CASE q \in pins
            BY <1>0, <3>1 DEF HoldType, PinnedPresent
        <3>2. CASE q \in NewPins(inc, vs, actor)
            BY <1>0, <1>d, <3>2, NewPinsAreGood
        <3> QED BY <1>d, <3>1, <3>2
    <2> QED BY <1>0, <1>d, <2>1, <2>2 DEF HoldType, DoomedIsFree, PinnedPresent
<1>1. ASSUME \/ UNCHANGED vars
             \/ \E p \in Paths, h \in Hashes : BackupRead(p, h)
             \/ PruneObject
             \/ \E d \in Detections, paths \in SUBSET Paths : Record(d, paths)
             \/ \E d \in Detections : Take(d)
             \/ Settle
             \/ \E v \in Ids : MarkVerify(v)
             \/ Tick
      PROVE  J'
    <2>1. UNCHANGED <<index, doomed>>
        BY <1>1, Zenon DEF vars, BackupRead, PruneObject, Record, Take, Settle, MarkVerify, Tick, thread
    <2>2. cap' = cap \/ doomed = {}
        <3>1. CASE \E p \in Paths, h \in Hashes : BackupRead(p, h)
            BY <1>0, <3>1 DEF BackupRead, DoomedIsFree
        <3> QED BY <1>1, <3>1, Zenon DEF vars, PruneObject, Record, Take, Settle, MarkVerify, Tick, thread
    <2> QED BY <1>b, <1>c, <2>1, <2>2 DEF index
<1>2. CASE BackupSame \/ BackupWrite
    <2>1. UNCHANGED <<index, doomed>> /\ ~lock
        BY <1>2, Zenon DEF BackupSame, BackupWrite
    <2> QED BY <1>a, <1>c, <2>1 DEF index
<1>3. CASE BackupCommit
    <2>1. doomed' = {}
        BY <1>0, <1>3 DEF BackupCommit, DoomedIsFree
    <2>2. UNCHANGED <<pins, used>>
        BY <1>3, Zenon DEF BackupCommit
    <2>3. \A v \in Present : v \in Present' /\ version'[v] = version[v]
        <3> SUFFICES ASSUME NEW v \in Present PROVE v \in Present' /\ version'[v] = version[v]
            OBVIOUS
        <3>1. v # lastVer + 1
            BY <1>0 DEF IndexType, FreshIds, Present, Ids
        <3> QED BY <1>3, <3>1, <1>0 DEF BackupCommit, Present, IndexType
    <2>4. PinnedPresent'
        BY <1>0, <2>2, <2>3 DEF PinnedPresent
    <2> QED BY <1>0, <2>1, <2>2, <2>4 DEF HoldType, DoomedIsFree
<1>4. CASE PruneBegin
    <2>1. UNCHANGED index /\ doomed' = Prunable
        BY <1>4, Zenon DEF PruneBegin
    <2>2. cap'.at = "pruning"
        BY <1>0, <1>4, CapSteps DEF IndexType
    <2>3. \A v \in Prunable : v \in Present /\ ~version[v].good /\ ~Pinned(v)
        BY Zenon DEF Prunable
    <2> QED BY <1>0, <2>1, <2>2, <2>3 DEF index, HoldType, DoomedIsFree, PinnedPresent, Present, Pinned
<1>5. CASE PruneCommit
    <2>1. doomed' = {} /\ UNCHANGED <<pins, used>>
        BY <1>5, Zenon DEF PruneCommit
    <2>2. \A v \in Present \ doomed : v \in Present' /\ version'[v] = version[v]
        BY <1>5 DEF PruneCommit, Present
    <2>3. \A p \in pins : p.by = None => p.ver \notin doomed
        BY <1>0 DEF DoomedIsFree, Pinned
    <2>4. PinnedPresent'
        BY <1>0, <2>1, <2>2, <2>3 DEF PinnedPresent
    <2> QED BY <1>0, <2>1, <2>4 DEF HoldType, DoomedIsFree
<1>6. CASE CaptureFails \/ Kill
    BY <1>6, <1>c DEF CaptureFails, Kill, index
<1>7. ASSUME NEW p \in Paths, PinPath(p) PROVE J'
    <2>1. UNCHANGED <<version, used, doomed, cap>> /\ ~lock /\ p \in worker.todo
        BY <1>7, Zenon DEF PinPath, thread
    <2>2. worker.job \in Detections
        BY <1>0, <2>1 DEF WorkerPinned, RequestType, WorkerType
    <2>3. CASE pins' = pins
        BY <1>b, <2>1, <2>3
    <2>4. CASE pins' = pins \cup NewPins(worker.job, GoodBefore(p, request[worker.job].time), Agent)
        <3>1. GoodBefore(p, request[worker.job].time) \in SUBSET Present /\ Agent \in Actors
            BY DEF GoodBefore, Actors
        <3> QED BY <1>d, <2>1, <2>2, <2>4, <3>1
    <2> QED BY <1>0, <1>7, <2>3, <2>4, PinPathSteps DEF RequestType
<1>8. CASE Mark \/ \E v \in Ids : RevokeGood(v)
    <2>1. UNCHANGED <<pins, used, doomed>> /\ doomed = {}
        <3>1. UNCHANGED <<pins, used, thread>> /\ ~lock
            BY <1>8, Zenon DEF Mark, RevokeGood
        <3> QED BY <3>1, <1>a DEF thread
    <2>2. \A v \in Present : v \in Present' /\ version'[v].path = version[v].path
        <3> SUFFICES ASSUME NEW v \in Ids, version[v] # None
                     PROVE  version'[v] # None /\ version'[v].path = version[v].path
            BY DEF Present
        <3>1. \/ version'[v] = version[v]
              \/ \E b \in BOOLEAN : version'[v] = [path |-> version[v].path, hash |-> version[v].hash,
                                                   time |-> version[v].time, good |-> b]
            BY <1>0, <1>8, MarkSteps DEF IndexType
        <3>2. ASSUME NEW b \in BOOLEAN
              PROVE  [path |-> version[v].path, hash |-> version[v].hash,
                      time |-> version[v].time, good |-> b] \in Version
            <4>1. version[v] \in Version
                BY <1>0 DEF IndexType
            <4>2. version[v].path \in Paths /\ version[v].hash \in Hashes /\ version[v].time \in 0 .. MaxTime
                BY <4>1 DEF Version
            <4> QED BY <4>2, Zenon DEF Version
        <3>3. ASSUME NEW b \in BOOLEAN,
                     version'[v] = [path |-> version[v].path, hash |-> version[v].hash,
                                    time |-> version[v].time, good |-> b]
              PROVE  version'[v] # None /\ version'[v].path = version[v].path
            <4>1. version'[v] \in Version
                BY <3>2, <3>3, Zenon
            <4>2. version'[v].path = version[v].path
                BY <3>3
            <4> QED BY <4>1, <4>2, NoneIsOther, Zenon
        <3> QED BY <3>1, <3>3, Zenon
    <2>3. PinnedPresent'
        BY <1>0, <2>1, <2>2 DEF PinnedPresent
    <2> QED BY <1>0, <2>1, <2>3 DEF HoldType, DoomedIsFree
<1>9. ASSUME NEW v \in Ids, NEW inc \in Detections, NEW o \in Operators, PinVersion(v, inc, o) PROVE J'
    <2>1. UNCHANGED <<version, used, doomed>> /\ ~lock /\ pins' = pins \cup NewPins(inc, {v}, o)
        BY <1>9, Zenon DEF PinVersion, thread
    <2>2. {v} \in SUBSET Present /\ o \in Actors
        BY <1>9 DEF PinVersion, Actors
    <2> QED BY <1>d, <2>1, <2>2
<1>10. ASSUME NEW a \in Approvals, NEW o \in Actors, NEW ps \in SUBSET pins,
              \A p \in ps : p.by = None, Release(ps, a, o)
       PROVE  J'
    <2>1. UNCHANGED <<version, doomed>> /\ ~lock /\ used' = [used EXCEPT ![a] = o]
        BY <1>10, Zenon DEF Release, thread
    <2>2. Present' = Present /\ doomed' = {}
        BY <1>a, <2>1 DEF Present
    <2>3. ASSUME NEW q \in pins'
          PROVE  q \in Pin /\ (q.by = None => q.ver \in Present /\ version[q.ver].path = q.path)
        <3>1. CASE q \in pins
            BY <1>0, <3>1 DEF HoldType, PinnedPresent
        <3>2. CASE \E p \in ps : q = [inc |-> p.inc, ver |-> p.ver, path |-> p.path,
                                      actor |-> p.actor, by |-> a]
            <4>1. PICK p \in ps : q = [inc |-> p.inc, ver |-> p.ver, path |-> p.path,
                                       actor |-> p.actor, by |-> a]
                BY <3>2
            <4>2. p \in Pin /\ p.ver \in Present /\ version[p.ver].path = p.path
                BY <1>0, <1>10 DEF HoldType, PinnedPresent
            <4>3. q \in Pin /\ q.ver = p.ver /\ q.path = p.path
                <5>1. p.inc \in Detections /\ p.ver \in Ids /\ p.path \in Paths /\ p.actor \in Actors
                    BY <4>2 DEF Pin
                <5>2. a \in Approvals \cup {None}
                    OBVIOUS
                <5> QED BY <4>1, <5>1, <5>2, Zenon DEF Pin
            <4> QED BY <4>2, <4>3, Zenon
        <3>3. pins \subseteq Pin
            BY <1>0 DEF HoldType
        <3>4. q \in pins \/ \E p \in ps : q = [inc |-> p.inc, ver |-> p.ver, path |-> p.path,
                                               actor |-> p.actor, by |-> a]
            BY <1>10, <3>3, ReleaseSteps
        <3> QED BY <3>1, <3>2, <3>4, Zenon
    <2>4. used' \in [Approvals -> Actors \cup {None}]
        BY <1>0, <2>1 DEF HoldType
    <2> QED BY <2>1, <2>2, <2>3, <2>4 DEF HoldType, DoomedIsFree, PinnedPresent
<1> QED BY <1>1, <1>2, <1>3, <1>4, <1>5, <1>6, <1>7, <1>8, <1>9, <1>10, NextCases, Zenon

(* The pending requests are a finite set.                                    *)
LEMMA PendingFinite == IsFiniteSet(Pending) /\ IsFiniteSet(Pending')
<1>1. IsFiniteSet(Detections)
    BY FS_Interval, RetentionAssumption DEF Detections
<1>2. Pending \subseteq Detections /\ Pending' \subseteq Detections
    BY DEF Pending
<1> QED BY <1>1, <1>2, FS_Subset

(* No step takes the last pin of an incident's path away.                    *)
LEMMA PinsKept ==
    ASSUME Inv, [Next]_vars, NEW d, NEW path, HasPin(d, path)
    PROVE  HasPin(d, path)'
<1>0. pins \subseteq Pin /\ worker \in WorkerType
    BY TypeParts DEF Inv, HoldType, RequestType
<1>1. PICK p \in pins : p.inc = d /\ p.path = path
    BY DEF HasPin
<1> SUFFICES \E q \in pins' : q.inc = p.inc /\ q.path = p.path
    BY <1>1 DEF HasPin
<1>2. CASE pins \subseteq pins'
    BY <1>2
<1>3. ASSUME NEW r \in Paths, PinPath(r) PROVE pins \subseteq pins'
    BY <1>0, <1>3, PinPathSteps
<1>4. ASSUME NEW v \in Ids, NEW inc \in Detections, NEW o \in Operators, PinVersion(v, inc, o)
      PROVE  pins \subseteq pins'
    BY <1>4, Zenon DEF PinVersion
<1>5. ASSUME NEW a \in Approvals, NEW o \in Actors, NEW ps \in SUBSET pins, Release(ps, a, o)
      PROVE  \E q \in pins' : q.inc = p.inc /\ q.path = p.path
    <2>1. CASE p \in ps
        <3> DEFINE q == [inc |-> p.inc, ver |-> p.ver, path |-> p.path, actor |-> p.actor, by |-> a]
        <3>1. q \in pins'
            BY <1>0, <1>5, <2>1, ReleaseSteps
        <3>2. q.inc = p.inc /\ q.path = p.path
            OBVIOUS
        <3> QED BY <3>1, <3>2, Zenon
    <2>2. CASE p \notin ps
        BY <1>0, <1>5, <2>2, ReleaseSteps
    <2> QED BY <2>1, <2>2
<1>6. ASSUME \/ UNCHANGED vars
             \/ \E r \in Paths, h \in Hashes : BackupRead(r, h)
             \/ BackupSame \/ BackupWrite \/ BackupCommit
             \/ PruneBegin \/ PruneObject \/ PruneCommit \/ CaptureFails
             \/ \E e \in Detections, paths \in SUBSET Paths : Record(e, paths)
             \/ \E e \in Detections : Take(e)
             \/ Settle \/ Kill
             \/ \E v \in Ids : MarkVerify(v)
             \/ \E v \in Ids : RevokeGood(v)
             \/ Mark \/ Tick
      PROVE  pins' = pins
    BY <1>6, Zenon DEF vars, index, BackupRead, BackupSame, BackupWrite, BackupCommit, PruneBegin,
        PruneObject, PruneCommit, CaptureFails, Record, Take, Settle, Kill, MarkVerify, RevokeGood, Mark, Tick
<1>7. pins \subseteq pins' \/ \E a \in Approvals, o \in Actors, ps \in SUBSET pins : Release(ps, a, o)
    BY <1>3, <1>4, <1>6, NextCases, Zenon
<1> QED BY <1>2, <1>5, <1>7

(* A path's turn that is not a failure leaves a pin of the incident on it,   *)
(* made now or by somebody before.                                           *)
LEMMA TurnPins ==
    ASSUME Inv, NEW path, NEW d \in Detections, NEW time, GoodBefore(path, time) # {},
           pins' = pins \cup NewPins(d, GoodBefore(path, time), Agent)
    PROVE  HasPin(d, path)'
<1>1. PICK v \in GoodBefore(path, time) : TRUE
    OBVIOUS
<1>2. v \in Present /\ version[v].path = path
    BY <1>1 DEF GoodBefore
<1>3. CASE \E p \in pins : p.inc = d /\ p.ver = v /\ p.by = None
    <2>1. PICK p \in pins : p.inc = d /\ p.ver = v /\ p.by = None
        BY <1>3
    <2>2. p.path = path
        BY <1>2, <2>1 DEF Inv, PinnedPresent
    <2> QED BY <2>1, <2>2 DEF HasPin
<1>4. CASE ~\E p \in pins : p.inc = d /\ p.ver = v /\ p.by = None
    <2> DEFINE q == [inc |-> d, ver |-> v, path |-> version[v].path, actor |-> Agent, by |-> None]
    <2>1. q \in NewPins(d, GoodBefore(path, time), Agent)
        BY <1>1, <1>4, Zenon DEF NewPins
    <2>2. q.inc = d /\ q.path = path
        BY <1>2
    <2> QED BY <2>1, <2>2, Zenon DEF HasPin
<1> QED BY <1>3, <1>4

(* A request the retention thread completes was pinned on every path, and one *)
(* that was recorded twice over or killed in between is worked off afresh.    *)
LEMMA RequestStep == Inv /\ [Next]_vars => (RequestType /\ WorkerPinned /\ CompletedIsPinned)'
<1> DEFINE J == RequestType /\ WorkerPinned /\ CompletedIsPinned
<1> SUFFICES ASSUME Inv, [Next]_vars PROVE J'
    OBVIOUS
<1>0. IndexType /\ HoldType /\ RequestType /\ WorkerPinned /\ CompletedIsPinned
    BY TypeParts DEF Inv
<1>a. \A d, path : HasPin(d, path) => HasPin(d, path)'
    BY PinsKept
<1>b. ASSUME Pending' \subseteq Pending PROVE Cardinality(Pending') <= Capacity
    <2>1. Cardinality(Pending') <= Cardinality(Pending)
        BY <1>b, PendingFinite, FS_Subset
    <2>2. Cardinality(Pending') \in Nat /\ Cardinality(Pending) \in Nat
        BY PendingFinite, FS_CardinalityType
    <2> QED BY <1>0, <2>1, <2>2, RetentionAssumption DEF RequestType
<1>c. request \in [Detections -> Request \cup {None}] /\ worker \in WorkerType
    BY <1>0 DEF RequestType
<1>d. IdleWorker \in WorkerType /\ IdleWorker.job = None /\ IdleWorker.todo = {}
    BY DEF IdleWorker, WorkerType
\* The requests and the thread are as they were.
<1>e. CASE UNCHANGED <<request, worker>>
    <2>1. Pending' = Pending
        BY <1>e DEF Pending
    <2>2. WorkerPinned'
        BY <1>0, <1>a, <1>e DEF WorkerPinned
    <2>3. CompletedIsPinned'
        BY <1>0, <1>a, <1>e DEF CompletedIsPinned, HasPin
    <2> QED BY <1>0, <1>e, <2>1, <2>2, <2>3 DEF RequestType
\* The thread begins anew.
<1>f. ASSUME request' = request, worker' = IdleWorker PROVE J'
    <2>1. Pending' = Pending
        BY <1>f DEF Pending
    <2>2. WorkerPinned'
        BY <1>d, <1>f DEF WorkerPinned
    <2>3. CompletedIsPinned'
        BY <1>0, <1>a, <1>f DEF CompletedIsPinned, HasPin
    <2> QED BY <1>0, <1>d, <1>f, <2>1, <2>2, <2>3 DEF RequestType
<1>1. ASSUME \/ UNCHANGED vars
             \/ \E p \in Paths, h \in Hashes : BackupRead(p, h)
             \/ BackupSame \/ BackupWrite \/ BackupCommit
             \/ PruneBegin \/ PruneObject \/ PruneCommit \/ CaptureFails
             \/ \E v \in Ids : MarkVerify(v)
             \/ \E v \in Ids : RevokeGood(v)
             \/ Mark
             \/ \E v \in Ids, inc \in Detections, o \in Operators : PinVersion(v, inc, o)
             \/ \E a \in Approvals, o \in Actors, ps \in SUBSET pins : Release(ps, a, o)
      PROVE  J'
    <2>1. UNCHANGED <<request, worker>>
        BY <1>1, Zenon DEF vars, BackupRead, BackupSame, BackupWrite, BackupCommit, PruneBegin,
            PruneObject, PruneCommit, CaptureFails, MarkVerify, RevokeGood, Mark, PinVersion, Release
    <2> QED BY <1>e, <2>1
<1>2. ASSUME NEW d \in Detections, NEW paths \in SUBSET Paths, Record(d, paths) PROVE J'
    <2> DEFINE room == Cardinality(Pending) < Capacity
               new == [state |-> IF room THEN "pending" ELSE "overflow",
                       paths |-> paths, time |-> now, attempts |-> 0, wait |-> 0]
    <2>1. request[d] = None /\ request' = [request EXCEPT ![d] = new] /\ worker' = worker
        BY <1>2, Zenon DEF Record
    <2>2. new.state = IF room THEN "pending" ELSE "overflow"
        OBVIOUS
    <2>3. new \in Request
        BY <1>0, RetentionAssumption DEF Request, IndexType
    <2> HIDE DEF new
    <2>4. request' \in [Detections -> Request \cup {None}]
        BY <1>c, <2>1, <2>3
    <2>5. request'[d] = new /\ new # None /\ \A e \in Detections : e # d => request'[e] = request[e]
        BY <1>c, <2>1, <2>3, NoneIsOther
    <2>6. Cardinality(Pending') <= Capacity
        <3>1. CASE room
            <4>1. Pending' = Pending \cup {d}
                BY <2>2, <2>5, <3>1 DEF Pending
            <4>2. d \notin Pending
                BY <2>1 DEF Pending
            <4>3. Cardinality(Pending') = Cardinality(Pending) + 1
                BY <4>1, <4>2, PendingFinite, FS_AddElement
            <4>4. Cardinality(Pending) \in Nat
                BY PendingFinite, FS_CardinalityType
            <4> QED BY <3>1, <4>3, <4>4, RetentionAssumption
        <3>2. CASE ~room
            <4>1. Pending' = Pending
                BY <2>1, <2>2, <2>5, <3>2 DEF Pending
            <4> QED BY <1>b, <4>1
        <3> QED BY <3>1, <3>2
    <2>7. WorkerPinned'
        <3>1. worker.job # None => worker.job # d /\ worker.job \in Detections
            BY <1>0, <1>c, <2>1 DEF WorkerPinned, WorkerType
        <3> QED BY <1>0, <1>a, <2>1, <2>5, <3>1 DEF WorkerPinned
    <2>8. CompletedIsPinned'
        <3>1. new.state # "done"
            BY <2>2
        <3> QED BY <1>0, <1>a, <2>5, <3>1 DEF CompletedIsPinned, HasPin
    <2> QED BY <1>c, <2>1, <2>4, <2>6, <2>7, <2>8 DEF RequestType
<1>3. ASSUME NEW d \in Detections, Take(d) PROVE J'
    <2>1. d \in Pending /\ request' = request
        BY <1>3, Zenon DEF Take, Due
    <2>2. worker' = [job |-> d, todo |-> request[d].paths, failed |-> FALSE]
        BY <1>3, Zenon DEF Take
    <2>3. request[d] # None /\ request[d].state = "pending" /\ request[d] \in Request
        BY <1>c, <2>1 DEF Pending
    <2>4. worker' \in WorkerType
        BY <2>2, <2>3 DEF WorkerType, Request
    <2>5. WorkerPinned'
        BY <2>1, <2>2, <2>3, NoneIsOther DEF WorkerPinned
    <2>6. CompletedIsPinned'
        BY <1>0, <1>a, <2>1 DEF CompletedIsPinned, HasPin
    <2>7. Pending' = Pending
        BY <2>1 DEF Pending
    <2> QED BY <1>0, <2>1, <2>4, <2>5, <2>6, <2>7 DEF RequestType
<1>4. ASSUME NEW p \in Paths, PinPath(p) PROVE J'
    <2>1. request' = request /\ p \in worker.todo
        BY <1>4, Zenon DEF PinPath
    <2>2. PICK job \in Detections : job = worker.job /\ job # None
        BY <1>0, <1>c, <2>1 DEF WorkerPinned, WorkerType
    <2> DEFINE vs == GoodBefore(p, request[job].time)
    <2>3. \/ /\ vs # {} /\ pins' = pins \cup NewPins(job, vs, Agent)
             /\ worker' = [job |-> job, todo |-> worker.todo \ {p}, failed |-> worker.failed]
          \/ worker' = [job |-> job, todo |-> worker.todo \ {p}, failed |-> TRUE]
        BY <1>c, <1>4, <2>2, PinPathSteps, Zenon
    <2>4. ~worker'.failed => ~worker.failed /\ HasPin(job, p)'
        <3>1. CASE /\ vs # {} /\ pins' = pins \cup NewPins(job, vs, Agent)
                   /\ worker' = [job |-> job, todo |-> worker.todo \ {p}, failed |-> worker.failed]
            <4>1. HasPin(job, p)'
                <5>1. PICK time : time = request[job].time
                    OBVIOUS
                <5> QED BY <3>1, <5>1, TurnPins
            <4> QED BY <3>1, <4>1
        <3>2. CASE worker' = [job |-> job, todo |-> worker.todo \ {p}, failed |-> TRUE]
            BY <3>2
        <3> QED BY <2>3, <3>1, <3>2
    <2>a. worker'.job = job /\ worker'.todo = worker.todo \ {p}
        BY <2>3
    <2>b. worker' \in WorkerType
        <3>1. worker.failed \in BOOLEAN /\ worker.todo \ {p} \in SUBSET Paths
            BY <1>c DEF WorkerType
        <3>2. \A f \in BOOLEAN : [job |-> job, todo |-> worker.todo \ {p}, failed |-> f] \in WorkerType
            BY <3>1, Zenon DEF WorkerType
        <3> QED BY <2>3, <3>1, <3>2, Zenon
    <2>5. WorkerPinned'
        <3>1. ASSUME ~worker'.failed, NEW path \in request[job].paths, path \notin worker'.todo
              PROVE  HasPin(job, path)'
            <4>1. CASE path = p
                BY <2>4, <3>1, <4>1
            <4>2. CASE path # p
                <5>1. HasPin(job, path)
                    BY <1>0, <2>2, <2>4, <2>a, <3>1, <4>2 DEF WorkerPinned
                <5> QED BY <1>a, <5>1
            <4> QED BY <4>1, <4>2
        <3> QED BY <1>0, <2>1, <2>2, <2>a, <3>1 DEF WorkerPinned
    <2>6. CompletedIsPinned'
        BY <1>0, <1>a, <2>1 DEF CompletedIsPinned, HasPin
    <2>7. Pending' = Pending
        BY <2>1 DEF Pending
    <2> QED BY <1>0, <2>1, <2>b, <2>5, <2>6, <2>7 DEF RequestType
<1>5. CASE Settle
    <2> DEFINE r == request[worker.job]
    <2>1. worker.job # None /\ worker.todo = {} /\ worker' = IdleWorker
        BY <1>5, Zenon DEF Settle
    <2>2. r # None /\ r.state = "pending" /\ worker.job \in Detections /\ r \in Request
        BY <1>0, <1>c, <2>1 DEF WorkerPinned, WorkerType
    <2>3. CASE request' = request
        BY <1>f, <2>1, <2>3
    <2>4. ASSUME NEW n \in Request, n.paths = r.paths,
                 request' = [request EXCEPT ![worker.job] = n],
                 n.state = "done" => ~worker.failed
          PROVE  J'
        <3>1. request' \in [Detections -> Request \cup {None}]
            BY <1>c, <2>4
        <3>2. request'[worker.job] = n /\ \A d \in Detections : d # worker.job => request'[d] = request[d]
            BY <1>c, <2>2, <2>4
        <3>3. Pending' \subseteq Pending
            BY <2>2, <3>2 DEF Pending
        <3>4. CompletedIsPinned'
            <4> SUFFICES ASSUME NEW d \in Detections, request'[d] # None, request'[d].state = "done",
                                NEW path \in request'[d].paths
                         PROVE  HasPin(d, path)'
                BY DEF CompletedIsPinned, HasPin
            <4>1. CASE d = worker.job
                <5>1. HasPin(d, path)
                    BY <1>0, <2>1, <2>4, <3>2, <4>1 DEF WorkerPinned
                <5> QED BY <1>a, <5>1
            <4>2. CASE d # worker.job
                <5>1. HasPin(d, path)
                    BY <1>0, <3>2, <4>2 DEF CompletedIsPinned, HasPin
                <5> QED BY <1>a, <5>1
            <4> QED BY <4>1, <4>2
        <3>5. WorkerPinned'
            BY <1>d, <2>1 DEF WorkerPinned
        <3> QED BY <1>b, <1>d, <2>1, <3>1, <3>3, <3>4, <3>5 DEF RequestType
    <2>5. CASE /\ ~worker.failed
               /\ request' = [request EXCEPT ![worker.job] =
                    [state |-> "done", paths |-> r.paths, time |-> r.time,
                     attempts |-> r.attempts, wait |-> r.wait]]
        <3> DEFINE n == [state |-> "done", paths |-> r.paths, time |-> r.time,
                         attempts |-> r.attempts, wait |-> r.wait]
        <3>1. n \in Request /\ n.paths = r.paths
            BY <2>2 DEF Request
        <3>2. request' = [request EXCEPT ![worker.job] = n] /\ ~worker.failed
            BY <2>5
        <3> HIDE DEF n
        <3> QED BY <2>4, <3>1, <3>2
    <2>6. CASE request' = [request EXCEPT ![worker.job] =
                    [state |-> r.state, paths |-> r.paths, time |-> r.time,
                     attempts |-> IF r.attempts < DelayCap THEN r.attempts + 1 ELSE r.attempts,
                     wait |-> RetryDelay(r.attempts)]]
        <3> DEFINE m == IF r.attempts < DelayCap THEN r.attempts + 1 ELSE r.attempts
                   w == RetryDelay(r.attempts)
                   n == [state |-> r.state, paths |-> r.paths, time |-> r.time, attempts |-> m, wait |-> w]
        <3>1. w \in 0 .. MaxDelay
            BY DelayBounded
        <3>2. m \in 0 .. DelayCap
            BY <2>2, RetentionAssumption DEF Request
        <3>3. request' = [request EXCEPT ![worker.job] = n]
            BY <2>6
        <3> HIDE DEF m, w
        <3>4. n \in Request /\ n.paths = r.paths /\ n.state = "pending"
            BY <2>2, <3>1, <3>2 DEF Request
        <3> HIDE DEF n
        <3> QED BY <2>4, <3>3, <3>4
    <2> QED BY <1>c, <1>5, <2>2, <2>3, <2>5, <2>6, SettleSteps, Zenon
<1>6. CASE Kill
    BY <1>f, <1>6 DEF Kill
<1>7. CASE Tick
    <2>1. worker' = worker /\ request' = [d \in Detections |-> request'[d]]
        BY <1>7, <1>c, TickSteps, Zenon DEF Tick
    <2>2. ASSUME NEW d \in Detections
          PROVE  /\ request'[d] \in Request \cup {None}
                 /\ request'[d] = None <=> request[d] = None
                 /\ request[d] # None => /\ request'[d].state = request[d].state
                                         /\ request'[d].paths = request[d].paths
        <3>1. CASE request'[d] = request[d]
            BY <1>c, <3>1
        <3>2. CASE /\ request[d] # None /\ request[d].wait > 0
                   /\ request'[d] = [state |-> request[d].state, paths |-> request[d].paths,
                                     time |-> request[d].time, attempts |-> request[d].attempts,
                                     wait |-> request[d].wait - 1]
            <4>1. request[d] \in Request
                BY <1>c, <3>2
            <4>2. request[d].wait - 1 \in 0 .. MaxDelay
                BY <3>2, <4>1, RetentionAssumption DEF Request
            <4>3. request'[d] \in Request
                BY <3>2, <4>1, <4>2 DEF Request
            <4> QED BY <3>2, <4>3, NoneIsOther
        <3> QED BY <1>c, <1>7, <3>1, <3>2, TickSteps
    <2>3. \A d \in Detections : request'[d] \in Request \cup {None}
        BY <2>2
    <2>4. request' \in [Detections -> Request \cup {None}]
        BY <2>1, <2>3, Zenon
    <2>5. Pending' \subseteq Pending
        BY <2>2 DEF Pending
    <2>6. WorkerPinned'
        <3>1. worker.job # None => worker.job \in Detections
            BY <1>c DEF WorkerType
        <3> QED BY <1>0, <1>a, <2>1, <2>2, <3>1 DEF WorkerPinned
    <2>7. CompletedIsPinned'
        BY <1>0, <1>a, <2>2 DEF CompletedIsPinned, HasPin
    <2> QED BY <1>b, <1>c, <2>1, <2>4, <2>5, <2>6, <2>7 DEF RequestType
<1> QED BY <1>1, <1>2, <1>3, <1>4, <1>5, <1>6, <1>7, NextCases, Zenon

-----------------------------------------------------------------------------
(* The invariant is kept by every step of the two threads, the operators, the *)
(* clock and the faults, and holds of every behaviour.                        *)
THEOREM RetentionInvariant == Spec => []Inv
<1>0. (IndexType /\ HoldType /\ RequestType)' => TypeOK'
    BY DEF TypeOK, IndexType, HoldType, RequestType, CapType, WorkerType
<1>1. Inv /\ [Next]_vars => Inv'
    BY <1>0, IndexStep, HoldStep, RequestStep DEF Inv
<1> QED BY InitInv, <1>1, PTL DEF Spec

(* Rows, pins, approvals, requests and both threads keep their types: retries *)
(* wait no longer than the limit and the queue never exceeds its capacity.    *)
THEOREM RetentionTypes == Spec => []TypeOK
<1>1. Inv => TypeOK
    BY DEF Inv
<1> QED BY <1>1, RetentionInvariant, PTL

(* A request counted as completed has a pin on every one of its paths.        *)
THEOREM CompletedStayPinned == Spec => []CompletedIsPinned
<1>1. Inv => CompletedIsPinned
    BY DEF Inv
<1> QED BY <1>1, RetentionInvariant, PTL

(* No step removes a version that was there when it is known good or pinned,  *)
(* nor its object.                                                            *)
LEMMA KeptStep ==
    ASSUME Inv, [Next]_vars, NEW v \in Present, version[v].good \/ Pinned(v)
    PROVE  version'[v] # None /\ ObjectStays(v)
<1>0. IndexType /\ DoomedIsFree /\ FreshIds
    BY TypeParts DEF Inv
<1>a. v \in Ids /\ version[v] # None /\ v \notin doomed
    BY <1>0 DEF DoomedIsFree, Present
<1>1. CASE BackupCommit
    <2>1. v # lastVer + 1
        BY <1>0 DEF IndexType, FreshIds, Present, Ids
    <2>2. version'[v] = version[v] /\ objects' = objects
        BY <1>0, <1>1, <1>a, <2>1 DEF BackupCommit, IndexType
    <2> QED BY <1>a, <2>2 DEF ObjectStays
<1>2. CASE BackupWrite
    BY <1>2, <1>a, Zenon DEF BackupWrite, index, ObjectStays
<1>3. CASE PruneObject
    <2>1. version[v].hash \in Live
        BY <1>a DEF Live
    <2>2. PICK h \in objects \ Live : objects' = objects \ {h}
        BY <1>3, Zenon DEF PruneObject
    <2>3. version' = version
        BY <1>3, Zenon DEF PruneObject, index
    <2> QED BY <1>a, <2>1, <2>2, <2>3 DEF ObjectStays
<1>4. CASE PruneCommit
    <2>1. version'[v] = version[v] /\ objects' = objects
        BY <1>4, <1>a DEF PruneCommit
    <2> QED BY <1>a, <2>1 DEF ObjectStays
<1>5. CASE Mark \/ \E w \in Ids : RevokeGood(w)
    <2>1. \/ version'[v] = version[v]
          \/ \E b \in BOOLEAN : version'[v] = [path |-> version[v].path, hash |-> version[v].hash,
                                               time |-> version[v].time, good |-> b]
        BY <1>0, <1>5, <1>a, MarkSteps DEF IndexType
    <2>2. ASSUME NEW b \in BOOLEAN
          PROVE  [path |-> version[v].path, hash |-> version[v].hash,
                  time |-> version[v].time, good |-> b] \in Version
        <3>1. version[v].path \in Paths /\ version[v].hash \in Hashes /\ version[v].time \in 0 .. MaxTime
            <4>1. version[v] \in Version
                BY <1>0, <1>a DEF IndexType
            <4> QED BY <4>1 DEF Version
        <3> QED BY <3>1, Zenon DEF Version
    <2>3. version'[v] # None
        BY <1>a, <2>1, <2>2, NoneIsOther, Zenon
    <2>4. objects' = objects
        BY <1>5, Zenon DEF Mark, RevokeGood
    <2> QED BY <2>3, <2>4, Zenon DEF ObjectStays
<1>6. ASSUME \/ UNCHANGED vars
             \/ \E p \in Paths, h \in Hashes : BackupRead(p, h)
             \/ BackupSame \/ PruneBegin \/ CaptureFails
             \/ \E d \in Detections, paths \in SUBSET Paths : Record(d, paths)
             \/ \E d \in Detections : Take(d)
             \/ \E p \in Paths : PinPath(p)
             \/ Settle \/ Kill
             \/ \E w \in Ids : MarkVerify(w)
             \/ \E w \in Ids, inc \in Detections, o \in Operators : PinVersion(w, inc, o)
             \/ \E a \in Approvals, o \in Actors, ps \in SUBSET pins : Release(ps, a, o)
             \/ Tick
      PROVE  version' = version /\ objects' = objects
    BY <1>6, Zenon DEF vars, index, BackupRead, BackupSame, PruneBegin, CaptureFails, Record, Take,
        PinPath, Settle, Kill, MarkVerify, PinVersion, Release, Tick
<1>7. CASE version' = version /\ objects' = objects
    BY <1>7, <1>a, Zenon DEF ObjectStays
<1> QED BY <1>1, <1>2, <1>3, <1>4, <1>5, <1>6, <1>7, NextCases, Zenon

(* An active pin stays as it is, unless a fresh approval of somebody other    *)
(* than its actor releases it.                                                *)
LEMMA PinEnds ==
    ASSUME Inv, [Next]_vars, NEW p \in pins, p.by = None
    PROVE  \/ p \in pins'
           \/ \E a \in Approvals : /\ used[a] = None /\ used'[a] \notin {None, p.actor}
                                   /\ [p EXCEPT !.by = a] \in pins'
<1>0. worker \in WorkerType /\ used \in [Approvals -> Actors \cup {None}]
    BY TypeParts DEF Inv, HoldType, RequestType
<1>1. ASSUME NEW r \in Paths, PinPath(r) PROVE p \in pins'
    BY <1>0, <1>1, PinPathSteps
<1>2. ASSUME NEW v \in Ids, NEW inc \in Detections, NEW o \in Operators, PinVersion(v, inc, o)
      PROVE  p \in pins'
    BY <1>2, Zenon DEF PinVersion
<1>3. ASSUME NEW a \in Approvals, NEW o \in Actors, NEW ps \in SUBSET pins, Release(ps, a, o), p \in ps
      PROVE  used[a] = None /\ used'[a] \notin {None, p.actor} /\ [p EXCEPT !.by = a] \in pins'
    <2>1. used[a] = None /\ p.actor # o
        BY <1>3, Zenon DEF Release, Approvable
    <2>2. used' = [used EXCEPT ![a] = o]
        BY <1>3, Zenon DEF Release
    <2>3. used'[a] = o /\ o # None
        BY <1>0, <2>2, NoneIsOther
    <2>4. [p EXCEPT !.by = a] \in pins'
        BY <1>3, Zenon DEF Release
    <2> QED BY <2>1, <2>3, <2>4, Zenon
<1>4. ASSUME NEW a \in Approvals, NEW o \in Actors, NEW ps \in SUBSET pins, Release(ps, a, o), p \notin ps
      PROVE  p \in pins'
    BY <1>4, Zenon DEF Release
<1>5. ASSUME \/ UNCHANGED vars
             \/ \E r \in Paths, h \in Hashes : BackupRead(r, h)
             \/ BackupSame \/ BackupWrite \/ BackupCommit
             \/ PruneBegin \/ PruneObject \/ PruneCommit \/ CaptureFails
             \/ \E e \in Detections, paths \in SUBSET Paths : Record(e, paths)
             \/ \E e \in Detections : Take(e)
             \/ Settle \/ Kill
             \/ \E v \in Ids : MarkVerify(v)
             \/ \E v \in Ids : RevokeGood(v)
             \/ Mark \/ Tick
      PROVE  p \in pins'
    BY <1>5, Zenon DEF vars, index, BackupRead, BackupSame, BackupWrite, BackupCommit, PruneBegin,
        PruneObject, PruneCommit, CaptureFails, Record, Take, Settle, Kill, MarkVerify, RevokeGood, Mark, Tick
<1> QED BY <1>1, <1>2, <1>3, <1>4, <1>5, NextCases, Zenon

(* What is pinned or known good, and its object, outlive every prune, and a   *)
(* pin ends only with a fresh approval by somebody other than its actor.      *)
THEOREM HeldAlways == Spec => HeldUntilApproved
<1> DEFINE Held ==
       /\ \A p \in pins : p.by = None =>
            \/ p \in pins' /\ version'[p.ver] # None /\ ObjectStays(p.ver)
            \/ \E a \in Approvals : /\ used[a] = None /\ used'[a] \notin {None, p.actor}
                                    /\ [p EXCEPT !.by = a] \in pins'
       /\ \A v \in Present : version[v].good => version'[v] # None /\ ObjectStays(v)
<1>1. Inv /\ [Next]_vars => [Held]_vars
    <2> SUFFICES ASSUME Inv, [Next]_vars PROVE Held
        BY Zenon
    <2>1. ASSUME NEW p \in pins, p.by = None
          PROVE  \/ p \in pins' /\ version'[p.ver] # None /\ ObjectStays(p.ver)
                 \/ \E a \in Approvals : /\ used[a] = None /\ used'[a] \notin {None, p.actor}
                                         /\ [p EXCEPT !.by = a] \in pins'
        <3>1. PICK v \in Present : v = p.ver
            BY <2>1 DEF Inv, PinnedPresent
        <3>2. Pinned(v)
            BY <2>1, <3>1 DEF Pinned
        <3>3. version'[v] # None /\ ObjectStays(v)
            BY <3>2, KeptStep
        <3>4. version'[p.ver] # None /\ ObjectStays(p.ver)
            BY <3>1, <3>3 DEF ObjectStays
        <3> QED BY <2>1, <3>4, PinEnds, Zenon
    <2>2. \A v \in Present : version[v].good => version'[v] # None /\ ObjectStays(v)
        BY KeptStep
    <2> QED BY <2>1, <2>2, Zenon
<1> QED BY <1>1, RetentionInvariant, PTL DEF Spec, HeldUntilApproved
=============================================================================
