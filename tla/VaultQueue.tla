----------------------------- MODULE VaultQueue -----------------------------
(***************************************************************************)
(* The persistent upload queue of the vault client: crates/argos-vault,    *)
(* src/queue.rs.                                                           *)
(*                                                                         *)
(* Producers register files (enqueue), workers send them (drain_once) and  *)
(* both are processes of their own that share one directory: a lock file   *)
(* (flock), the snapshot bodies under objects/, and a SQLite database with *)
(* the tables queue_meta, queue_items (active) and receipt_archive.  Every *)
(* change of the directory happens under the lock, but a process may be    *)
(* killed between any two steps, snapshots and rows are not one            *)
(* transaction, and the network is used without the lock, under a lease.   *)
(*                                                                         *)
(* Time is relative: row[i].retry and row[i].left count down to 0 when the *)
(* clock advances (next_retry_ms <= now, lease_expires_ms <= now).         *)
(* An object is what the code compares by kind and SHA-256; two objects    *)
(* with one Hash are the same bytes under two kinds.  A lease token is 128 *)
(* random bits: any value that no row and no worker still holds.           *)
(***************************************************************************)
EXTENDS Naturals, FiniteSets

CONSTANTS
    Ids,         \* queue ids (random, never drawn twice)
    Objects,     \* kind + sha256
    Hash,        \* [Objects -> digest]
    Size,        \* [Objects -> bytes]
    Targets,     \* server address + agent + pinned key
    Workers,     \* processes running drain_once
    Producers,   \* processes running enqueue
    Config,      \* [Workers \cup Producers -> Targets], each one's settings
    Limits,      \* the --max-items / --max-bytes pairs producers call with
    MaxArchive,  \* MAX_ARCHIVE_ITEMS
    LeaseTicks,  \* request timeout plus LEASE_GRACE_MS
    RetryBase,   \* first retry delay
    RetryCap,    \* longest retry delay
    Tokens,      \* lease tokens
    MaxAttempts, \* bound: where attempts saturates (u32::MAX in the code)
    MaxFaults,   \* bound: crashes, lost answers, timeouts, damaged bodies
    None, NoFile, Damaged

VARIABLES
    store,    \* the directory: "empty", "partial" (interrupted set-up), "ready"
    lock,     \* holder of queue.lock
    meta,     \* queue_meta: pinned target and the limits last stored
    active,   \* ids of queue_items
    archive,  \* ids of receipt_archive
    row,      \* the columns of an item
    file,     \* objects/<id>.bin
    used,     \* ids ever drawn
    pc,       \* where each process is
    arg,      \* the call a producer is serving
    lease,    \* the lease a worker believes it holds
    stored,   \* what each vault server holds
    wire,     \* requests a worker gave up on that may still arrive
    faults

vars == <<store, lock, meta, active, archive, row, file, used, pc, arg, lease,
          stored, wire, faults>>
disk == <<store, meta, active, archive, row, file, used>>
remote == <<stored, wire>>

Procs == Workers \cup Producers

ASSUME ProcsAssumption == Workers \cap Producers = {} /\ None \notin Procs
ASSUME ConfigAssumption == Config \in [Procs -> Targets] /\ None \notin Targets
ASSUME ObjectAssumption ==
    /\ Size \in [Objects -> Nat]
    /\ {None, NoFile, Damaged} \cap Objects = {} /\ NoFile # Damaged
ASSUME BoundAssumption ==
    /\ MaxArchive \in Nat /\ LeaseTicks \in Nat \ {0}
    /\ MaxAttempts \in Nat \ {0} /\ MaxFaults \in Nat /\ None \notin Tokens
    /\ RetryBase \in Nat \ {0} /\ RetryCap \in Nat \ {0}
ASSUME IdsAssumption == IsFiniteSet(Ids) /\ None \notin Ids
ASSUME LimitsAssumption == Limits \subseteq [items : Nat \ {0}, bytes : Nat \ {0}]

Row == [obj : Objects \cup {None}, born : Nat, attempts : 0 .. MaxAttempts, retry : 0 .. RetryCap,
        token : Tokens \cup {None}, left : 0 .. LeaseTicks]

ProducerPc == {"idle", "fresh", "initwait", "init", "wait", "opened", "written", "ok"}
WorkerPc == {"idle", "claiming", "leased", "sending", "answered", "acked",
             "failed", "finish_ok", "finish_err", "unlink"}

-----------------------------------------------------------------------------
(* Helpers *)

Lesser(a, b) == IF a < b THEN a ELSE b

Shift == <<1, 2, 4, 8, 16, 32, 64, 128, 256, 512, 1024>>

\* retry_delay: the base doubled per attempt, ten times at most, then capped.
RetryDelay(n) == Lesser(RetryBase * Shift[Lesser(n - 1, 10) + 1], RetryCap)

\* A row with its attempts, retry time and lease replaced.
Scheduled(r, n, delay, t, time) ==
    [obj |-> r.obj, born |-> r.born, attempts |-> n, retry |-> delay, token |-> t, left |-> time]

Registered == active \cup archive

RowOf(o) == {i \in Registered : row[i].obj = o}

\* The bytes of the active items, as the size of a set.
PendingBytes == Cardinality(UNION {{i} \X (1 .. Size[row[i].obj]) : i \in active})

Goto(p, next) == pc' = [pc EXCEPT ![p] = next]

Unlock(p, next) == lock' = None /\ Goto(p, next)

NoLease == [id |-> None, token |-> None]

NoArg == [obj |-> None, limits |-> [items |-> 0, bytes |-> 0], id |-> None]

\* The id that the producer's call returns.
Draw(p, i) == arg' = [arg EXCEPT ![p] = [obj |-> arg[p].obj, limits |-> arg[p].limits, id |-> i]]

\* The call of a producer, or the attempt of a worker, is over.
Forget(p) == arg' = [arg EXCEPT ![p] = NoArg] /\ UNCHANGED lease
Release(w) == lease' = [lease EXCEPT ![w] = NoLease] /\ UNCHANGED arg

Fault == faults < MaxFaults /\ faults' = faults + 1

\* cleanup: every body that no active row names is removed.
Cleaned == [i \in Ids |-> IF i \in active THEN file[i] ELSE NoFile]

\* open_mutating on a complete directory: lock, validate, clean up.
OpenMutating(p, next) ==
    /\ lock = None
    /\ store = "ready"
    /\ lock' = p
    /\ file' = Cleaned
    /\ Goto(p, next)
    /\ UNCHANGED <<store, meta, active, archive, row, used, arg, lease, remote, faults>>

-----------------------------------------------------------------------------
Init ==
    /\ store = "empty" /\ lock = None
    /\ meta = [target |-> None, limits |-> NoArg.limits]
    /\ active = {} /\ archive = {} /\ used = {}
    /\ row = [i \in Ids |-> [obj |-> None, born |-> 0, attempts |-> 0, retry |-> 0,
                             token |-> None, left |-> 0]]
    /\ file = [i \in Ids |-> NoFile]
    /\ pc = [p \in Procs |-> "idle"]
    /\ arg = [p \in Producers |-> NoArg]
    /\ lease = [w \in Workers |-> NoLease]
    /\ stored = {} /\ wire = {} /\ faults = 0

-----------------------------------------------------------------------------
(* enqueue *)

\* enqueue is called; open_mutating looks whether the directory is empty
\* before it takes the lock.
EnqueueCall(p, o, lim) ==
    /\ pc[p] \in {"idle", "ok"}
    /\ arg' = [arg EXCEPT ![p] = [obj |-> o, limits |-> lim, id |-> None]]
    /\ Goto(p, IF store = "empty" THEN "fresh" ELSE "wait")
    /\ UNCHANGED <<disk, lock, lease, remote, faults>>

\* The lock file is created exclusively: of two processes that both saw an
\* empty directory, one is refused.
CreateLockFile(p) ==
    /\ pc[p] = "fresh"
    /\ \/ /\ store = "empty"
          /\ store' = "partial"
          /\ Goto(p, "initwait")
          /\ UNCHANGED <<arg, lease>>
       \/ /\ store # "empty"
          /\ Goto(p, "idle")
          /\ Forget(p)
          /\ UNCHANGED store
    /\ UNCHANGED <<lock, meta, active, archive, row, file, used, remote, faults>>

\* flock, held from here to the end of the call.
InitLock(p) ==
    /\ pc[p] = "initwait"
    /\ lock = None
    /\ lock' = p
    /\ Goto(p, "init")
    /\ UNCHANGED <<disk, arg, lease, remote, faults>>

\* The schema and queue_meta are committed in one transaction.
InitCommit(p) ==
    /\ pc[p] = "init"
    /\ store' = "ready"
    /\ meta' = [target |-> Config[p], limits |-> arg[p].limits]
    /\ Goto(p, "opened")
    /\ UNCHANGED <<lock, active, archive, row, file, used, arg, lease, remote, faults>>

EnqueueOpen(p) == pc[p] = "wait" /\ OpenMutating(p, "opened")

\* The call fails before it has changed anything: the directory is only
\* partly set up, or the lock stayed taken for two seconds.
EnqueueRefused(p) ==
    /\ pc[p] = "wait"
    /\ store = "partial" \/ lock # None
    /\ Goto(p, "idle")
    /\ Forget(p)
    /\ UNCHANGED <<disk, lock, remote, faults>>

\* Mutant: the pending body is not hashed again.
EnqueueDuplicateUnread(p) ==
    /\ pc[p] = "opened"
    /\ Config[p] = meta.target
    /\ \E i \in RowOf(arg[p].obj) : Draw(p, i)
    /\ Unlock(p, "ok")
    /\ UNCHANGED <<disk, lease, remote, faults>>

\* The same (kind, sha256) is already registered: the old row is returned,
\* after its body was hashed again if it is still pending.
EnqueueDuplicate(p) ==
    /\ pc[p] = "opened"
    /\ Config[p] = meta.target
    /\ \E i \in RowOf(arg[p].obj) :
          /\ i \in archive \/ file[i] = arg[p].obj
          /\ Draw(p, i)
    /\ Unlock(p, "ok")
    /\ UNCHANGED <<disk, lease, remote, faults>>

\* Mutant: a sent object is no duplicate.
AdmissibleAgain(o, lim) ==
    /\ \A i \in active : row[i].obj # o
    /\ Cardinality(active) + Cardinality(archive) < MaxArchive
    /\ Cardinality(active) < lim.items
    /\ PendingBytes + Size[o] <= lim.bytes

\* A new object fits: a slot of the archive is left for it, and the caller's
\* limits hold with it.
Admissible(o, lim) ==
    /\ RowOf(o) = {}
    /\ Cardinality(active) + Cardinality(archive) < MaxArchive
    /\ Cardinality(active) < lim.items
    /\ PendingBytes + Size[o] <= lim.bytes

EnqueueReject(p) ==
    /\ pc[p] = "opened"
    /\ \/ Config[p] # meta.target
       \/ \E i \in RowOf(arg[p].obj) : i \in active /\ file[i] # arg[p].obj
       \/ RowOf(arg[p].obj) = {} /\ ~Admissible(arg[p].obj, arg[p].limits)
       \/ Ids = used  \* bound: the ids of the instance are used up
    /\ Unlock(p, "idle")
    /\ Forget(p)
    /\ UNCHANGED <<disk, remote, faults>>

\* The body is synced to disk first ...
EnqueueWrite(p) ==
    /\ pc[p] = "opened"
    /\ Config[p] = meta.target
    /\ Admissible(arg[p].obj, arg[p].limits)
    /\ \E i \in Ids \ used :
          /\ file' = [file EXCEPT ![i] = arg[p].obj]
          /\ used' = used \cup {i}
          /\ Draw(p, i)
    /\ Goto(p, "written")
    /\ UNCHANGED <<store, lock, meta, active, archive, row, lease, remote, faults>>

NewRow(o) == [obj |-> o, born |-> Cardinality(used), attempts |-> 0, retry |-> 0,
              token |-> None, left |-> 0]

\* Mutant: the caller's limits are not stored.
EnqueueCommitUnlimited(p) ==
    /\ pc[p] = "written"
    /\ active' = active \cup {arg[p].id}
    /\ row' = [row EXCEPT ![arg[p].id] = NewRow(arg[p].obj)]
    /\ \/ Unlock(p, "ok") /\ UNCHANGED faults
       \/ Unlock(p, "idle") /\ Fault
    /\ UNCHANGED <<store, meta, archive, file, used, arg, lease, remote>>

\* ... then the row and the caller's limits are committed.  COMMIT may report
\* an error although it took effect.
EnqueueCommit(p) ==
    /\ pc[p] = "written"
    /\ active' = active \cup {arg[p].id}
    /\ row' = [row EXCEPT ![arg[p].id] = NewRow(arg[p].obj)]
    /\ meta' = [target |-> meta.target, limits |-> arg[p].limits]
    /\ \/ Unlock(p, "ok") /\ UNCHANGED faults
       \/ Unlock(p, "idle") /\ Fault
    /\ UNCHANGED <<store, archive, file, used, arg, lease, remote>>

-----------------------------------------------------------------------------
(* drain_once: claim, send, finish *)

ClaimOpen(w) == pc[w] = "idle" /\ OpenMutating(w, "claiming")

\* Mutants: a running lease does not protect its item; an abandoned lease
\* never expires.
DueWhileLeased(i) == i \in active /\ row[i].retry = 0
DueUnclaimed(i) == i \in active /\ row[i].retry = 0 /\ row[i].token = None

Due(i) == i \in active /\ row[i].retry = 0 /\ row[i].left = 0

FreshTokens == Tokens \ ({row[i].token : i \in Ids} \cup {lease[w].token : w \in Workers})

\* claim: the oldest due item gets a fresh token, a lease and, in advance,
\* the retry time that counts if the worker never reports back.
Claim(w) ==
    /\ pc[w] = "claiming"
    /\ Config[w] = meta.target
    /\ \E i \in Ids, t \in FreshTokens :
          /\ Due(i) /\ \A j \in Ids : Due(j) => row[i].born <= row[j].born
          /\ LET n == Lesser(row[i].attempts + 1, MaxAttempts) IN
                row' = [row EXCEPT ![i] = Scheduled(row[i], n, RetryDelay(n), t, LeaseTicks)]
          /\ lease' = [lease EXCEPT ![w] = [id |-> i, token |-> t]]
    /\ Unlock(w, "leased")
    /\ UNCHANGED <<store, meta, active, archive, file, used, arg, remote, faults>>

\* Nothing is due, or the worker is configured for another target.
ClaimNothing(w) ==
    /\ pc[w] = "claiming"
    /\ Config[w] # meta.target \/ \A i \in Ids : ~Due(i)
    /\ Unlock(w, "idle")
    /\ UNCHANGED <<disk, arg, lease, remote, faults>>

Item(w) == row[lease[w].id].obj

\* The body is read without the lock and hashed; a body that is gone or
\* changed is reported as queue_local.
ReadSnapshot(w) ==
    /\ pc[w] = "leased"
    /\ Goto(w, IF file[lease[w].id] = Item(w) THEN "sending" ELSE "failed")
    /\ UNCHANGED <<disk, lock, arg, lease, remote, faults>>

\* The server keeps one kind per digest and refuses another one.
Conflict(t, o) == \E e \in stored : e[1] = t /\ e[2] # o /\ Hash[e[2]] = Hash[o]

\* The request reaches the server (server.rs put): stored, or stored before.
Serve(w) ==
    /\ pc[w] = "sending"
    /\ ~Conflict(Config[w], Item(w))
    /\ stored' = stored \cup {<<Config[w], Item(w)>>}
    /\ Goto(w, "answered")
    /\ UNCHANGED <<disk, lock, arg, lease, wire, faults>>

ServeConflict(w) ==
    /\ pc[w] = "sending"
    /\ Conflict(Config[w], Item(w))
    /\ Goto(w, "failed")
    /\ UNCHANGED <<disk, lock, arg, lease, remote, faults>>

\* No answer in time: the request may still be under way.
RequestTimeout(w) ==
    /\ pc[w] = "sending"
    /\ Fault
    /\ wire' = wire \cup {<<Config[w], Item(w)>>}
    /\ Goto(w, "failed")
    /\ UNCHANGED <<disk, lock, arg, lease, stored>>

ServeLate(r) ==
    /\ r \in wire
    /\ wire' = wire \ {r}
    /\ stored' = IF Conflict(r[1], r[2]) THEN stored ELSE stored \cup {r}
    /\ UNCHANGED <<disk, lock, pc, arg, lease, faults>>

\* The signed receipt arrives and matches the item ...
ReceiveReceipt(w) ==
    /\ pc[w] = "answered"
    /\ Goto(w, "acked")
    /\ UNCHANGED <<disk, lock, arg, lease, remote, faults>>

\* ... or it is lost, or does not verify.
LoseReceipt(w) ==
    /\ pc[w] = "answered"
    /\ Fault
    /\ Goto(w, "failed")
    /\ UNCHANGED <<disk, lock, arg, lease, remote>>

FinishOpen(w) ==
    \/ pc[w] = "acked" /\ OpenMutating(w, "finish_ok")
    \/ pc[w] = "failed" /\ OpenMutating(w, "finish_err")

\* The lock stayed taken: drain_once ends with an error, the lease stays.
FinishRefused(w) ==
    /\ pc[w] \in {"acked", "failed"}
    /\ lock # None
    /\ Fault
    /\ Goto(w, "idle")
    /\ Release(w)
    /\ UNCHANGED <<disk, lock, remote>>

Owns(w) == /\ lease[w].id \in active
           /\ row[lease[w].id].token = lease[w].token
           /\ row[lease[w].id].left > 0

\* Mutant: a worker whose lease is gone still removes the body.
FinishStaleUnlinks(w) ==
    /\ pc[w] \in {"finish_ok", "finish_err"}
    /\ ~Owns(w)
    /\ file' = [file EXCEPT ![lease[w].id] = NoFile]
    /\ Unlock(w, "idle")
    /\ Release(w)
    /\ UNCHANGED <<store, meta, active, archive, row, used, remote, faults>>

\* lease_expired_or_replaced: the late result is dropped.
FinishStale(w) ==
    /\ pc[w] \in {"finish_ok", "finish_err"}
    /\ ~Owns(w)
    /\ Unlock(w, "idle")
    /\ Release(w)
    /\ UNCHANGED <<disk, remote, faults>>

\* One transaction moves the row to the archive ...
FinishSent(w) ==
    /\ pc[w] = "finish_ok"
    /\ Owns(w)
    /\ archive' = archive \cup {lease[w].id}
    /\ active' = active \ {lease[w].id}
    /\ row' = [row EXCEPT ![lease[w].id] = Scheduled(@, @.attempts, 0, None, 0)]
    /\ Goto(w, "unlink")
    /\ UNCHANGED <<store, lock, meta, file, used, arg, lease, remote, faults>>

\* ... and only then is the body removed.
FinishUnlink(w) ==
    /\ pc[w] = "unlink"
    /\ file' = [file EXCEPT ![lease[w].id] = NoFile]
    /\ Unlock(w, "idle")
    /\ Release(w)
    /\ UNCHANGED <<store, meta, active, archive, row, used, remote, faults>>

FinishFailed(w) ==
    /\ pc[w] = "finish_err"
    /\ Owns(w)
    /\ row' = [row EXCEPT ![lease[w].id] =
                  Scheduled(@, @.attempts, RetryDelay(@.attempts), None, 0)]
    /\ Unlock(w, "idle")
    /\ Release(w)
    /\ UNCHANGED <<store, meta, active, archive, file, used, remote, faults>>

-----------------------------------------------------------------------------
(* The environment *)

\* A process is killed: its transaction is rolled back, its flock released,
\* what it wrote to objects/ stays.
Crash(p) ==
    /\ pc[p] \notin {"idle", "ok"}
    /\ Fault
    /\ lock' = IF lock = p THEN None ELSE lock
    /\ Goto(p, "idle")
    /\ IF p \in Workers THEN Release(p) ELSE Forget(p)
    /\ UNCHANGED <<disk, remote>>

\* A body on disk goes bad, while no call is between reading it and returning.
Damage(i) ==
    /\ lock = None
    /\ file[i] \in Objects
    /\ Fault
    /\ file' = [file EXCEPT ![i] = Damaged]
    /\ UNCHANGED <<store, lock, meta, active, archive, row, used, pc, arg, lease, remote>>

Less(n) == IF n = 0 THEN 0 ELSE n - 1

Countdown(r) == Scheduled(r, r.attempts, Less(r.retry), r.token, Less(r.left))

\* The lease of a worker that is still busy runs out: it was too slow.
Overrun == \E w \in Workers : Owns(w) /\ row[lease[w].id].left = 1

Tick ==
    /\ row' = [i \in Ids |-> IF i \in active THEN Countdown(row[i]) ELSE row[i]]
    /\ row' # row
    /\ IF Overrun THEN Fault ELSE UNCHANGED faults
    /\ UNCHANGED <<store, lock, meta, active, archive, file, used, pc, arg, lease, remote>>

-----------------------------------------------------------------------------
EnqueueStep(p) ==
    \/ CreateLockFile(p) \/ InitLock(p) \/ InitCommit(p) \/ EnqueueOpen(p)
    \/ EnqueueDuplicate(p) \/ EnqueueReject(p) \/ EnqueueWrite(p) \/ EnqueueCommit(p)
    \/ EnqueueRefused(p)

DrainStep(w) ==
    \/ ClaimOpen(w) \/ Claim(w) \/ ClaimNothing(w)
    \/ ReadSnapshot(w) \/ Serve(w) \/ ServeConflict(w) \/ ReceiveReceipt(w)
    \/ FinishOpen(w) \/ FinishStale(w) \/ FinishSent(w) \/ FinishUnlink(w) \/ FinishFailed(w)

DrainFault(w) == RequestTimeout(w) \/ LoseReceipt(w) \/ FinishRefused(w)

Next ==
    \/ \E p \in Producers, o \in Objects, lim \in Limits : EnqueueCall(p, o, lim)
    \/ \E p \in Producers : EnqueueStep(p)
    \/ \E w \in Workers : DrainStep(w) \/ DrainFault(w)
    \/ \E r \in Targets \X Objects : ServeLate(r)
    \/ \E p \in Procs : Crash(p)
    \/ \E i \in Ids : Damage(i)
    \/ Tick

Spec == Init /\ [][Next]_vars

\* The lock is released by whoever holds it, time passes, the scheduled drain
\* keeps running, and nobody is refused the flock for ever.
Fairness ==
    /\ \A p \in Producers : WF_vars(EnqueueStep(p))
    /\ \A w \in Workers : WF_vars(DrainStep(w)) /\ SF_vars(ClaimOpen(w)) /\ SF_vars(FinishOpen(w))
    /\ WF_vars(Tick)

FairSpec == Spec /\ Fairness

-----------------------------------------------------------------------------
(* Properties *)

\* Every variable keeps its type: retry times stay under their cap, leases under
\* their length, and a process is only where its kind of call can be.
TypeOK ==
    /\ store \in {"empty", "partial", "ready"}
    /\ lock \in Procs \cup {None}
    /\ meta \in [target : Targets \cup {None}, limits : [items : Nat, bytes : Nat]]
    /\ active \subseteq Ids /\ archive \subseteq Ids /\ used \subseteq Ids
    /\ row \in [Ids -> Row]
    /\ file \in [Ids -> Objects \cup {NoFile, Damaged}]
    /\ pc \in [Procs -> ProducerPc \cup WorkerPc]
    /\ \A p \in Producers : pc[p] \in ProducerPc
    /\ \A w \in Workers : pc[w] \in WorkerPc
    /\ arg \in [Producers -> [obj : Objects \cup {None}, limits : [items : Nat, bytes : Nat],
                              id : Ids \cup {None}]]
    /\ lease \in [Workers -> [id : Ids \cup {None}, token : Tokens \cup {None}]]
    /\ stored \subseteq Targets \X Objects /\ wire \subseteq Targets \X Objects
    /\ faults \in 0 .. MaxFaults

\* What a process carries fits where it is.
CallOK ==
    /\ \A p \in Producers :
          /\ pc[p] \notin {"idle", "ok"} => arg[p].obj \in Objects /\ arg[p].limits \in Limits
          /\ pc[p] = "written" => arg[p].id \in Ids
    /\ \A w \in Workers :
          IF pc[w] \in {"idle", "claiming"} THEN lease[w] = NoLease
                                            ELSE /\ lease[w].id \in Ids /\ lease[w].token \in Tokens
                                                 /\ Item(w) \in Objects
    /\ \A i \in Registered : row[i].obj \in Objects
    /\ \A i \in Ids : row[i].token \in Tokens => row[i].attempts > 0

\* A pending item always has its body on disk, at worst a damaged one: neither
\* cleanup nor a late unlink ever removes the body of an item not yet sent.
PendingHasBody == \A i \in active : file[i] \in {row[i].obj, Damaged}

\* The archive never claims more than the server has: every archived item is
\* held by the pinned target, whatever was lost, late or repeated.
SentIsStored == \A i \in archive : <<meta.target, row[i].obj>> \in stored

\* One (kind, sha256) has at most one row over both tables, and no id is in
\* both: what validate_database counts as duplicates.
OneRowPerObject ==
    /\ active \cap archive = {}
    /\ \A i, j \in Registered : row[i].obj = row[j].obj => i = j

\* The archive slot of every active item is reserved when it is registered.
ArchiveSlotReserved == Cardinality(active) + Cardinality(archive) <= MaxArchive

\* Whatever limits the producers call with, the active items stay within the
\* limits queue_meta records.
WithinStoredLimits ==
    store = "ready" => /\ Cardinality(active) <= meta.limits.items
                       /\ PendingBytes <= meta.limits.bytes

\* No two workers own one item at a time.
LeaseExclusive ==
    \A v, w \in Workers : v # w /\ Owns(v) /\ Owns(w) => lease[v].id # lease[w].id

-----------------------------------------------------------------------------
(* The inductive invariant behind the safety properties *)

\* The flock is held exactly by the process that is inside a locked section.
Locked == {"init", "opened", "written", "claiming", "finish_ok", "finish_err", "unlink"}

LockInv == \A p \in Procs : lock = p <=> pc[p] \in Locked

\* Nothing is registered, claimed or sent before the set-up is committed, and
\* at most one process ever sets the directory up.
SetupInv ==
    /\ store # "ready" =>
          /\ active = {} /\ archive = {} /\ stored = {} /\ wire = {}
          /\ \A w \in Workers : pc[w] = "idle"
          /\ \A p \in Producers : pc[p] \notin {"opened", "written"}
    /\ \A p \in Producers : pc[p] \in {"initwait", "init"} => store = "partial"
    /\ \A p, q \in Producers : {pc[p], pc[q]} \subseteq {"initwait", "init"} => p = q

\* A body written but not yet committed belongs to no row, and the conditions
\* it was admitted under still hold when it is committed.
WriteInv ==
    \A p \in Producers : pc[p] = "written" =>
        /\ arg[p].id \in used \ Registered
        /\ file[arg[p].id] = arg[p].obj
        /\ RowOf(arg[p].obj) = {}
        /\ Cardinality(active) + Cardinality(archive) < MaxArchive
        /\ Cardinality(active) < arg[p].limits.items

\* A worker's lease names a registered item, its token is its own, and it
\* believes in a receipt only when the pinned server has the object.
LeaseInv ==
    /\ \A w \in Workers : pc[w] \notin {"idle", "claiming"} =>
          lease[w].id \in Registered /\ Config[w] = meta.target
    /\ \A v, w \in Workers : v # w /\ lease[v].token \in Tokens => lease[v].token # lease[w].token
    /\ \A w \in Workers : pc[w] \in {"answered", "acked", "finish_ok"} =>
          <<meta.target, Item(w)>> \in stored
    /\ \A w \in Workers : pc[w] = "unlink" => lease[w].id \in archive

\* A request that may still arrive is for a registered object.
WireInv == \A r \in wire : r[1] = meta.target /\ \E i \in Registered : row[i].obj = r[2]

ItemsWithinLimits == store = "ready" => Cardinality(active) <= meta.limits.items

SafeInv ==
    /\ LockInv /\ SetupInv /\ WriteInv /\ LeaseInv /\ WireInv
    /\ Registered \subseteq used /\ OneRowPerObject
    /\ PendingHasBody /\ SentIsStored
    /\ ArchiveSlotReserved /\ ItemsWithinLimits

-----------------------------------------------------------------------------
\* When enqueue returns an item, deleting the source is safe: the body is in
\* the queue, intact, or the pinned server has it.
ReturnedIsSafe ==
    [][\A p \in Producers : pc[p] # "ok" /\ pc'[p] = "ok" =>
          \/ arg'[p].id \in active' /\ file'[arg'[p].id] = arg[p].obj
          \/ arg'[p].id \in archive' /\ <<Config[p], arg[p].obj>> \in stored']_vars

\* A registered item never disappears: a row leaves the active table only for
\* the archive, and the archive only grows.
NeverForgotten ==
    [][/\ active \subseteq active' \cup archive' /\ archive \subseteq archive'
       /\ \A i \in Registered : row'[i].obj = row[i].obj]_vars

\* A valid lease is ended by its own holder alone: the late answer of a worker
\* whose lease expired or was replaced changes nothing.
OnlyHolderEndsLease ==
    [][\A i \in active :
          row[i].left > 0 /\ (i \notin active' \/ row'[i].token # row[i].token) =>
             \E w \in Workers : /\ pc[w] \in {"finish_ok", "finish_err"}
                                /\ lease[w] = [id |-> i, token |-> row[i].token]]_vars

\* Every registered item is sent in the end, by crashes, lost answers and
\* expired leases only delayed, unless some item can never be sent: its body
\* went bad or the server holds its bytes under another kind.
Unsendable(i) == i \in active /\ (file[i] = Damaged \/ Conflict(meta.target, row[i].obj))

EventuallySent ==
    \A i \in Ids : i \in active ~> i \in archive \/ \E j \in Ids : Unsendable(j)

-----------------------------------------------------------------------------
(* What the queue promises *)

Delivery == INSTANCE VaultDelivery WITH
    queued    <- {row[i].obj : i \in active},
    confirmed <- {row[i].obj : i \in archive},
    delivered <- {o \in Objects : <<meta.target, o>> \in stored}

\* The queue implements VaultDelivery: with two tables, bodies on disk, leases
\* and retries, every object is still accepted once and confirmed only after
\* the pinned server has it.
DeliverySpec == Delivery!Spec
=============================================================================
