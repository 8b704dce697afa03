-------------------------- MODULE VaultBundleJobs --------------------------
(***************************************************************************)
(* The persistent bundle jobs of the upload queue: crates/argos-vault,     *)
(* src/queue/jobs.rs.                                                      *)
(*                                                                         *)
(* enqueue_bundle registers all chunks of a manifest and the intent to     *)
(* publish it; drain_one publishes it in two requests (register, complete) *)
(* once every chunk has its receipt.  Items are seen at the level of       *)
(* VaultDelivery, which VaultQueue implements: queued, delivered and       *)
(* confirmed.  A section under queue.lock is one step: a process killed in *)
(* it leaves only bodies that no row names, which cleanup removes.         *)
(* enqueue_bundle has two such sections, and hashes the bodies it wants to *)
(* reuse between them, without the lock.                                   *)
(***************************************************************************)
EXTENDS Naturals, FiniteSets

CONSTANTS
    Objects,     \* backup objects, by sha256
    Size,        \* [Objects -> bytes]
    Manifests,   \* manifests, by content
    BundleId,    \* [Manifests -> bundle id]
    Chunks,      \* [Manifests -> SUBSET Objects], the unique chunks
    Producers,   \* processes running enqueue_bundle
    Workers,     \* processes running drain_one
    Limits,      \* the --max-items / --max-bytes pairs
    MaxArchive,  \* MAX_ARCHIVE_ITEMS
    MaxJobs,     \* MAX_BUNDLE_JOBS
    LeaseTicks,  \* request timeout plus LEASE_GRACE_MS
    RetryTicks,  \* delay after a failure (its growth is in VaultQueue)
    Tokens,      \* lease tokens
    MaxFaults,   \* bound: crashes, lost answers, timeouts, damaged bodies
    None

VARIABLES
    queued, confirmed, delivered,  \* the items, as in VaultDelivery
    body,       \* the snapshot of an item: "none", "good", "bad"
    limits,     \* queue_meta
    job,        \* bundle_jobs, by bundle id
    pc, call,   \* the producers and their calls
    todo,       \* chunks still to be looked at before the second section
    checked,    \* pending chunks whose body was hashed
    look,       \* the chunk being hashed
    wpc, lease, \* the workers and the leases they believe they hold
    answer,     \* the record a worker received
    registered, completed,  \* the catalogue of the server
    wire,       \* requests given up on that may still arrive
    faults

items == <<queued, confirmed, delivered, body>>
producers == <<pc, call, todo, checked, look>>
workers == <<wpc, lease, answer>>
server == <<registered, completed, wire>>
vars == <<items, limits, job, producers, workers, server, faults>>

Ids == {BundleId[m] : m \in Manifests}
Requests == {"register", "complete"} \X Manifests

Job == [man : Manifests, phase : {"register", "complete", "done"}, born : Nat,
        retry : 0 .. RetryTicks, token : Tokens \cup {None}, left : 0 .. LeaseTicks]

ASSUME ConstAssumption ==
    /\ Size \in [Objects -> Nat] /\ Chunks \in [Manifests -> SUBSET Objects]
    /\ \A m \in Manifests : IsFiniteSet(Chunks[m])
    /\ MaxArchive \in Nat /\ MaxJobs \in Nat /\ MaxFaults \in Nat
    /\ LeaseTicks \in Nat \ {0} /\ RetryTicks \in Nat \ {0}
    /\ None \notin Objects /\ None \notin Manifests /\ None \notin Tokens /\ None \notin Ids
    /\ None \notin Job
    /\ Limits \subseteq [items : Nat \ {0}, bytes : Nat \ {0}]

-----------------------------------------------------------------------------
(* Helpers *)

Fault == faults < MaxFaults /\ faults' = faults + 1

Jobs == {b \in Ids : job[b] # None}

Known == queued \cup confirmed

\* The sum of the sizes: one element for every byte of every object in S.
Bytes(S) == Cardinality(UNION {{o} \X (1 .. Size[o]) : o \in S})

\* The chunks of a manifest that are not in the queue yet.
NewChunks(m) == Chunks[m] \ Known

\* admission: all new chunks fit at once, active and archived, and the job too.
Admission(m, lim) ==
    /\ Cardinality(Jobs) < MaxJobs
    /\ Cardinality(queued) + Cardinality(NewChunks(m)) <= lim.items
    /\ Bytes(queued) + Bytes(NewChunks(m)) <= lim.bytes
    /\ Cardinality(Known) + Cardinality(NewChunks(m)) <= MaxArchive

NoCall == [man |-> None, lim |-> [items |-> 0, bytes |-> 0]]

Return(p, result) ==
    /\ pc' = [pc EXCEPT ![p] = result]
    /\ call' = [call EXCEPT ![p] = NoCall]
    /\ todo' = [todo EXCEPT ![p] = {}]
    /\ checked' = [checked EXCEPT ![p] = {}]
    /\ look' = [look EXCEPT ![p] = None]

Idle(w) ==
    /\ wpc' = [wpc EXCEPT ![w] = "idle"]
    /\ lease' = [lease EXCEPT ![w] = [id |-> None, token |-> None, phase |-> "register"]]
    /\ answer' = [answer EXCEPT ![w] = None]

\* A job with its phase, retry time and lease replaced.
Scheduled(j, phase, delay, t, time) ==
    [man |-> j.man, phase |-> phase, born |-> j.born, retry |-> delay, token |-> t, left |-> time]

Init ==
    /\ queued = {} /\ confirmed = {} /\ delivered = {}
    /\ body = [o \in Objects |-> "none"]
    /\ limits \in Limits
    /\ job = [b \in Ids |-> None]
    /\ pc = [p \in Producers |-> "idle"]
    /\ call = [p \in Producers |-> NoCall]
    /\ todo = [p \in Producers |-> {}]
    /\ checked = [p \in Producers |-> {}]
    /\ look = [p \in Producers |-> None]
    /\ wpc = [w \in Workers |-> "idle"]
    /\ lease = [w \in Workers |-> [id |-> None, token |-> None, phase |-> "register"]]
    /\ answer = [w \in Workers |-> None]
    /\ registered = {} /\ completed = {} /\ wire = {}
    /\ faults = 0

-----------------------------------------------------------------------------
(* enqueue_bundle *)

Man(p) == call[p].man
Row(p) == job[BundleId[Man(p)]]

BundleCall(p, m, lim) ==
    /\ pc[p] \in {"idle", "ok"}
    /\ pc' = [pc EXCEPT ![p] = "first"]
    /\ call' = [call EXCEPT ![p] = [man |-> m, lim |-> lim]]
    /\ UNCHANGED <<items, limits, job, todo, checked, look, workers, server, faults>>

\* First section: the same bundle is known, or a new one would fit.  Then the
\* chunks are copied to a spool of the call's own, without the lock.
BundlePrecheck(p) ==
    /\ pc[p] = "first"
    /\ IF Row(p) = None THEN Admission(Man(p), call[p].lim) ELSE Row(p).man = Man(p)
    /\ pc' = [pc EXCEPT ![p] = "verify"]
    /\ todo' = [todo EXCEPT ![p] = Chunks[Man(p)]]
    /\ UNCHANGED <<items, limits, job, call, checked, look, workers, server, faults>>

\* verify_pending_snapshots: the next chunk is looked up ...
LookUp(p) ==
    /\ pc[p] = "verify"
    /\ todo[p] # {}
    /\ LET o == CHOOSE o \in todo[p] : TRUE IN
         /\ todo' = [todo EXCEPT ![p] = @ \ {o}]
         /\ IF o \in queued
              THEN /\ pc' = [pc EXCEPT ![p] = "read"]
                   /\ look' = [look EXCEPT ![p] = o]
              ELSE UNCHANGED <<pc, look>>
    /\ UNCHANGED <<items, limits, job, call, checked, workers, server, faults>>

\* ... and its body hashed if it is pending ...
ReadBody(p) ==
    /\ pc[p] = "read"
    /\ IF body[look[p]] = "good"
         THEN /\ checked' = [checked EXCEPT ![p] = @ \cup {look[p]}]
              /\ pc' = [pc EXCEPT ![p] = "verify"]
              /\ look' = [look EXCEPT ![p] = None]
         ELSE /\ pc' = [pc EXCEPT ![p] = "recheck"]
              /\ UNCHANGED <<checked, look>>
    /\ UNCHANGED <<items, limits, job, call, todo, workers, server, faults>>

\* ... where a body that is gone is fine if the chunk was sent meanwhile.
Recheck(p) ==
    /\ pc[p] = "recheck"
    /\ IF look[p] \in confirmed
         THEN /\ pc' = [pc EXCEPT ![p] = "verify"]
              /\ look' = [look EXCEPT ![p] = None]
              /\ UNCHANGED <<call, todo, checked>>
         ELSE Return(p, "idle")
    /\ UNCHANGED <<items, limits, job, workers, server, faults>>

\* Mutant: the bodies are not compared again under the lock.
ReusedUnread(p) == TRUE

\* check_reused_snapshots: every pending chunk was hashed by this call, and
\* its file has not changed since.
Reused(p) == \A o \in Chunks[Man(p)] \cap queued : o \in checked[p] /\ body[o] = "good"

Verified(p) == pc[p] = "verify" /\ todo[p] = {}

\* Second section, the bundle is registered by now: its job is returned.
BundleAgain(p) ==
    /\ Verified(p)
    /\ Row(p) # None /\ Row(p).man = Man(p)
    /\ Chunks[Man(p)] \subseteq Known
    /\ Reused(p)
    /\ Return(p, "ok")
    /\ UNCHANGED <<items, limits, job, workers, server, faults>>

NewJob(m) == [man |-> m, phase |-> "register", born |-> Cardinality(Jobs), retry |-> 0,
              token |-> None, left |-> 0]

\* Mutant: room is only checked in the first section.
BundleRegisterUnchecked(p) ==
    /\ Verified(p)
    /\ Row(p) = None
    /\ Reused(p)
    /\ queued' = queued \cup NewChunks(Man(p))
    /\ body' = [o \in Objects |-> IF o \in NewChunks(Man(p)) THEN "good" ELSE body[o]]
    /\ job' = [job EXCEPT ![BundleId[Man(p)]] = NewJob(Man(p))]
    /\ limits' = call[p].lim
    /\ \/ Return(p, "ok") /\ UNCHANGED faults
       \/ Return(p, "idle") /\ Fault
    /\ UNCHANGED <<confirmed, delivered, workers, server>>

\* Second section, the bundle is new: room is checked once more, the spooled
\* chunks become bodies, and one transaction adds the items, the job, its
\* references and the limits.  COMMIT may report an error although it took
\* effect.
BundleRegister(p) ==
    /\ Verified(p)
    /\ Row(p) = None
    /\ Admission(Man(p), call[p].lim)
    /\ Reused(p)
    /\ queued' = queued \cup NewChunks(Man(p))
    /\ body' = [o \in Objects |-> IF o \in NewChunks(Man(p)) THEN "good" ELSE body[o]]
    /\ job' = [job EXCEPT ![BundleId[Man(p)]] = NewJob(Man(p))]
    /\ limits' = call[p].lim
    /\ \/ Return(p, "ok") /\ UNCHANGED faults
       \/ Return(p, "idle") /\ Fault
    /\ UNCHANGED <<confirmed, delivered, workers, server>>

\* Nothing is registered: another manifest has the bundle id, the chunks do
\* not fit, a pending chunk is new to the call or has changed.
BundleReject(p) ==
    /\ \/ /\ pc[p] = "first"
          /\ IF Row(p) = None THEN ~Admission(Man(p), call[p].lim) ELSE Row(p).man # Man(p)
       \/ /\ Verified(p)
          /\ IF Row(p) = None
               THEN ~(Admission(Man(p), call[p].lim) /\ Reused(p))
               ELSE ~(Row(p).man = Man(p) /\ Chunks[Man(p)] \subseteq Known /\ Reused(p))
    /\ Return(p, "idle")
    /\ UNCHANGED <<items, limits, job, workers, server, faults>>

\* The producer is killed or fails for want of the lock or a good stage.
BundleAbort(p) ==
    /\ pc[p] \notin {"idle", "ok"}
    /\ Fault
    /\ Return(p, "idle")
    /\ UNCHANGED <<items, limits, job, workers, server>>

-----------------------------------------------------------------------------
(* The items, as VaultQueue handles them *)

EnqueueItem(o, lim) ==
    /\ o \notin Known
    /\ Cardinality(Known) < MaxArchive
    /\ Cardinality(queued) < lim.items
    /\ Bytes(queued) + Size[o] <= lim.bytes
    /\ queued' = queued \cup {o}
    /\ body' = [body EXCEPT ![o] = "good"]
    /\ limits' = lim
    /\ UNCHANGED <<confirmed, delivered, job, producers, workers, server, faults>>

SendItem(o) ==
    /\ o \in queued \ delivered
    /\ body[o] = "good"
    /\ delivered' = delivered \cup {o}
    /\ UNCHANGED <<queued, confirmed, body, limits, job, producers, workers, server, faults>>

ConfirmItem(o) ==
    /\ o \in queued \cap delivered
    /\ queued' = queued \ {o}
    /\ confirmed' = confirmed \cup {o}
    /\ UNCHANGED <<delivered, body, limits, job, producers, workers, server, faults>>

UnlinkItem(o) ==
    /\ o \in confirmed
    /\ body[o] # "none"
    /\ body' = [body EXCEPT ![o] = "none"]
    /\ UNCHANGED <<queued, confirmed, delivered, limits, job, producers, workers, server, faults>>

Damage(o) ==
    /\ o \in queued
    /\ body[o] = "good"
    /\ Fault
    /\ body' = [body EXCEPT ![o] = "bad"]
    /\ UNCHANGED <<queued, confirmed, delivered, limits, job, producers, workers, server>>

-----------------------------------------------------------------------------
(* drain_one *)

\* Mutant: an abandoned lease is never taken over.
JobDueUnclaimed(b) ==
    /\ b \in Jobs /\ job[b].phase # "done" /\ job[b].retry = 0 /\ job[b].token = None
    /\ Chunks[job[b].man] \subseteq confirmed

JobDue(b) ==
    /\ b \in Jobs /\ job[b].phase # "done" /\ job[b].retry = 0 /\ job[b].left = 0
    /\ Chunks[job[b].man] \subseteq confirmed

FreshTokens == Tokens \ ({lease[w].token : w \in Workers} \cup {job[b].token : b \in Jobs})

\* claim_job: the oldest job that is due gets a lease.
ClaimJob(w) ==
    /\ wpc[w] = "idle"
    /\ \E b \in Ids, t \in FreshTokens :
          /\ JobDue(b) /\ \A c \in Ids : JobDue(c) => job[b].born <= job[c].born
          /\ job' = [job EXCEPT ![b] = Scheduled(@, @.phase, RetryTicks, t, LeaseTicks)]
          /\ lease' = [lease EXCEPT ![w] = [id |-> b, token |-> t, phase |-> job[b].phase]]
    /\ wpc' = [wpc EXCEPT ![w] = "sending"]
    /\ UNCHANGED <<items, limits, producers, answer, server, faults>>

Manifest(w) == job[lease[w].id].man

\* The catalogue completes a bundle it knows and whose chunks it holds.
Completable(m) == m \in registered /\ Chunks[m] \subseteq delivered

ServeRegister(w) ==
    /\ wpc[w] = "sending" /\ lease[w].phase = "register"
    /\ registered' = registered \cup {Manifest(w)}
    /\ answer' = [answer EXCEPT ![w] = IF Manifest(w) \in completed THEN "complete" ELSE "registered"]
    /\ wpc' = [wpc EXCEPT ![w] = "answered"]
    /\ UNCHANGED <<items, limits, job, producers, lease, completed, wire, faults>>

ServeComplete(w) ==
    /\ wpc[w] = "sending" /\ lease[w].phase = "complete"
    /\ IF Completable(Manifest(w))
         THEN /\ completed' = completed \cup {Manifest(w)}
              /\ answer' = [answer EXCEPT ![w] = "complete"]
              /\ wpc' = [wpc EXCEPT ![w] = "answered"]
         ELSE /\ wpc' = [wpc EXCEPT ![w] = "failed"]
              /\ UNCHANGED <<completed, answer>>
    /\ UNCHANGED <<items, limits, job, producers, lease, registered, wire, faults>>

JobTimeout(w) ==
    /\ wpc[w] = "sending"
    /\ Fault
    /\ wire' = wire \cup {<<lease[w].phase, Manifest(w)>>}
    /\ wpc' = [wpc EXCEPT ![w] = "failed"]
    /\ UNCHANGED <<items, limits, job, producers, lease, answer, registered, completed>>

ServeLate(r) ==
    /\ r \in wire
    /\ wire' = wire \ {r}
    /\ registered' = IF r[1] = "register" THEN registered \cup {r[2]} ELSE registered
    /\ completed' = IF r[1] = "complete" /\ Completable(r[2]) THEN completed \cup {r[2]} ELSE completed
    /\ UNCHANGED <<items, limits, job, producers, workers, faults>>

\* The answer is lost or does not verify.
LoseAnswer(w) ==
    /\ wpc[w] = "answered"
    /\ Fault
    /\ wpc' = [wpc EXCEPT ![w] = "failed"]
    /\ answer' = [answer EXCEPT ![w] = None]
    /\ UNCHANGED <<items, limits, job, producers, lease, server>>

\* Mutant: whoever comes last is believed.
OwnsRegardless(w) == TRUE

Owns(w) == job[lease[w].id].token = lease[w].token /\ job[lease[w].id].left > 0

FinishJobStale(w) ==
    /\ wpc[w] \in {"answered", "failed"}
    /\ ~Owns(w)
    /\ Idle(w)
    /\ UNCHANGED <<items, limits, job, producers, server, faults>>

\* finish_job: a record with a completion ends the job, any other one moves it
\* to its second phase.
FinishJobOk(w) ==
    /\ wpc[w] = "answered"
    /\ Owns(w)
    /\ job' = [job EXCEPT ![lease[w].id] =
                  Scheduled(@, IF answer[w] = "complete" THEN "done" ELSE "complete", 0, None, 0)]
    /\ Idle(w)
    /\ UNCHANGED <<items, limits, producers, server, faults>>

FinishJobErr(w) ==
    /\ wpc[w] = "failed"
    /\ Owns(w)
    /\ job' = [job EXCEPT ![lease[w].id] = Scheduled(@, @.phase, RetryTicks, None, 0)]
    /\ Idle(w)
    /\ UNCHANGED <<items, limits, producers, server, faults>>

\* The worker is killed, or cannot get the lock to store the result.
JobAbort(w) ==
    /\ wpc[w] # "idle"
    /\ Fault
    /\ Idle(w)
    /\ UNCHANGED <<items, limits, job, producers, server>>

Less(n) == IF n = 0 THEN 0 ELSE n - 1

Countdown(j) == Scheduled(j, j.phase, Less(j.retry), j.token, Less(j.left))

\* The clock advances; a lease that runs out under a busy worker is a fault.
Tick ==
    /\ job' = [b \in Ids |-> IF job[b] = None THEN None ELSE Countdown(job[b])]
    /\ job' # job
    /\ IF \E w \in Workers : wpc[w] # "idle" /\ Owns(w) /\ job[lease[w].id].left = 1
         THEN Fault ELSE UNCHANGED faults
    /\ UNCHANGED <<items, limits, producers, workers, server>>

-----------------------------------------------------------------------------
BundleStep(p) ==
    \/ BundlePrecheck(p) \/ LookUp(p) \/ ReadBody(p) \/ Recheck(p)
    \/ BundleAgain(p) \/ BundleRegister(p) \/ BundleReject(p)

ItemStep(o) == SendItem(o) \/ ConfirmItem(o) \/ UnlinkItem(o)

JobStep(w) ==
    \/ ClaimJob(w) \/ ServeRegister(w) \/ ServeComplete(w)
    \/ FinishJobStale(w) \/ FinishJobOk(w) \/ FinishJobErr(w)

Next ==
    \/ \E p \in Producers, m \in Manifests, lim \in Limits : BundleCall(p, m, lim)
    \/ \E p \in Producers : BundleStep(p) \/ BundleAbort(p)
    \/ \E o \in Objects, lim \in Limits : EnqueueItem(o, lim)
    \/ \E o \in Objects : ItemStep(o) \/ Damage(o)
    \/ \E w \in Workers : JobStep(w) \/ JobTimeout(w) \/ LoseAnswer(w) \/ JobAbort(w)
    \/ \E r \in Requests : ServeLate(r)
    \/ Tick

Spec == Init /\ [][Next]_vars

\* Started calls go on, the scheduled drain keeps sending items and jobs
\* (jobs first), and time passes.
Fairness ==
    /\ \A p \in Producers : WF_vars(BundleStep(p))
    /\ \A o \in Objects : WF_vars(ItemStep(o))
    /\ \A w \in Workers : WF_vars(JobStep(w))
    /\ WF_vars(Tick)

FairSpec == Spec /\ Fairness

-----------------------------------------------------------------------------
(* Properties *)

\* Every variable keeps its type: a job has one of the three phases and a lease
\* and a delay within their lengths.
TypeOK ==
    /\ queued \subseteq Objects /\ confirmed \subseteq Objects /\ delivered \subseteq Objects
    /\ body \in [Objects -> {"none", "good", "bad"}]
    /\ limits \in Limits
    /\ job \in [Ids -> Job \cup {None}]
    /\ pc \in [Producers -> {"idle", "first", "verify", "read", "recheck", "ok"}]
    /\ call \in [Producers -> [man : Manifests \cup {None}, lim : [items : Nat, bytes : Nat]]]
    /\ todo \in [Producers -> SUBSET Objects] /\ checked \in [Producers -> SUBSET Objects]
    /\ look \in [Producers -> Objects \cup {None}]
    /\ wpc \in [Workers -> {"idle", "sending", "answered", "failed"}]
    /\ lease \in [Workers -> [id : Ids \cup {None}, token : Tokens \cup {None},
                              phase : {"register", "complete"}]]
    /\ answer \in [Workers -> {"registered", "complete", None}]
    /\ registered \subseteq Manifests /\ completed \subseteq Manifests
    /\ wire \subseteq Requests
    /\ faults \in 0 .. MaxFaults

\* A job and its chunks are registered together: no job ever refers to a chunk
\* that is in neither table (validate_schema would then refuse the queue), and
\* none whose body was not kept.
RefsRegistered ==
    \A b \in Jobs : Chunks[job[b].man] \subseteq Known
                    /\ \A o \in Chunks[job[b].man] \cap queued : body[o] # "none"

\* The whole bundle fits or nothing is registered, whatever was enqueued
\* between the two locked sections.
BundleWithinLimits ==
    /\ Cardinality(Jobs) <= MaxJobs
    /\ Cardinality(queued) <= limits.items /\ Bytes(queued) <= limits.bytes
    /\ Cardinality(Known) <= MaxArchive

\* What a job's phase says of the server is true: past the first phase the
\* manifest is registered, and a done job is completed there, all chunks held.
PhaseIsTrue ==
    \A b \in Jobs : /\ job[b].phase # "register" => job[b].man \in registered
                    /\ job[b].phase = "done" => job[b].man \in completed

\* The server is asked to publish only what it holds completely.
CompleteIsWhole == \A m \in registered : Chunks[m] \subseteq delivered

\* Jobs, chunks, limits and phases agree with each other and with the server.
JobsAreSound == TypeOK /\ RefsRegistered /\ BundleWithinLimits /\ PhaseIsTrue /\ CompleteIsWhole

Rank(phase) == CASE phase = "register" -> 1 [] phase = "complete" -> 2 [] phase = "done" -> 3

\* A job never goes back, nor away: the answer of a worker that lost its lease
\* does not undo the progress another one stored.
PhaseNeverBack ==
    [][\A b \in Jobs : /\ job'[b] # None /\ job'[b].man = job[b].man
                       /\ Rank(job[b].phase) <= Rank(job'[b].phase)]_vars

\* When enqueue_bundle returns, the prepared directory may be deleted: every
\* chunk is in the queue with an intact body, or the server has it.
ReturnedBundleIsSafe ==
    [][\A p \in Producers : pc[p] # "ok" /\ pc'[p] = "ok" =>
          \A o \in Chunks[Man(p)] : \/ o \in queued' /\ body'[o] = "good"
                                    \/ o \in confirmed' /\ o \in delivered']_vars

Unsendable(m) == \E o \in Chunks[m] \cap queued : o \notin delivered /\ body[o] = "bad"

\* A registered bundle is published in the end, unless the body of one of its
\* chunks went bad while it was pending.
EventuallyPublished ==
    \A b \in Ids : b \in Jobs ~>
        b \in Jobs /\ (job[b].phase = "done" \/ Unsendable(job[b].man))

Delivery == INSTANCE VaultDelivery

\* Bundles and single files together still keep the promise of the queue, and
\* the jobs only move on.
BundlesSpec == Delivery!Spec /\ PhaseNeverBack
=============================================================================
