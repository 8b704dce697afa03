--------------------------- MODULE ServiceDrill ---------------------------
(***************************************************************************)
(* Service recovery drills (argos-recovery/src/service.rs, its postgres    *)
(* and verification modules, and argos-cli/src/service_recovery.rs).       *)
(*                                                                         *)
(* `test` reads a plan, spawns a worker and watches it until a deadline.   *)
(* The worker copies the backup into a new workspace while hashing it,     *)
(* restores the copy, runs the plan's checks in order, writes a report and *)
(* prints it.  `verify` later decides whether a report still speaks for    *)
(* the backup that is on disk.  All the while somebody may rewrite or      *)
(* replace the backup, leave a journal beside it or edit the plan; a write *)
(* of the same size may be too quick for the file's timestamps to move.    *)
(*                                                                         *)
(* A file is a list of Parts read one at a time; a hash is the list        *)
(* itself.  What a database holds is reduced to Broken[body], the stages   *)
(* and checks that fail on it.                                             *)
(***************************************************************************)
EXTENDS Integers, Sequences, FiniteSets, Functions

CONSTANTS Chunks,      \* what one part of a backup can hold
          Parts,       \* parts per backup file
          Broken,      \* body |-> the stages and checks it does not pass
          Plans,       \* plan files the operator may write
          Trials,      \* the values the preapproval flag takes
          MaxAge,      \* --max-age-secs
          MaxNow,      \* last value of the wall clock
          DrillChanges, \* changes made to plan, backup and journal by the drill's end
          MaxChanges,  \* ... and altogether
          MaxUnseen    \* of these, writes that no timestamp shows

Bodies == [1..Parts -> Chunks]

ASSUME DrillAssumption ==
    /\ Parts \in Nat \ {0}
    /\ \A p \in Plans : p.engine \in {"sqlite", "postgresql"} /\ p.tables \in Seq(STRING)
    /\ \A body \in Bodies : Broken[body] \subseteq STRING
    /\ MaxAge \in Nat \ {0} /\ MaxNow \in Nat
    /\ DrillChanges \in Nat /\ MaxChanges \in Nat /\ MaxUnseen \in Nat
    /\ Trials \subseteq BOOLEAN

VARIABLES
    files,     \* every backup file so far; the path names the last one
    journal,   \* a -wal, -shm or -journal file lies beside it
    plan,      \* the plan file
    changes,   \* changes made so far ...
    unseen,    \* ... and those that left the timestamps alone
    now,       \* the wall clock
    late,      \* 0: in time, 1: past the supervisor's deadline, 2: and the worker's
    sup,       \* the supervisor
    w,         \* the worker
    pid,       \* the worker's process id: "own", "free" or "other"
    heir,      \* a descendant of the worker holds its pipes open
    report,    \* the report file of the workspace
    answer,    \* what `test` said
    check,     \* `verify`
    held,      \* every body the file had since it was opened to be read
    torn,      \* the reads of it into which a write fell that no timestamp shows
    stray      \* a signal has hit a group that is not the worker's

vars == <<files, journal, plan, changes, unseen, now, late, sup, w, pid, heir,
          report, answer, check, held, torn, stray>>
world == <<files, journal, plan, changes, unseen>>
drill == <<late, sup, w, pid, heir, report, answer, stray>>
history == <<held, torn>>

None == [status |-> "none"]
Path == Len(files)

\* The checks of a plan, in the order they run; a plan expects a user version or not.
Checks(p) ==
    (IF p.engine = "sqlite"
     THEN <<"argos-integrity", "argos-foreign-keys">>
          \o (IF p.userVersion THEN <<"argos-user-version">> ELSE <<>>)
     ELSE <<"argos-constraints">>)
    \o p.tables \o <<"argos-write-read-rollback">>

\* validate_plan: one to 32 tables with distinct check ids of their own.
ValidatePlan(p) ==
    /\ p.tables # <<>>
    /\ Len(p.tables) <= 32
    /\ \A i, j \in DOMAIN p.tables : p.tables[i] = p.tables[j] => i = j

\* plan_binding: the order of the tables does not count, nor does the backup's path.
PlanBinding(p) ==
    [engine |-> p.engine, userVersion |-> p.userVersion, tables |-> Range(p.tables)]

\* new_report: a drill has failed until it has passed.
NewReport(p) ==
    [status |-> "failed", binding |-> PlanBinding(p), hash |-> <<>>, checks |-> {}, at |-> now]

Idle == [pc |-> "idle", plan |-> CHOOSE p \in Plans : TRUE, trial |-> FALSE, seen |-> FALSE]
NoWorker == [pc |-> "none", plan |-> CHOOSE p \in Plans : TRUE, file |-> 0, stamp |-> 0,
             body |-> <<>>, done |-> 0, failed |-> FALSE, doomed |-> FALSE, printed |-> None]
NoCheck == [pc |-> "idle", plan |-> CHOOSE p \in Plans : TRUE, report |-> None, file |-> 0,
            stamp |-> 0, first |-> <<>>, second |-> <<>>, verdict |-> "none", at |-> 0]

Init ==
    /\ \E body \in Bodies : files = <<[body |-> body, stamp |-> 0]>>
    /\ plan \in Plans
    /\ journal = FALSE /\ changes = 0 /\ unseen = 0 /\ now = 0 /\ late = 0
    /\ sup = Idle /\ w = NoWorker /\ pid = "free" /\ heir = FALSE
    /\ report = None /\ answer = None /\ check = NoCheck
    /\ held = {} /\ torn = {} /\ stray = FALSE

----------------------------------------------------------------------------
(* The operator and the clock. *)

\* The drill is over and its processes are gone.
Settled == sup.pc = "ended" /\ w.pc = "reaped" /\ ~heir

\* Nobody looks at these files but the copy and a `verify` that has a passed
\* report to judge: any other change is the same change made later.
Watched == w.pc \in {"open", "copy"} \/ (Settled /\ report.status = "passed")
Opened == w.file # 0 \/ check.file # 0
Change ==
    /\ Watched
    /\ changes < IF Settled THEN MaxChanges ELSE DrillChanges
    /\ changes' = changes + 1
EnvUnchanged == UNCHANGED <<drill, now, check>>

\* The reads of the file at the path that have begun and not ended.
UnderWay ==
    {r \in {"copy", "first", "second"} :
        /\ r = "copy" => w.pc = "copy" /\ w.file = Path
        /\ r # "copy" => check.pc = r /\ check.file = Path
        /\ Len(IF r = "copy" THEN w.body ELSE IF r = "first" THEN check.first ELSE check.second)
              \in 1..(Parts - 1)}

\* The file is rewritten in place; a quick write leaves size and times as they were.
WriteBackup ==
    \E body \in Bodies \ {files[Path].body}, quick \in BOOLEAN :
        /\ Change
        /\ quick => unseen < MaxUnseen /\ Opened
        /\ unseen' = unseen + (IF quick THEN 1 ELSE 0)
        /\ files' = [files EXCEPT ![Path] =
                        [body |-> body,
                         stamp |-> IF quick \/ ~Opened THEN @.stamp ELSE @.stamp + 1]]
        /\ held' = IF (w.pc = "copy" /\ w.file = Path) \/ check.file = Path
                   THEN held \union {body} ELSE held
        /\ torn' = IF quick THEN torn \union UnderWay ELSE torn
        /\ UNCHANGED <<journal, plan>>
        /\ EnvUnchanged

\* A new file takes the path; whoever has the old one open keeps reading it.
ReplaceBackup ==
    \E body \in Bodies :
        /\ Change
        /\ files' = Append(IF Opened THEN files ELSE <<>>, [body |-> body, stamp |-> 0])
        /\ UNCHANGED <<journal, plan, unseen, history>>
        /\ EnvUnchanged

ToggleJournal ==
    /\ Change
    /\ journal' = ~journal
    /\ UNCHANGED <<files, plan, unseen, history>>
    /\ EnvUnchanged

\* The worker has its own copy of the plan.
EditPlan ==
    /\ Settled /\ Change
    /\ plan' \in Plans \ {plan}
    /\ UNCHANGED <<files, journal, unseen, history>>
    /\ EnvUnchanged

\* A drill is short beside the age a report may reach.
Tick ==
    /\ Settled /\ report.status = "passed"
    /\ now < MaxNow
    /\ now' = now + 1
    /\ UNCHANGED <<world, drill, check, history>>

\* The worker starts its own clock later, so its deadline comes second.
DeadlinePasses ==
    /\ sup.pc \notin {"idle", "ended"}
    /\ late < 2
    /\ late' = late + 1
    /\ UNCHANGED <<world, now, sup, w, pid, heir, report, answer, check, history, stray>>

----------------------------------------------------------------------------
(* The worker: service::run.  Every step may fail; after the workspace      *)
(* exists a failure still ends in a report.                                 *)

CopyKeeps == UNCHANGED <<world, now, late, sup, pid, heir, answer, check, stray>>
WorkerKeeps == CopyKeeps /\ UNCHANGED history

Forget == held' = {} /\ torn' = {}

At(pc) == w.pc = pc /\ ~w.doomed
To(pc) == w' = [w EXCEPT !.pc = pc]
Exit == w' = [NoWorker EXCEPT !.pc = "exited", !.printed = w.printed]
Fail == w' = [w EXCEPT !.pc = "report", !.failed = TRUE, !.file = 0, !.stamp = 0,
                       !.body = IF w.pc \in {"open", "copy"} THEN <<>> ELSE @]
InTime == late < 2
FailsOn(what) == what \in Broken[w.body]

\* create_workspace: the directory must be new.  Without one there is no report.
CreateWorkspace ==
    /\ At("create")
    /\ \/ To("open")
       \/ Exit
    /\ UNCHANGED report
    /\ WorkerKeeps

\* The sandbox of a trial binds the file found when it was started, and that
\* file alone: inside it no journal is ever to be seen.
BoundBackup == IF sup.trial THEN w.file ELSE Path
JournalSeen == journal /\ w.plan.engine = "sqlite" /\ ~sup.trial

\* stage_backup up to the copy: a regular file, no journal beside it.
StageOpen ==
    /\ At("open")
    /\ IF ~JournalSeen
       THEN /\ w' = [w EXCEPT !.pc = "copy", !.file = BoundBackup,
                              !.stamp = files[BoundBackup].stamp]
            /\ held' = {files[BoundBackup].body} /\ torn' = {}
       ELSE Fail /\ UNCHANGED history
    /\ UNCHANGED report
    /\ CopyKeeps

\* The copy loop: what is hashed is what is written.
StageCopy ==
    /\ At("copy")
    /\ Len(w.body) < Parts
    /\ IF InTime
       THEN w' = [w EXCEPT !.body = Append(@, files[w.file].body[Len(@) + 1])]
       ELSE Fail
    /\ UNCHANGED report
    /\ WorkerKeeps

\* After the copy the file's times and the journal are looked at again.
CompareUnheeded ==
    /\ At("copy")
    /\ Len(w.body) = Parts
    /\ IF ~JournalSeen /\ ~FailsOn("header")
       THEN /\ w' = [w EXCEPT !.pc = IF w.plan.engine = "sqlite" THEN "restore" ELSE "sandbox",
                              !.file = 0, !.stamp = 0]
            /\ Forget
       ELSE Fail /\ UNCHANGED history
    /\ UNCHANGED report
    /\ CopyKeeps
StageCompare ==
    /\ At("copy")
    /\ Len(w.body) = Parts
    /\ IF /\ files[w.file].stamp = w.stamp
          /\ ~JournalSeen
          /\ ~FailsOn("header")
       THEN /\ w' = [w EXCEPT !.pc = IF w.plan.engine = "sqlite" THEN "restore" ELSE "sandbox",
                              !.file = 0, !.stamp = 0]
            /\ Forget
       ELSE Fail /\ UNCHANGED history
    /\ UNCHANGED report
    /\ CopyKeeps

\* run_sqlite: sqlite's own backup loop into restored.sqlite3, then virtual tables.
RestoreSqlite ==
    /\ At("restore")
    /\ IF InTime /\ ~FailsOn("restore") /\ ~FailsOn("virtual") THEN To("check") ELSE Fail
    /\ UNCHANGED report
    /\ WorkerKeeps

\* Sandbox::new: a work directory and the files a networkless sandbox binds.
PgSandbox ==
    /\ At("sandbox")
    /\ To("initdb")
    /\ UNCHANGED report
    /\ WorkerKeeps

\* Captured::finish: a sandboxed command is waited for until the deadline.
Executed == InTime

\* postgres::run: initdb, a server that must answer a first query, and
\* pg_restore of the copy in one transaction; the server dies with the worker.
PgInitdb ==
    /\ At("initdb")
    /\ IF Executed THEN To("server") ELSE Fail
    /\ UNCHANGED report
    /\ WorkerKeeps

PgServerReady ==
    /\ At("server")
    /\ IF Executed THEN To("pg_restore") ELSE Fail
    /\ UNCHANGED report
    /\ WorkerKeeps

PgRestore ==
    /\ At("pg_restore")
    /\ IF Executed /\ ~FailsOn("restore") THEN To("check") ELSE Fail
    /\ UNCHANGED report
    /\ WorkerKeeps

\* A check holds on the restored copy: validate_sqlite, and postgres::validate
\* with one psql command per question.
HoldsInSqlite(c) == InTime /\ ~FailsOn(c)
PgQuery(c) == Executed /\ ~FailsOn(c)
HoldsInPostgres(c) == PgQuery(c)
CheckHolds(c) == IF w.plan.engine = "sqlite" THEN HoldsInSqlite(c) ELSE HoldsInPostgres(c)

\* One check after the other; the first one that does not hold ends the drill.
RunCheck ==
    /\ At("check")
    /\ w.done < Len(Checks(w.plan))
    /\ IF CheckHolds(Checks(w.plan)[w.done + 1])
       THEN w' = [w EXCEPT !.done = @ + 1]
       ELSE Fail
    /\ UNCHANGED report
    /\ WorkerKeeps

\* The last budget check of run, which also looks at the deadline.
WorkspaceBudget ==
    /\ At("check")
    /\ w.done = Len(Checks(w.plan))
    /\ IF InTime THEN To("report") ELSE Fail
    /\ UNCHANGED report
    /\ WorkerKeeps

\* A read, a write, a sandbox or the size budget may fail at any stage.
StageFails ==
    /\ w.pc \notin {"none", "create", "report", "write", "print", "exited", "reaped"}
    /\ ~w.doomed
    /\ Fail
    /\ UNCHANGED report
    /\ WorkerKeeps

\* The report the worker writes and then prints.
WorkerReport ==
    [NewReport(w.plan) EXCEPT !.status = IF w.failed THEN "failed" ELSE "passed",
                              !.hash = w.body,
                              !.checks = {Checks(w.plan)[i] : i \in 1..w.done}]

\* write_report: a new file, then its contents; a write already in the kernel
\* completes even when the process is being killed.
PrintThenCreate ==
    /\ At("report")
    /\ report' = [status |-> "partial"]
    /\ w' = [w EXCEPT !.pc = "write", !.printed = WorkerReport]
    /\ WorkerKeeps
CreateReport ==
    /\ At("report")
    /\ \/ /\ report' = [status |-> "partial"]
          /\ To("write")
       \/ /\ report' = report
          /\ Exit
    /\ WorkerKeeps

WriteReport ==
    /\ w.pc = "write"
    /\ report' = WorkerReport
    /\ To("print")
    /\ WorkerKeeps

PrintReport ==
    /\ At("print")
    /\ w' = [NoWorker EXCEPT !.pc = "exited", !.printed = WorkerReport]
    /\ UNCHANGED report
    /\ WorkerKeeps

\* A limit or the kernel ends the worker; a descendant may outlive it for a while.
WorkerCrash ==
    /\ w.pc \notin {"none", "exited", "reaped"} /\ ~w.doomed
    /\ Exit
    /\ heir' \in BOOLEAN
    /\ UNCHANGED <<world, now, late, sup, pid, report, answer, check, history, stray>>

\* A killed worker ends once the kernel lets it.
WorkerDies ==
    /\ w.doomed
    /\ Exit
    /\ UNCHANGED report
    /\ WorkerKeeps

HeirEnds ==
    /\ heir
    /\ heir' = FALSE
    /\ UNCHANGED <<world, now, late, sup, w, pid, report, answer, check, history, stray>>

Worker ==
    \/ CreateWorkspace \/ StageOpen \/ StageCopy \/ StageCompare
    \/ RestoreSqlite \/ RunCheck \/ WorkspaceBudget
    \/ PgSandbox \/ PgInitdb \/ PgServerReady \/ PgRestore
    \/ StageFails \/ CreateReport \/ WriteReport \/ PrintReport

----------------------------------------------------------------------------
(* The supervisor: supervise_report_mode. *)

SupKeeps == UNCHANGED <<world, now, check, history>>

\* read_plan: one stable read of the plan file, parsed and validated.
ReadPlan == ValidatePlan(plan)

\* Sandbox::new, for an unapproved sqlite backup only: a private directory and
\* the backup's canonical path.
TrialSandbox(trial) == trial /\ plan.engine = "sqlite"

\* The plan is read, a trial gets its sandbox, and the worker is spawned.
Spawn ==
    \E trial \in Trials :
        /\ sup.pc = "idle"
        /\ ReadPlan
        /\ sup' = [pc |-> "observe", plan |-> plan, seen |-> FALSE,
                   trial |-> TrialSandbox(trial)]
        /\ w' = [NoWorker EXCEPT !.pc = "create", !.plan = plan, !.file = Path]
        /\ pid' = "own"
        /\ UNCHANGED <<late, heir, report, answer, stray>>
        /\ SupKeeps

\* observe_worker_exit: waitid with WNOWAIT, so the id stays the worker's.
ObserveReaps ==
    /\ sup.pc = "observe"
    /\ sup' = [sup EXCEPT !.pc = "decide", !.seen = @ \/ w.pc = "exited"]
    /\ pid' = IF w.pc = "exited" THEN "free" ELSE pid
    /\ UNCHANGED <<late, w, heir, report, answer, stray>>
    /\ SupKeeps
Observe ==
    /\ sup.pc = "observe"
    /\ sup' = [sup EXCEPT !.pc = "decide", !.seen = @ \/ w.pc = "exited"]
    /\ UNCHANGED <<late, w, pid, heir, report, answer, stray>>
    /\ SupKeeps

\* Whether the pipes have been read to their end.
PipesFinished == w.pc \in {"exited", "reaped"} /\ ~heir

\* await_worker's loop: the deadline first, then the output limit, then the end.
Decide ==
    /\ sup.pc = "decide"
    /\ \E overflow \in BOOLEAN :
          sup' = [sup EXCEPT !.pc = IF late > 0 \/ overflow THEN "kill"
                                    ELSE IF sup.seen /\ PipesFinished THEN "collect"
                                    ELSE "observe"]
    /\ UNCHANGED <<late, w, pid, heir, report, answer, stray>>
    /\ SupKeeps

\* waitid fails: no signal is sent to an id that may not be ours.
WaitFails ==
    /\ sup.pc = "observe" /\ ~sup.seen
    /\ sup' = [sup EXCEPT !.pc = "failed"]
    /\ UNCHANGED <<late, w, pid, heir, report, answer, stray>>
    /\ SupKeeps

\* The whole group is killed, and what is left is reaped by another thread.
Kill ==
    /\ sup.pc = "kill"
    /\ sup' = [sup EXCEPT !.pc = "failed"]
    /\ w' = IF pid = "own" /\ w.pc # "exited" THEN [w EXCEPT !.doomed = TRUE] ELSE w
    /\ heir' = IF pid = "own" THEN FALSE ELSE heir
    /\ stray' = (stray \/ pid = "other")
    /\ UNCHANGED <<late, pid, report, answer>>
    /\ SupKeeps

\* The supervisor's own failed report; the clean-up does not hold it up.
FailedAfterReap ==
    /\ sup.pc = "failed"
    /\ w.pc \in {"exited", "reaped"}
    /\ sup' = [Idle EXCEPT !.pc = "ended"]
    /\ answer' = NewReport(sup.plan)
    /\ late' = 0
    /\ UNCHANGED <<w, pid, heir, report, stray>>
    /\ SupKeeps
AnswerFailed ==
    /\ sup.pc = "failed"
    /\ sup' = [Idle EXCEPT !.pc = "ended"]
    /\ answer' = NewReport(sup.plan)
    /\ late' = 0
    /\ UNCHANGED <<w, pid, heir, report, stray>>
    /\ SupKeeps

Reap ==
    /\ sup.pc \in {"failed", "ended"} /\ w.pc = "exited" /\ pid = "own"
    /\ w' = [NoWorker EXCEPT !.pc = "reaped"]
    /\ pid' = "free"
    /\ UNCHANGED <<late, sup, heir, report, answer, stray>>
    /\ SupKeeps

\* publish: a trial's workspace is renamed to the name asked for, which may be
\* taken; without a trial there is nothing to rename.
Published == IF sup.trial THEN BOOLEAN ELSE {TRUE}

\* Both ended: reap, join the readers, parse what was printed, publish.
Collect ==
    /\ sup.pc = "collect"
    /\ sup' = [Idle EXCEPT !.pc = "ended"]
    /\ w' = [NoWorker EXCEPT !.pc = "reaped"]
    /\ pid' = "free"
    /\ \E published \in Published :
          answer' = IF w.printed # None /\ published THEN w.printed
                    ELSE [status |-> "error"]
    /\ late' = 0
    /\ UNCHANGED <<heir, report, stray>>
    /\ SupKeeps

ReusePid ==
    /\ pid = "free" /\ sup.pc \notin {"idle", "ended"}
    /\ pid' = "other"
    /\ UNCHANGED <<late, sup, w, heir, report, answer, stray>>
    /\ SupKeeps

Supervisor == Spawn \/ Observe \/ Decide \/ Kill \/ AnswerFailed \/ Collect

----------------------------------------------------------------------------
(* `verify`: verify_report. *)

VerifyKeeps == UNCHANGED <<world, drill, now>>
Move(c) == check' = c /\ UNCHANGED history
Reject == check' = [NoCheck EXCEPT !.pc = "ended", !.verdict = "rejected"] /\ Forget

\* require_offline_backup
RequireOfflineBackup(p) == p.engine = "sqlite" => ~journal

\* verify_metadata and verify_checks, at the present time.
VerifyMetadata(p, r) ==
    /\ r.status = "passed"
    /\ r.at <= now
    /\ now - r.at <= MaxAge
    /\ r.binding = PlanBinding(p)
    /\ r.checks = Range(Checks(p))

\* The plan, then the report: both are judged before the backup is read.
VerifyStart ==
    /\ check.pc \in {"idle", "ended"}
    /\ Settled
    /\ ValidatePlan(plan)
    /\ check' = [NoCheck EXCEPT !.pc = "report", !.plan = plan]
    /\ Forget
    /\ VerifyKeeps

VerifyRead ==
    /\ check.pc = "report"
    /\ IF report.status \notin {"none", "partial"}
       THEN Move([check EXCEPT !.pc = "judge", !.report = report])
       ELSE Reject
    /\ VerifyKeeps

VerifyJudge ==
    /\ check.pc = "judge"
    /\ IF VerifyMetadata(check.plan, check.report) /\ RequireOfflineBackup(check.plan)
       THEN Move([check EXCEPT !.pc = "open"])
       ELSE Reject
    /\ VerifyKeeps

\* read_stable_file: the path and the open file must be one and the same.
VerifyOpen ==
    /\ check.pc = "open"
    /\ check' = [check EXCEPT !.pc = "first", !.file = Path, !.stamp = files[Path].stamp]
    /\ held' = {files[Path].body} /\ torn' = {}
    /\ VerifyKeeps

\* The open file and the path still show what they showed at the start.
SameMetadata == check.file = Path /\ files[Path].stamp = check.stamp

FirstRead ==
    /\ check.pc = "first"
    /\ IF Len(check.first) < Parts
       THEN Move([check EXCEPT !.first = Append(@, files[check.file].body[Len(@) + 1])])
       ELSE IF SameMetadata THEN Move([check EXCEPT !.pc = "second"]) ELSE Reject
    /\ VerifyKeeps

\* The file is read a second time, as timestamps can miss a quick write.
TrustMetadata ==
    /\ check.pc = "second"
    /\ IF SameMetadata THEN Move([check EXCEPT !.pc = "decide"]) ELSE Reject
    /\ VerifyKeeps
SecondRead ==
    /\ check.pc = "second"
    /\ IF Len(check.second) < Parts
       THEN Move([check EXCEPT !.second = Append(@, files[check.file].body[Len(@) + 1])])
       ELSE IF check.first = check.second /\ SameMetadata
            THEN Move([check EXCEPT !.pc = "decide"])
            ELSE Reject
    /\ VerifyKeeps

\* The hashes are compared, and report and age judged once more.
VerifyDecide ==
    /\ check.pc = "decide"
    /\ IF /\ RequireOfflineBackup(check.plan)
          /\ check.report.hash = check.first
          /\ VerifyMetadata(check.plan, check.report)
       THEN Move([check EXCEPT !.pc = "ended", !.verdict = "consistent", !.at = now])
       ELSE Reject
    /\ VerifyKeeps

Verify == VerifyStart \/ VerifyRead \/ VerifyJudge \/ VerifyOpen
          \/ FirstRead \/ SecondRead \/ VerifyDecide

Environment == WriteBackup \/ ReplaceBackup \/ ToggleJournal \/ EditPlan \/ Tick
               \/ DeadlinePasses \/ ReusePid

Next == Environment \/ Worker \/ WorkerCrash \/ WorkerDies \/ HeirEnds
        \/ Supervisor \/ WaitFails \/ Reap \/ Verify

Spec == Init /\ [][Next]_vars

\* Time goes on and the supervisor's loop is scheduled; a worker owes nothing.
FairSpec == Spec /\ WF_vars(DeadlinePasses) /\ WF_vars(Supervisor)

----------------------------------------------------------------------------
(* Properties *)

\* PassedIsTested for the reports there are.
ReportsAreTested ==
    \A r \in {report, answer} :
        r.status = "passed" =>
            \E p \in Plans :
                /\ PlanBinding(p) = r.binding
                /\ r.hash \in Bodies
                /\ Broken[r.hash] \intersect (Range(Checks(p)) \union {"header", "restore"}) = {}

\* PassedIsTested for the step that accepts a copy (the end of stage_backup).
CopyIsOfTheFile ==
    w.pc = "copy" /\ w'.pc \in {"restore", "sandbox"} => w.body \in held \/ "copy" \in torn

\* A report that says "passed", on disk or on the terminal, names bytes that
\* do pass every check of the plan it is bound to.  These bytes are a backup: a
\* copy that is restored and tested is what the file held at one moment of the
\* copy, never a mixture of what it held before and after a write, except when
\* that write fell into the copy and no timestamp shows it.
PassedIsTested == []ReportsAreTested /\ [][CopyIsOfTheFile]_vars

\* `test` says "passed" only when the report that says so is complete on disk.
AnsweredIsOnDisk == answer.status = "passed" => report = answer

\* A late worker is killed by its group: never somebody else's group, although
\* the worker may have ended, and its id been given away, in the meantime.
KillsOwnGroup == ~stray

\* When `verify` accepts, the report is no older than allowed at the end of it,
\* and the bytes it was made from were on disk, under that path, at one moment
\* of the verification, except when writes that no timestamp shows fell into
\* both reads of the file: one such read is found out by the other.
AcceptedHolds ==
    check.verdict = "consistent" =>
        /\ check.at - check.report.at \in 0..MaxAge
        /\ check.report.hash \in held \/ {"first", "second"} \subseteq torn

\* A drill that was started gets its answer, even when the worker cannot be killed.
TestEnds == sup.pc # "idle" ~> sup.pc = "ended"
=============================================================================
