------------------------ MODULE ServiceDrill_proofs ------------------------
(***************************************************************************)
(* Proofs about service recovery drills, for backups of any number of      *)
(* parts, any plans, and however often backup, journal and plan change.    *)
(***************************************************************************)
EXTENDS ServiceDrill, TLAPS

AnyPlan == CHOOSE p \in Plans : TRUE

\* What a check may be called: tables, and the checks of the code itself.
Names == STRING \cup {"argos-integrity", "argos-foreign-keys", "argos-user-version",
                      "argos-constraints", "argos-write-read-rollback"}

\* Reports: complete ones, and what is there before or instead of one.
Full == [status : {"passed", "failed"}, binding : {PlanBinding(p) : p \in Plans},
         hash : Seq(Chunks), checks : SUBSET Names, at : Nat]
Short == {[status |-> "none"], [status |-> "partial"], [status |-> "error"]}
Reports == Full \cup Short

Copying == {"create", "open", "copy"}
Restoring == {"restore", "sandbox", "initdb", "server", "pg_restore"}
Reporting == {"report", "write", "print"}
WorkerPcs == {"none", "check", "exited", "reaped"} \cup Copying \cup Restoring \cup Reporting

WorkerType == [pc : WorkerPcs, plan : Plans, file : Nat, stamp : Nat, body : Seq(Chunks), done : Nat,
               failed : BOOLEAN, doomed : BOOLEAN, printed : Reports]
SupPcs == {"idle", "observe", "decide", "kill", "collect", "failed", "ended"}
SupType == [pc : SupPcs, plan : Plans, trial : BOOLEAN, seen : BOOLEAN]
CheckType == [pc : {"idle", "report", "judge", "open", "first", "second", "decide", "ended"},
              plan : Plans, report : Reports, file : Nat, stamp : Nat, first : Seq(Chunks),
              second : Seq(Chunks), verdict : {"none", "rejected", "consistent"}, at : Nat]
FileType == [body : Bodies, stamp : Nat]

WorldTypes ==
    /\ files \in Seq(FileType) /\ files # <<>>
    /\ plan \in Plans /\ unseen \in Nat /\ now \in Nat

Types ==
    /\ WorldTypes
    /\ sup \in SupType /\ w \in WorkerType /\ check \in CheckType
    /\ report \in Reports /\ answer \in Reports /\ pid \in {"own", "free", "other"}

\* A worker that has not failed has copied a whole body that restores and
\* passes what it has run of the plan's checks, in the end all of them.
Passing == w.pc \in Reporting /\ ~w.failed
Staged ==
    /\ w.file <= Len(files)
    /\ w.pc \in Copying => w.file # 0 /\ w.done = 0
    /\ w.pc \in {"create", "open"} => w.body = <<>>
    /\ Len(w.body) <= Parts
    /\ w.pc \in Copying \cup Restoring \cup {"check"} => ~w.failed
    /\ w.pc \in Restoring \cup {"check"} \/ Passing =>
        w.body \in Bodies /\ "header" \notin Broken[w.body]
    /\ w.pc = "check" \/ Passing => "restore" \notin Broken[w.body]
    /\ w.done <= Len(Checks(w.plan))
    /\ \A i \in 1 .. w.done : Checks(w.plan)[i] \notin Broken[w.body]
    /\ Passing => w.done = Len(Checks(w.plan))

\* What a report that says "passed" claims: PassedIsTested, for one report.
Tested(r) ==
    r.status = "passed" =>
        \E p \in Plans :
            /\ PlanBinding(p) = r.binding
            /\ r.hash \in Bodies
            /\ Broken[r.hash] \cap (Range(Checks(p)) \cup {"header", "restore"}) = {}

\* WorkerReport, field by field.
ReportAs == [status |-> IF w.failed THEN "failed" ELSE "passed", binding |-> PlanBinding(w.plan),
             hash |-> w.body, checks |-> {Checks(w.plan)[i] : i \in 1 .. w.done}, at |-> now]

\* A report is printed after it was written, and only its worker writes it;
\* the answer is given when that worker is gone.
OnDisk ==
    /\ Tested(report)
    /\ w.pc = "print" => report = ReportAs
    /\ w.printed.status = "passed" => w.pc = "exited" /\ report = w.printed
    /\ answer.status = "passed" => sup.pc = "ended" /\ w.pc = "reaped" /\ report = answer

\* The id is the worker's until the supervisor has stopped looking at it.
Owned ==
    /\ sup.pc \in {"observe", "decide", "kill", "collect"} => pid = "own"
    /\ pid = "own" => w.pc # "reaped"
    /\ w.doomed => w.pc \notin {"exited", "reaped"}
    /\ ~stray

\* What has been read of an open file whose times have not moved, unless a write
\* fell into the read unseen: so far what is there, in the end what was there once.
Sound(past, spoilt, name, read, body) ==
    name \notin spoilt =>
        IF Len(read) < Parts THEN \A i \in 1 .. Len(read) : read[i] = body[i] ELSE read \in past

\* The same for the copy of the worker.
Copied ==
    w.pc = "copy" =>
        /\ files[w.file].stamp >= w.stamp
        /\ files[w.file].stamp = w.stamp =>
            files[w.file].body \in held /\ Sound(held, torn, "copy", w.body, files[w.file].body)

\* And for the two reads of `verify`, of which one suffices.
Undisturbed ==
    /\ check.pc \in {"first", "second"} =>
        /\ files[check.file].stamp >= check.stamp
        /\ files[check.file].stamp = check.stamp =>
            /\ files[check.file].body \in held
            /\ Sound(held, torn, "first", check.first, files[check.file].body)
            /\ check.pc = "second" => Sound(held, torn, "second", check.second, files[check.file].body)
    /\ check.pc = "decide" => check.first \in held \/ {"first", "second"} \subseteq torn
    /\ check.verdict = "consistent" => check.report.hash \in held \/ {"first", "second"} \subseteq torn

\* Nothing is verified before the worker is gone.
Judged ==
    /\ check.pc # "idle" => w.pc = "reaped" /\ sup.pc = "ended"
    /\ check.file <= Len(files)
    /\ check.pc \in {"first", "second"} => check.file # 0
    /\ check.pc \in {"report", "judge", "open"} => check.first = <<>> /\ check.second = <<>>
    /\ check.pc = "first" => check.second = <<>>
    /\ Len(check.first) <= Parts /\ Len(check.second) <= Parts
    /\ check.pc = "second" => Len(check.first) = Parts
    /\ check.verdict = "consistent" => check.pc = "ended" /\ check.at - check.report.at \in 0 .. MaxAge
    /\ Undisturbed

Inv == Types /\ Staged /\ Copied /\ OnDisk /\ Owned /\ Judged

-----------------------------------------------------------------------------
(* The records of worker, supervisor and verification, field by field.       *)
WorkerAs(pc, p, file, stamp, body, done, failed, doomed, printed) ==
    [pc |-> pc, plan |-> p, file |-> file, stamp |-> stamp, body |-> body, done |-> done,
     failed |-> failed, doomed |-> doomed, printed |-> printed]
CheckAs(pc, p, r, file, stamp, first, second, verdict, at) ==
    [pc |-> pc, plan |-> p, report |-> r, file |-> file, stamp |-> stamp, first |-> first,
     second |-> second, verdict |-> verdict, at |-> at]

Gone(pc, printed) == WorkerAs(pc, AnyPlan, 0, 0, <<>>, 0, FALSE, FALSE, printed)

(* What is left of a worker whose process has ended.                         *)
LEMMA GoneSteps ==
    /\ NoWorker = Gone("none", None)
    /\ Exit => w' = Gone("exited", w.printed)
    /\ \A x : (w' = [NoWorker EXCEPT !.pc = x]) => w' = Gone(x, None)
    /\ \A x, r : (w' = [NoWorker EXCEPT !.pc = x, !.printed = r]) => w' = Gone(x, r)
    /\ \A x, p, n : (w' = [NoWorker EXCEPT !.pc = x, !.plan = p, !.file = n])
            => w' = WorkerAs(x, p, n, 0, <<>>, 0, FALSE, FALSE, None)
<1>1. NoWorker = Gone("none", None)
    BY Zenon DEF NoWorker, Gone, WorkerAs, AnyPlan
<1>2. ASSUME NEW x, NEW r, w' = [NoWorker EXCEPT !.pc = x, !.printed = r]
      PROVE  w' = Gone(x, r)
    BY <1>2, Zenon DEF NoWorker, Gone, WorkerAs, AnyPlan
<1>3. ASSUME NEW x, w' = [NoWorker EXCEPT !.pc = x]
      PROVE  w' = Gone(x, None)
    BY <1>3, Zenon DEF NoWorker, Gone, WorkerAs, AnyPlan
<1>4. ASSUME NEW x, NEW p, NEW n, w' = [NoWorker EXCEPT !.pc = x, !.plan = p, !.file = n]
      PROVE  w' = WorkerAs(x, p, n, 0, <<>>, 0, FALSE, FALSE, None)
    BY <1>4, Zenon DEF NoWorker, Gone, WorkerAs, AnyPlan
<1>5. Exit => w' = Gone("exited", w.printed)
    BY <1>2, Zenon DEF Exit
<1> QED BY <1>1, <1>2, <1>3, <1>4, <1>5, Zenon

(* What a step of the worker changes of its record, and what it leaves.      *)
LEMMA WorkerSteps ==
    ASSUME w \in WorkerType
    PROVE  /\ \A x : To(x) => w' = WorkerAs(x, w.plan, w.file, w.stamp, w.body, w.done, w.failed, w.doomed, w.printed)
           /\ Fail => w' = WorkerAs("report", w.plan, 0, 0, IF w.pc \in {"open", "copy"} THEN <<>> ELSE w.body,
                                    w.done, TRUE, w.doomed, w.printed)
           /\ \A n, s : w' = [w EXCEPT !.pc = "copy", !.file = n, !.stamp = s]
                => w' = WorkerAs("copy", w.plan, n, s, w.body, w.done, w.failed, w.doomed, w.printed)
           /\ \A x : w' = [w EXCEPT !.pc = x, !.file = 0, !.stamp = 0]
                => w' = WorkerAs(x, w.plan, 0, 0, w.body, w.done, w.failed, w.doomed, w.printed)
           /\ \A x : w' = [w EXCEPT !.body = x]
                => w' = WorkerAs(w.pc, w.plan, w.file, w.stamp, x, w.done, w.failed, w.doomed, w.printed)
           /\ \A x : w' = [w EXCEPT !.done = x]
                => w' = WorkerAs(w.pc, w.plan, w.file, w.stamp, w.body, x, w.failed, w.doomed, w.printed)
           /\ \A x : w' = [w EXCEPT !.doomed = x]
                => w' = WorkerAs(w.pc, w.plan, w.file, w.stamp, w.body, w.done, w.failed, x, w.printed)
<1>1. ASSUME NEW x, To(x)
      PROVE  w' = WorkerAs(x, w.plan, w.file, w.stamp, w.body, w.done, w.failed, w.doomed, w.printed)
    BY <1>1, Zenon DEF To, WorkerType, WorkerAs
<1>2. ASSUME Fail
      PROVE  w' = WorkerAs("report", w.plan, 0, 0, IF w.pc \in {"open", "copy"} THEN <<>> ELSE w.body,
                           w.done, TRUE, w.doomed, w.printed)
    BY <1>2, Zenon DEF Fail, WorkerType, WorkerAs
<1>3. ASSUME NEW n, NEW s, w' = [w EXCEPT !.pc = "copy", !.file = n, !.stamp = s]
      PROVE  w' = WorkerAs("copy", w.plan, n, s, w.body, w.done, w.failed, w.doomed, w.printed)
    BY <1>3, Zenon DEF WorkerType, WorkerAs
<1>4. ASSUME NEW x, w' = [w EXCEPT !.pc = x, !.file = 0, !.stamp = 0]
      PROVE  w' = WorkerAs(x, w.plan, 0, 0, w.body, w.done, w.failed, w.doomed, w.printed)
    BY <1>4, Zenon DEF WorkerType, WorkerAs
<1>5. ASSUME NEW x, w' = [w EXCEPT !.body = x]
      PROVE  w' = WorkerAs(w.pc, w.plan, w.file, w.stamp, x, w.done, w.failed, w.doomed, w.printed)
    BY <1>5, Zenon DEF WorkerType, WorkerAs
<1>6. ASSUME NEW x, w' = [w EXCEPT !.done = x]
      PROVE  w' = WorkerAs(w.pc, w.plan, w.file, w.stamp, w.body, x, w.failed, w.doomed, w.printed)
    BY <1>6, Zenon DEF WorkerType, WorkerAs
<1>7. ASSUME NEW x, w' = [w EXCEPT !.doomed = x]
      PROVE  w' = WorkerAs(w.pc, w.plan, w.file, w.stamp, w.body, w.done, w.failed, x, w.printed)
    BY <1>7, Zenon DEF WorkerType, WorkerAs
<1> QED BY <1>1, <1>2, <1>3, <1>4, <1>5, <1>6, <1>7, Zenon

(* The same for the verification.                                            *)
LEMMA CheckSteps ==
    ASSUME check \in CheckType
    PROVE  /\ NoCheck = CheckAs("idle", AnyPlan, None, 0, 0, <<>>, <<>>, "none", 0)
           /\ Reject => check' = CheckAs("ended", AnyPlan, None, 0, 0, <<>>, <<>>, "rejected", 0)
           /\ \A p : check' = [NoCheck EXCEPT !.pc = "report", !.plan = p]
                => check' = CheckAs("report", p, None, 0, 0, <<>>, <<>>, "none", 0)
           /\ \A r : check' = [check EXCEPT !.pc = "judge", !.report = r]
                => check' = CheckAs("judge", check.plan, r, check.file, check.stamp, check.first, check.second, check.verdict, check.at)
           /\ \A x : check' = [check EXCEPT !.pc = x]
                => check' = CheckAs(x, check.plan, check.report, check.file, check.stamp, check.first, check.second, check.verdict, check.at)
           /\ \A n, s : check' = [check EXCEPT !.pc = "first", !.file = n, !.stamp = s]
                => check' = CheckAs("first", check.plan, check.report, n, s, check.first, check.second, check.verdict, check.at)
           /\ \A x : check' = [check EXCEPT !.first = x]
                => check' = CheckAs(check.pc, check.plan, check.report, check.file, check.stamp, x, check.second, check.verdict, check.at)
           /\ \A x : check' = [check EXCEPT !.second = x]
                => check' = CheckAs(check.pc, check.plan, check.report, check.file, check.stamp, check.first, x, check.verdict, check.at)
           /\ \A n : check' = [check EXCEPT !.pc = "ended", !.verdict = "consistent", !.at = n]
                => check' = CheckAs("ended", check.plan, check.report, check.file, check.stamp, check.first, check.second, "consistent", n)
<1>1. NoCheck = CheckAs("idle", AnyPlan, None, 0, 0, <<>>, <<>>, "none", 0)
    BY Zenon DEF NoCheck, CheckAs, AnyPlan
<1>2. ASSUME Reject PROVE check' = CheckAs("ended", AnyPlan, None, 0, 0, <<>>, <<>>, "rejected", 0)
    BY <1>2, Zenon DEF Reject, NoCheck, CheckAs, AnyPlan
<1>3. ASSUME NEW p, check' = [NoCheck EXCEPT !.pc = "report", !.plan = p]
      PROVE  check' = CheckAs("report", p, None, 0, 0, <<>>, <<>>, "none", 0)
    BY <1>3, Zenon DEF NoCheck, CheckAs, AnyPlan
<1>4. ASSUME NEW r, check' = [check EXCEPT !.pc = "judge", !.report = r]
      PROVE  check' = CheckAs("judge", check.plan, r, check.file, check.stamp, check.first, check.second, check.verdict, check.at)
    BY <1>4, Zenon DEF CheckType, CheckAs
<1>5. ASSUME NEW x, check' = [check EXCEPT !.pc = x]
      PROVE  check' = CheckAs(x, check.plan, check.report, check.file, check.stamp, check.first, check.second, check.verdict, check.at)
    BY <1>5, Zenon DEF CheckType, CheckAs
<1>6. ASSUME NEW n, NEW s, check' = [check EXCEPT !.pc = "first", !.file = n, !.stamp = s]
      PROVE  check' = CheckAs("first", check.plan, check.report, n, s, check.first, check.second, check.verdict, check.at)
    BY <1>6, Zenon DEF CheckType, CheckAs
<1>7. ASSUME NEW x, check' = [check EXCEPT !.first = x]
      PROVE  check' = CheckAs(check.pc, check.plan, check.report, check.file, check.stamp, x, check.second, check.verdict, check.at)
    BY <1>7, Zenon DEF CheckType, CheckAs
<1>8. ASSUME NEW x, check' = [check EXCEPT !.second = x]
      PROVE  check' = CheckAs(check.pc, check.plan, check.report, check.file, check.stamp, check.first, x, check.verdict, check.at)
    BY <1>8, Zenon DEF CheckType, CheckAs
<1>9. ASSUME NEW n, check' = [check EXCEPT !.pc = "ended", !.verdict = "consistent", !.at = n]
      PROVE  check' = CheckAs("ended", check.plan, check.report, check.file, check.stamp, check.first, check.second, "consistent", n)
    BY <1>9, Zenon DEF CheckType, CheckAs
<1> QED BY <1>1, <1>2, <1>3, <1>4, <1>5, <1>6, <1>7, <1>8, <1>9, Zenon

(* The worker's report, and a failed one, field by field.                    *)
LEMMA ReportShapes ==
    /\ WorkerReport = ReportAs
    /\ \A p : NewReport(p) = [status |-> "failed", binding |-> PlanBinding(p), hash |-> <<>>,
                              checks |-> {}, at |-> now]
<1>1. ASSUME NEW q, q = WorkerReport PROVE q = ReportAs
    BY <1>1, Zenon DEF WorkerReport, ReportAs, NewReport
<1> QED BY <1>1, Zenon DEF NewReport

(* The checks of a plan are a sequence of names.                             *)
LEMMA ChecksTyped == \A p \in Plans : Checks(p) \in Seq(Names) /\ Len(Checks(p)) \in Nat
<1> SUFFICES ASSUME NEW p \in Plans PROVE Checks(p) \in Seq(Names)
    OBVIOUS
<1>1. p.tables \in Seq(Names)
    BY DrillAssumption DEF Names
<1>2. \A s, t \in Seq(Names) : s \o t \in Seq(Names)
    OBVIOUS
<1>3. /\ "argos-integrity" \in Names /\ "argos-foreign-keys" \in Names /\ "argos-user-version" \in Names
      /\ "argos-constraints" \in Names /\ "argos-write-read-rollback" \in Names
    BY DEF Names
<1>4. /\ <<"argos-integrity", "argos-foreign-keys">> \in Seq(Names)
      /\ <<"argos-user-version">> \in Seq(Names) /\ <<>> \in Seq(Names)
      /\ <<"argos-constraints">> \in Seq(Names) /\ <<"argos-write-read-rollback">> \in Seq(Names)
    BY <1>3
<1> QED BY <1>1, <1>2, <1>4, Zenon DEF Checks

(* The kinds of reports: what is not a complete report has another status.   *)
LEMMA ReportKinds ==
    /\ None \in Reports /\ None.status = "none"
    /\ [status |-> "partial"] \in Reports /\ [status |-> "partial"].status = "partial"
    /\ [status |-> "error"] \in Reports /\ [status |-> "error"].status = "error"
    /\ \A r \in Reports : r.status = "passed" => r \in Full
BY DEF Reports, Short, None

(* The bound on the parts, and the plan that stands for no plan.             *)
LEMMA Bounds == Parts \in Nat /\ Parts > 0 /\ MaxAge \in Nat /\ (plan \in Plans => AnyPlan \in Plans)
BY DrillAssumption DEF AnyPlan

(* A worker that has ended is typed and has nothing staged.                  *)
LEMMA GoneIsStaged ==
    ASSUME Types, NEW pc \in {"none", "exited", "reaped"}, NEW r \in Reports,
           w' = Gone(pc, r), files' = files
    PROVE  w' \in WorkerType /\ Staged'
<1>1. AnyPlan \in Plans
    BY Bounds DEF Types, WorldTypes
<1>2. w' \in WorkerType
    BY <1>1 DEF Gone, WorkerAs, WorkerType, WorkerPcs
<1>3. /\ w'.pc = pc /\ w'.file = 0 /\ w'.body = <<>> /\ w'.done = 0 /\ w'.plan = AnyPlan
    BY DEF Gone, WorkerAs
<1>4. Len(files) \in Nat
    BY DEF Types, WorldTypes
<1>5. Len(Checks(w'.plan)) \in Nat
    BY <1>1, <1>3, ChecksTyped
<1>6. ~Passing'
    BY <1>3 DEF Passing, Reporting
<1>7. Len(w'.body) <= Parts
    BY <1>3, Bounds
<1> QED BY <1>2, <1>3, <1>4, <1>5, <1>6, <1>7 DEF Staged, Copying, Restoring

(* What is read is a part of the file more, and in the end all of it.        *)
LEMMA ReadsOn ==
    ASSUME NEW body \in Bodies, NEW read \in Seq(Chunks), Len(read) < Parts, NEW past, body \in past,
           NEW spoilt, NEW name, Sound(past, spoilt, name, read, body)
    PROVE  /\ Append(read, body[Len(read) + 1]) \in Seq(Chunks)
           /\ Len(Append(read, body[Len(read) + 1])) = Len(read) + 1
           /\ Sound(past, spoilt, name, Append(read, body[Len(read) + 1]), body)
<1> DEFINE n == Len(read)
           s == Append(read, body[n + 1])
<1>0. n \in Nat /\ n + 1 \in 1 .. Parts /\ Parts \in Nat
    BY Bounds
<1>1. body[n + 1] \in Chunks
    BY <1>0 DEF Bodies
<1>2. s \in Seq(Chunks) /\ Len(s) = n + 1 /\ s[n + 1] = body[n + 1] /\ \A i \in 1 .. n : s[i] = read[i]
    BY <1>0, <1>1
<1> HIDE DEF s
<1>3. ASSUME name \notin spoilt PROVE \A i \in 1 .. n + 1 : s[i] = body[i]
    <2>1. \A i \in 1 .. n : read[i] = body[i]
        BY <1>3 DEF Sound
    <2>2. \A i \in 1 .. n + 1 : i \in 1 .. n \/ i = n + 1
        BY <1>0
    <2> QED BY <1>2, <2>1, <2>2
<1>4. ASSUME name \notin spoilt, ~(n + 1 < Parts) PROVE s \in past
    <2>1. n + 1 = Parts
        BY <1>0, <1>4
    <2>2. s \in [1 .. Parts -> Chunks] /\ body \in [1 .. Parts -> Chunks]
        BY <1>2, <2>1 DEF Bodies
    <2>3. ASSUME NEW f \in [1 .. Parts -> Chunks], NEW g \in [1 .. Parts -> Chunks],
                 \A i \in 1 .. Parts : f[i] = g[i]
          PROVE  f = g
        <3>1. f = [i \in 1 .. Parts |-> f[i]] /\ g = [i \in 1 .. Parts |-> g[i]]
            OBVIOUS
        <3>2. [i \in 1 .. Parts |-> f[i]] = [i \in 1 .. Parts |-> g[i]]
            BY <2>3, Zenon
        <3> QED BY <3>1, <3>2, Zenon
    <2>4. \A i \in 1 .. Parts : s[i] = body[i]
        BY <1>3, <1>4, <2>1
    <2>5. s = body
        BY <2>2, <2>3, <2>4, Zenon
    <2> QED BY <2>5
<1>5. Sound(past, spoilt, name, s, body)
    BY <1>2, <1>3, <1>4 DEF Sound
<1> QED BY <1>2, <1>5 DEF s

-----------------------------------------------------------------------------
(* The steps of the worker.                                                  *)

\* What every step of the worker leaves alone, but for the report.
Leaves == UNCHANGED <<files, journal, plan, unseen, now, sup, pid, answer, check, stray>>

(* Until the drill is over nothing is being verified.                        *)
LEMMA NotYetJudged ==
    ASSUME Judged, w.pc # "reaped" \/ sup.pc # "ended", files' = files, check' = check
    PROVE  Judged'
BY DEF Judged, Undisturbed

(* A stage that is entered keeps the invariant if what was staged is sound.  *)
LEMMA Advances ==
    ASSUME Inv, Leaves, report' = report, w.pc \notin {"exited", "reaped"},
           w' \in WorkerType, Staged', w'.pc \notin {"print", "exited", "reaped"},
           w'.printed = w.printed, w'.pc = "copy" => Copied'
    PROVE  Inv'
<1>1. Types'
    BY DEF Inv, Types, WorldTypes, Leaves
<1>2. OnDisk'
    BY DEF Inv, OnDisk, Leaves, Tested
<1>3. Owned'
    BY DEF Inv, Owned, Leaves
<1>4. Judged'
    BY NotYetJudged DEF Inv, Leaves
<1>5. Copied'
    BY DEF Copied
<1> QED BY <1>1, <1>2, <1>3, <1>4, <1>5 DEF Inv

(* A worker that ends early has printed nothing.                             *)
LEMMA Ends ==
    ASSUME Inv, Leaves, report' = report, w.pc \notin {"exited", "reaped"}, Exit
    PROVE  Inv'
<1>1. w' = Gone("exited", w.printed) /\ w.printed \in Reports
    BY GoneSteps, Zenon DEF Inv, Types, WorkerType
<1>2. w' \in WorkerType /\ Staged'
    BY <1>1, GoneIsStaged DEF Inv, Leaves
<1>3. w'.pc = "exited" /\ w'.printed = w.printed /\ w'.doomed = FALSE
    BY <1>1 DEF Gone, WorkerAs
<1>4. Types'
    BY <1>2 DEF Inv, Types, WorldTypes, Leaves
<1>5. OnDisk'
    BY <1>3 DEF Inv, OnDisk, Leaves, Tested
<1>6. Owned'
    BY <1>3 DEF Inv, Owned, Leaves
<1>7. Judged' /\ Copied'
    BY <1>3, NotYetJudged DEF Inv, Copied, Leaves
<1> QED BY <1>2, <1>4, <1>5, <1>6, <1>7 DEF Inv

(* A failed stage leads to a failed report.                                  *)
LEMMA Fails ==
    ASSUME Inv, Leaves, report' = report, w.pc \in Copying \cup Restoring \cup {"check"}, w.pc # "create", Fail
    PROVE  Inv'
<1>0. Types /\ Staged /\ w \in WorkerType
    BY DEF Inv, Types
<1> DEFINE b == IF w.pc \in {"open", "copy"} THEN <<>> ELSE w.body
<1>1. w' = WorkerAs("report", w.plan, 0, 0, b, w.done, TRUE, w.doomed, w.printed)
    BY <1>0, WorkerSteps, Zenon
<1>2. b \in Seq(Chunks) /\ Len(b) <= Parts
    BY <1>0, Bounds DEF Staged, WorkerType
<1>3. w' \in WorkerType
    BY <1>0, <1>1, <1>2 DEF WorkerAs, WorkerType, WorkerPcs, Reporting
<1>4. /\ w'.pc = "report" /\ w'.plan = w.plan /\ w'.file = 0 /\ w'.body = b /\ w'.done = w.done
      /\ w'.failed = TRUE /\ w'.printed = w.printed
    BY <1>1 DEF WorkerAs
<1> HIDE DEF b
<1>5. ~Passing' /\ w'.pc \notin Copying \cup Restoring
    BY <1>4 DEF Passing, Copying, Restoring
<1>6. b = w.body \/ w.done = 0
    BY <1>0 DEF Staged, Copying, b
<1>7. w.done <= Len(Checks(w.plan)) /\ \A i \in 1 .. w.done : Checks(w.plan)[i] \notin Broken[w.body]
    BY <1>0 DEF Staged
<1>8. \A i \in 1 .. w.done : Checks(w.plan)[i] \notin Broken[b]
    BY <1>6, <1>7
<1>9. Len(files) \in Nat /\ files' = files
    BY <1>0 DEF Types, WorldTypes, Leaves
<1>10. Staged'
    BY <1>2, <1>4, <1>5, <1>7, <1>8, <1>9 DEF Staged
<1> QED BY <1>3, <1>4, <1>10, Advances DEF Copying, Restoring

(* The workspace is made, or the worker ends without a report.               *)
LEMMA CreateWorkspaceSafe == ASSUME Inv, CreateWorkspace PROVE Inv'
<1>0. /\ w.pc = "create" /\ Leaves /\ report' = report /\ (To("open") \/ Exit)
    BY Zenon DEF CreateWorkspace, At, WorkerKeeps, CopyKeeps, world, Leaves
<1>1. CASE Exit
    BY <1>0, <1>1, Ends
<1>2. CASE To("open")
    <2>0. Types /\ Staged /\ w \in WorkerType
        BY DEF Inv, Types
    <2>1. w' = WorkerAs("open", w.plan, w.file, w.stamp, w.body, w.done, w.failed, w.doomed, w.printed)
        BY <1>2, <2>0, WorkerSteps, Zenon
    <2>2. w' \in WorkerType
        BY <2>0, <2>1 DEF WorkerAs, WorkerType, WorkerPcs, Copying
    <2>3. /\ w'.pc = "open" /\ w'.plan = w.plan /\ w'.file = w.file /\ w'.body = w.body
          /\ w'.done = w.done /\ w'.failed = w.failed /\ w'.printed = w.printed
        BY <2>1 DEF WorkerAs
    <2>4. Staged'
        BY <1>0, <2>0, <2>3 DEF Staged, Passing, Copying, Restoring, Reporting, Leaves
    <2> QED BY <1>0, <2>2, <2>3, <2>4, Advances
<1> QED BY <1>0, <1>1, <1>2

(* Opening the backup names a file that is there.                            *)
LEMMA StageOpenSafe == ASSUME Inv, StageOpen PROVE Inv'
<1>0. /\ w.pc = "open" /\ Leaves /\ report' = report
      /\ \/ Fail
         \/ /\ w' = [w EXCEPT !.pc = "copy", !.file = BoundBackup, !.stamp = files[BoundBackup].stamp]
            /\ held' = {files[BoundBackup].body} /\ torn' = {}
    BY Zenon DEF StageOpen, At, CopyKeeps, world, Leaves
<1>1. CASE Fail
    BY <1>0, <1>1, Fails DEF Copying
<1>2. CASE /\ w' = [w EXCEPT !.pc = "copy", !.file = BoundBackup, !.stamp = files[BoundBackup].stamp]
           /\ held' = {files[BoundBackup].body} /\ torn' = {}
    <2>0. Types /\ Staged /\ w \in WorkerType
        BY DEF Inv, Types
    <2>1. w' = WorkerAs("copy", w.plan, BoundBackup, files[BoundBackup].stamp, w.body, w.done, w.failed, w.doomed, w.printed)
        BY <1>2, <2>0, WorkerSteps, Zenon
    <2>2. Len(files) \in Nat \ {0} /\ \A n \in 1 .. Len(files) : files[n] \in FileType
        BY <2>0 DEF Types, WorldTypes
    <2>3. BoundBackup \in 1 .. Len(files)
        BY <1>0, <2>0, <2>2 DEF BoundBackup, Path, Staged, Copying, WorkerType
    <2>4. w' \in WorkerType
        BY <2>0, <2>1, <2>2, <2>3 DEF WorkerAs, WorkerType, WorkerPcs, Copying, FileType
    <2>5. /\ w'.pc = "copy" /\ w'.plan = w.plan /\ w'.file = BoundBackup /\ w'.body = w.body
          /\ w'.stamp = files[BoundBackup].stamp
          /\ w'.done = w.done /\ w'.failed = w.failed /\ w'.printed = w.printed
        BY <2>1 DEF WorkerAs
    <2>6. Staged'
        BY <1>0, <2>0, <2>3, <2>5 DEF Staged, Passing, Copying, Restoring, Reporting, Leaves
    <2>7. Copied'
        <3>1. files[BoundBackup].stamp \in Nat /\ files' = files
            BY <1>0, <2>2, <2>3 DEF FileType, Leaves
        <3>2. w'.body = <<>> /\ Len(w'.body) = 0 /\ Len(w'.body) < Parts
            BY <1>0, <2>0, <2>5, Bounds DEF Staged
        <3>3. files[BoundBackup].body \in held'
            BY <1>2
        <3> QED BY <2>5, <3>1, <3>2, <3>3 DEF Copied, Sound
    <2> QED BY <1>0, <2>4, <2>5, <2>6, <2>7, Advances
<1> QED BY <1>0, <1>1, <1>2

(* The copy takes the next part of the open file.                            *)
LEMMA StageCopySafe == ASSUME Inv, StageCopy PROVE Inv'
<1> DEFINE b == Append(w.body, files[w.file].body[Len(w.body) + 1])
<1>0. /\ w.pc = "copy" /\ Len(w.body) < Parts /\ Leaves /\ report' = report
      /\ Fail \/ w' = [w EXCEPT !.body = b]
      /\ held' = held /\ torn' = torn
    BY Zenon DEF StageCopy, history, At, WorkerKeeps, CopyKeeps, world, Leaves
<1>1. CASE Fail
    BY <1>0, <1>1, Fails DEF Copying
<1>2. CASE w' = [w EXCEPT !.body = b]
    <2>0. Types /\ Staged /\ w \in WorkerType
        BY DEF Inv, Types
    <2>1. w' = WorkerAs(w.pc, w.plan, w.file, w.stamp, b, w.done, w.failed, w.doomed, w.printed)
        BY <1>2, <2>0, WorkerSteps, Zenon
    <2>2. w.file \in 1 .. Len(files) /\ w.body \in Seq(Chunks) /\ Len(w.body) + 1 \in 1 .. Parts
        BY <1>0, <2>0, Bounds DEF Staged, Copying, WorkerType, Types, WorldTypes
    <2>3. files[w.file].body \in Bodies
        <3>1. files[w.file] \in FileType
            BY <2>0, <2>2 DEF Types, WorldTypes
        <3> QED BY <3>1 DEF FileType
    <2>4. files[w.file].body[Len(w.body) + 1] \in Chunks
        BY <2>2, <2>3 DEF Bodies
    <2>5. b \in Seq(Chunks) /\ Len(b) = Len(w.body) + 1
        BY <2>2, <2>4
    <2>6. w' \in WorkerType
        BY <2>0, <2>1, <2>5 DEF WorkerAs, WorkerType
    <2>7. /\ w'.pc = "copy" /\ w'.plan = w.plan /\ w'.file = w.file /\ w'.body = b /\ w'.stamp = w.stamp
          /\ w'.done = w.done /\ w'.failed = w.failed /\ w'.printed = w.printed
        BY <1>0, <2>1 DEF WorkerAs
    <2> HIDE DEF b
    <2>8. Staged'
        BY <1>0, <2>0, <2>2, <2>5, <2>7 DEF Staged, Passing, Copying, Restoring, Reporting, Leaves
    <2>9. files[w.file].stamp = w.stamp => Sound(held, torn, "copy", b, files[w.file].body)
        BY <1>0, <2>2, <2>3, ReadsOn DEF Inv, Copied, b
    <2>10. Copied'
        BY <1>0, <2>7, <2>9 DEF Inv, Copied, Leaves
    <2> QED BY <1>0, <2>6, <2>7, <2>8, <2>10, Advances
<1> QED BY <1>0, <1>1, <1>2

(* A copied body is whole, and its header is sound.                          *)
LEMMA StageCompareSafe == ASSUME Inv, StageCompare PROVE Inv'
<1> DEFINE x == IF w.plan.engine = "sqlite" THEN "restore" ELSE "sandbox"
<1>0. /\ w.pc = "copy" /\ Len(w.body) = Parts /\ Leaves /\ report' = report
      /\ Fail \/ (~FailsOn("header") /\ w' = [w EXCEPT !.pc = x, !.file = 0, !.stamp = 0])
    BY Zenon DEF StageCompare, At, CopyKeeps, world, Leaves
<1>1. CASE Fail
    BY <1>0, <1>1, Fails DEF Copying
<1>2. CASE ~FailsOn("header") /\ w' = [w EXCEPT !.pc = x, !.file = 0, !.stamp = 0]
    <2>0. Types /\ Staged /\ w \in WorkerType
        BY DEF Inv, Types
    <2>1. w' = WorkerAs(x, w.plan, 0, 0, w.body, w.done, w.failed, w.doomed, w.printed)
        BY <1>2, <2>0, WorkerSteps, Zenon
    <2>2. x \in {"restore", "sandbox"}
        OBVIOUS
    <2> HIDE DEF x
    <2>3. w' \in WorkerType
        BY <2>0, <2>1, <2>2 DEF WorkerAs, WorkerType, WorkerPcs, Restoring
    <2>4. /\ w'.pc = x /\ w'.plan = w.plan /\ w'.file = 0 /\ w'.body = w.body
          /\ w'.done = w.done /\ w'.failed = w.failed /\ w'.printed = w.printed
        BY <2>1 DEF WorkerAs
    <2>5. w.body \in Bodies
        <3>1. w.body \in Seq(Chunks)
            BY <2>0 DEF WorkerType
        <3>2. w.body \in [1 .. Len(w.body) -> Chunks]
            BY <3>1
        <3> QED BY <1>0, <3>2 DEF Bodies
    <2>6. Len(files) \in Nat /\ "header" \notin Broken[w.body]
        BY <1>2, <2>0 DEF Types, WorldTypes, FailsOn
    <2>7. Staged'
        BY <1>0, <2>0, <2>2, <2>4, <2>5, <2>6 DEF Staged, Passing, Copying, Restoring, Reporting, Leaves
    <2> QED BY <1>0, <2>2, <2>3, <2>4, <2>7, Advances
<1> QED BY <1>0, <1>1, <1>2

(* A stage that touches nothing but the program counter.                     *)
LEMMA Proceeds ==
    ASSUME Inv, Leaves, report' = report, NEW x, To(x),
           \/ w.pc \in Restoring /\ x \in Restoring
           \/ w.pc \in Restoring /\ x = "check" /\ ~FailsOn("restore")
           \/ w.pc = "check" /\ x = "report" /\ w.done = Len(Checks(w.plan))
    PROVE  Inv'
<1>0. Types /\ Staged /\ w \in WorkerType
    BY DEF Inv, Types
<1>1. w' = WorkerAs(x, w.plan, w.file, w.stamp, w.body, w.done, w.failed, w.doomed, w.printed)
    BY <1>0, WorkerSteps, Zenon
<1>2. w' \in WorkerType
    BY <1>0, <1>1 DEF WorkerAs, WorkerType, WorkerPcs, Restoring, Reporting
<1>3. /\ w'.pc = x /\ w'.plan = w.plan /\ w'.file = w.file /\ w'.body = w.body
      /\ w'.done = w.done /\ w'.failed = w.failed /\ w'.printed = w.printed
    BY <1>1 DEF WorkerAs
<1>4. Staged'
    BY <1>0, <1>3 DEF Staged, Passing, Copying, Restoring, Reporting, Leaves, FailsOn
<1>5. x \notin {"copy", "print", "exited", "reaped"} /\ w.pc \notin {"exited", "reaped"}
    BY DEF Restoring
<1> QED BY <1>2, <1>3, <1>4, <1>5, Advances

(* The stages of the restore.                                                *)
LEMMA RestoreSafe ==
    ASSUME Inv, RestoreSqlite \/ PgSandbox \/ PgInitdb \/ PgServerReady \/ PgRestore
    PROVE  Inv'
<1>0. Leaves /\ report' = report /\ w.pc \in Restoring
    BY Zenon DEF RestoreSqlite, PgSandbox, PgInitdb, PgServerReady, PgRestore, At, WorkerKeeps, CopyKeeps, world, Leaves, Restoring
<1>1. \/ Fail
      \/ \E x \in Restoring : To(x)
      \/ To("check") /\ ~FailsOn("restore")
    BY Zenon DEF RestoreSqlite, PgSandbox, PgInitdb, PgServerReady, PgRestore, Restoring
<1>2. CASE Fail
    BY <1>0, <1>2, Fails DEF Restoring
<1>3. CASE \E x \in Restoring : To(x)
    BY <1>0, <1>3, Proceeds
<1>4. CASE To("check") /\ ~FailsOn("restore")
    BY <1>0, <1>4, Proceeds
<1> QED BY <1>1, <1>2, <1>3, <1>4

(* A check that holds is counted, one that does not fails the drill.         *)
LEMMA RunCheckSafe == ASSUME Inv, RunCheck PROVE Inv'
<1> DEFINE c == Checks(w.plan)[w.done + 1]
<1>0. /\ w.pc = "check" /\ w.done < Len(Checks(w.plan)) /\ Leaves /\ report' = report
      /\ Fail \/ (CheckHolds(c) /\ w' = [w EXCEPT !.done = w.done + 1])
    BY Zenon DEF RunCheck, At, WorkerKeeps, CopyKeeps, world, Leaves
<1>1. CASE Fail
    BY <1>0, <1>1, Fails
<1>2. CASE CheckHolds(c) /\ w' = [w EXCEPT !.done = w.done + 1]
    <2>0. Types /\ Staged /\ w \in WorkerType
        BY DEF Inv, Types
    <2>1. w' = WorkerAs(w.pc, w.plan, w.file, w.stamp, w.body, w.done + 1, w.failed, w.doomed, w.printed)
        BY <1>2, <2>0, WorkerSteps, Zenon
    <2>2. c \notin Broken[w.body]
        BY <1>2 DEF CheckHolds, HoldsInSqlite, HoldsInPostgres, PgQuery, FailsOn
    <2>3. w.done \in Nat /\ Len(Checks(w.plan)) \in Nat
        BY <2>0, ChecksTyped DEF WorkerType
    <2>4. w' \in WorkerType
        BY <2>0, <2>1, <2>3 DEF WorkerAs, WorkerType
    <2>5. /\ w'.pc = "check" /\ w'.plan = w.plan /\ w'.file = w.file /\ w'.body = w.body
          /\ w'.done = w.done + 1 /\ w'.failed = w.failed /\ w'.printed = w.printed
        BY <1>0, <2>1 DEF WorkerAs
    <2>6. \A i \in 1 .. w.done + 1 : Checks(w.plan)[i] \notin Broken[w.body]
        <3>1. \A i \in 1 .. w.done : Checks(w.plan)[i] \notin Broken[w.body]
            BY <2>0 DEF Staged
        <3>2. \A i \in 1 .. w.done + 1 : i \in 1 .. w.done \/ i = w.done + 1
            BY <2>3
        <3> QED BY <2>2, <3>1, <3>2
    <2>7. w.done + 1 <= Len(Checks(w.plan))
        BY <1>0, <2>3
    <2> HIDE DEF c
    <2>8. Staged'
        BY <1>0, <2>0, <2>5, <2>6, <2>7 DEF Staged, Passing, Copying, Restoring, Reporting, Leaves
    <2>9. w.pc \notin {"exited", "reaped"} /\ w'.pc \notin {"copy", "print", "exited", "reaped"}
        BY <1>0, <2>5
    <2> QED BY <1>0, <2>4, <2>5, <2>8, <2>9, Advances
<1> QED BY <1>0, <1>1, <1>2

(* The last look at the deadline comes after every check.                    *)
LEMMA WorkspaceBudgetSafe == ASSUME Inv, WorkspaceBudget PROVE Inv'
<1>0. /\ w.pc = "check" /\ w.done = Len(Checks(w.plan)) /\ Leaves /\ report' = report
      /\ Fail \/ To("report")
    BY Zenon DEF WorkspaceBudget, At, WorkerKeeps, CopyKeeps, world, Leaves
<1>1. CASE Fail
    BY <1>0, <1>1, Fails
<1>2. CASE To("report")
    BY <1>0, <1>2, Proceeds
<1> QED BY <1>0, <1>1, <1>2

(* Any stage may fail.                                                       *)
LEMMA StageFailsSafe == ASSUME Inv, StageFails PROVE Inv'
<1>0. /\ w.pc \notin {"none", "create", "report", "write", "print", "exited", "reaped"}
      /\ Leaves /\ report' = report /\ Fail
    BY Zenon DEF StageFails, WorkerKeeps, CopyKeeps, world, Leaves
<1>1. w.pc \in WorkerPcs
    BY DEF Inv, Types, WorkerType
<1> QED BY <1>0, <1>1, Fails DEF WorkerPcs, Copying, Restoring, Reporting

(* A report that is being written is none yet.                               *)
LEMMA CreateReportSafe == ASSUME Inv, CreateReport PROVE Inv'
<1>0. /\ w.pc = "report" /\ Leaves
      /\ \/ report' = [status |-> "partial"] /\ To("write")
         \/ report' = report /\ Exit
    BY Zenon DEF CreateReport, At, WorkerKeeps, CopyKeeps, world, Leaves
<1>1. CASE report' = report /\ Exit
    BY <1>0, <1>1, Ends
<1>2. CASE report' = [status |-> "partial"] /\ To("write")
    <2>0. Types /\ Staged /\ w \in WorkerType
        BY DEF Inv, Types
    <2>1. w' = WorkerAs("write", w.plan, w.file, w.stamp, w.body, w.done, w.failed, w.doomed, w.printed)
        BY <1>2, <2>0, WorkerSteps, Zenon
    <2>2. w' \in WorkerType
        BY <2>0, <2>1 DEF WorkerAs, WorkerType, WorkerPcs, Reporting
    <2>3. /\ w'.pc = "write" /\ w'.plan = w.plan /\ w'.file = w.file /\ w'.body = w.body
          /\ w'.done = w.done /\ w'.failed = w.failed /\ w'.doomed = w.doomed /\ w'.printed = w.printed
        BY <2>1 DEF WorkerAs
    <2>4. Staged'
        BY <1>0, <2>0, <2>3 DEF Staged, Passing, Copying, Restoring, Reporting, Leaves
    <2>5. report' \in Reports /\ report'.status = "partial"
        BY <1>2, ReportKinds
    <2>6. Types'
        BY <1>0, <2>0, <2>2, <2>5 DEF Types, WorldTypes, Leaves
    <2>7. OnDisk'
        BY <1>0, <2>3, <2>5 DEF Inv, OnDisk, Leaves, Tested
    <2>8. Owned'
        BY <1>0, <2>3 DEF Inv, Owned, Leaves
    <2>9. Judged' /\ Copied'
        BY <1>0, <2>3, NotYetJudged DEF Inv, Copied, Leaves
    <2> QED BY <2>4, <2>6, <2>7, <2>8, <2>9 DEF Inv
<1> QED BY <1>0, <1>1, <1>2

(* The report a worker writes is typed, and tells the truth if it says       *)
(* "passed": the body was copied whole and every check of the plan held.     *)
LEMMA ReportIsTested ==
    ASSUME Types, Staged, w.pc \in Reporting
    PROVE  ReportAs \in Reports /\ Tested(ReportAs)
<1>0. w \in WorkerType /\ now \in Nat /\ w.plan \in Plans
    BY DEF Types, WorldTypes, WorkerType
<1>1. Checks(w.plan) \in Seq(Names) /\ Len(Checks(w.plan)) \in Nat /\ w.done \in Nat
    BY <1>0, ChecksTyped DEF WorkerType
<1>2. {Checks(w.plan)[i] : i \in 1 .. w.done} \subseteq Names
    BY <1>1 DEF Staged
<1>3. (IF w.failed THEN "failed" ELSE "passed") \in {"passed", "failed"}
    OBVIOUS
<1>4. ReportAs \in Full
    BY <1>0, <1>2, <1>3 DEF ReportAs, Full, WorkerType
<1>5. ASSUME ReportAs.status = "passed"
      PROVE  /\ PlanBinding(w.plan) = ReportAs.binding
             /\ ReportAs.hash \in Bodies
             /\ Broken[ReportAs.hash] \cap (Range(Checks(w.plan)) \cup {"header", "restore"}) = {}
    <2>1. ~w.failed
        BY <1>0, <1>5 DEF ReportAs, WorkerType
    <2>2. ReportAs.binding = PlanBinding(w.plan) /\ ReportAs.hash = w.body
        BY DEF ReportAs
    <2>3. /\ w.body \in Bodies /\ "header" \notin Broken[w.body] /\ "restore" \notin Broken[w.body]
          /\ w.done = Len(Checks(w.plan))
          /\ \A i \in 1 .. w.done : Checks(w.plan)[i] \notin Broken[w.body]
        BY <2>1 DEF Staged, Passing
    <2>4. DOMAIN Checks(w.plan) = 1 .. Len(Checks(w.plan))
        BY <1>1
    <2>5. \A c \in Range(Checks(w.plan)) : c \notin Broken[w.body]
        BY <2>3, <2>4 DEF Range
    <2> QED BY <2>2, <2>3, <2>5
<1>6. Tested(ReportAs)
    BY <1>0, <1>5 DEF Tested
<1> QED BY <1>4, <1>6 DEF Reports

(* What is written is the worker's report.                                   *)
LEMMA WriteReportSafe == ASSUME Inv, WriteReport PROVE Inv'
<1>0. Types /\ Staged /\ w \in WorkerType
    BY DEF Inv, Types
<1>1. w.pc = "write" /\ Leaves /\ report' = ReportAs /\ To("print")
    BY ReportShapes, Zenon DEF WriteReport, WorkerKeeps, CopyKeeps, world, Leaves
<1>2. w' = WorkerAs("print", w.plan, w.file, w.stamp, w.body, w.done, w.failed, w.doomed, w.printed)
    BY <1>0, <1>1, WorkerSteps, Zenon
<1>3. w' \in WorkerType
    BY <1>0, <1>2 DEF WorkerAs, WorkerType, WorkerPcs, Reporting
<1>4. /\ w'.pc = "print" /\ w'.plan = w.plan /\ w'.file = w.file /\ w'.body = w.body
      /\ w'.done = w.done /\ w'.failed = w.failed /\ w'.doomed = w.doomed /\ w'.printed = w.printed
    BY <1>2 DEF WorkerAs
<1>5. Staged'
    BY <1>0, <1>1, <1>4 DEF Staged, Passing, Copying, Restoring, Reporting, Leaves
<1>6. report' \in Reports /\ Tested(report')
    BY <1>0, <1>1, ReportIsTested DEF Reporting
<1>7. Types'
    BY <1>0, <1>1, <1>3, <1>6 DEF Types, WorldTypes, Leaves
<1>8. OnDisk'
    <2>1. ReportAs' = ReportAs
        BY <1>1, <1>4 DEF ReportAs, Leaves
    <2>2. Tested(report)'
        BY <1>6 DEF Tested
    <2>3. w'.printed.status # "passed" /\ answer'.status # "passed"
        BY <1>1, <1>4 DEF Inv, OnDisk, Leaves
    <2> QED BY <1>1, <2>1, <2>2, <2>3 DEF OnDisk
<1>9. Owned'
    BY <1>1, <1>4 DEF Inv, Owned, Leaves
<1>10. Judged' /\ Copied'
    BY <1>1, <1>4, NotYetJudged DEF Inv, Copied, Leaves
<1> QED BY <1>5, <1>7, <1>8, <1>9, <1>10 DEF Inv

(* What is printed is on disk.                                               *)
LEMMA PrintReportSafe == ASSUME Inv, PrintReport PROVE Inv'
<1>0. Types /\ Staged /\ w \in WorkerType
    BY DEF Inv, Types
<1>1. w.pc = "print" /\ Leaves /\ report' = report /\ w' = [NoWorker EXCEPT !.pc = "exited", !.printed = ReportAs]
    BY ReportShapes, Zenon DEF PrintReport, At, WorkerKeeps, CopyKeeps, world, Leaves
<1>2. w' = Gone("exited", ReportAs)
    BY <1>1, GoneSteps, Zenon
<1>3. ReportAs \in Reports
    BY <1>0, <1>1, ReportIsTested DEF Reporting
<1>4. w' \in WorkerType /\ Staged'
    BY <1>0, <1>1, <1>2, <1>3, GoneIsStaged DEF Leaves
<1>5. w'.pc = "exited" /\ w'.printed = ReportAs /\ w'.doomed = FALSE
    BY <1>2 DEF Gone, WorkerAs
<1>6. Types'
    BY <1>0, <1>1, <1>4 DEF Types, WorldTypes, Leaves
<1>7. OnDisk'
    <2>1. report = ReportAs /\ answer.status # "passed" /\ Tested(report)
        BY <1>1 DEF Inv, OnDisk
    <2>2. Tested(report)'
        BY <1>1, <2>1 DEF Tested
    <2> HIDE DEF ReportAs
    <2> QED BY <1>1, <1>5, <2>1, <2>2 DEF OnDisk, Leaves
<1>8. Owned'
    BY <1>1, <1>5 DEF Inv, Owned, Leaves
<1>9. Judged' /\ Copied'
    BY <1>1, <1>5, NotYetJudged DEF Inv, Copied, Leaves
<1> QED BY <1>4, <1>6, <1>7, <1>8, <1>9 DEF Inv

(* A crash or a kill ends the worker.                                        *)
LEMMA DeathSafe == ASSUME Inv, WorkerCrash \/ WorkerDies PROVE Inv'
<1>1. Leaves /\ report' = report /\ Exit
    BY Zenon DEF WorkerCrash, WorkerDies, WorkerKeeps, CopyKeeps, world, Leaves
<1>2. w.pc \notin {"exited", "reaped"}
    BY DEF WorkerCrash, WorkerDies, Inv, Owned
<1> QED BY <1>1, <1>2, Ends

(* Every step of the worker keeps the invariant.                             *)
LEMMA WorkerSafe == ASSUME Inv, Worker \/ WorkerCrash \/ WorkerDies PROVE Inv'
BY CreateWorkspaceSafe, StageOpenSafe, StageCopySafe, StageCompareSafe, RestoreSafe, RunCheckSafe,
   WorkspaceBudgetSafe, StageFailsSafe, CreateReportSafe, WriteReportSafe, PrintReportSafe, DeathSafe
   DEF Worker

-----------------------------------------------------------------------------
(* The steps of the supervisor.                                              *)

(* Where a step leaves the supervisor.                                       *)
LEMMA SupSteps ==
    ASSUME Types
    PROVE  /\ Observe => sup' \in SupType /\ sup.pc = "observe" /\ sup'.pc = "decide"
           /\ Decide => sup' \in SupType /\ sup.pc = "decide" /\ sup'.pc \in {"kill", "collect", "observe"}
           /\ WaitFails \/ Kill => sup' \in SupType /\ sup.pc # "ended" /\ sup'.pc = "failed"
           /\ AnswerFailed \/ Collect => sup' \in SupType /\ sup.pc # "ended" /\ sup'.pc = "ended"
           /\ Spawn => sup' \in SupType /\ sup.pc = "idle" /\ sup'.pc = "observe"
<1>0. sup \in SupType /\ AnyPlan \in Plans /\ plan \in Plans
    BY Bounds DEF Types, WorldTypes
<1>1. ASSUME NEW x, NEW y, NEW q, q = [sup EXCEPT !.pc = x, !.seen = y]
      PROVE  q = [pc |-> x, plan |-> sup.plan, trial |-> sup.trial, seen |-> y]
    BY <1>0, <1>1, Zenon DEF SupType
<1>2. ASSUME NEW x, NEW q, q = [sup EXCEPT !.pc = x]
      PROVE  q = [pc |-> x, plan |-> sup.plan, trial |-> sup.trial, seen |-> sup.seen]
    BY <1>0, <1>2, Zenon DEF SupType
<1>3. ASSUME NEW q, q = [Idle EXCEPT !.pc = "ended"]
      PROVE  q = [pc |-> "ended", plan |-> AnyPlan, trial |-> FALSE, seen |-> FALSE]
    BY <1>3, Zenon DEF Idle, AnyPlan
<1>3a. /\ sup.plan \in Plans /\ sup.trial \in BOOLEAN /\ sup.seen \in BOOLEAN
      /\ "observe" \in SupPcs /\ "decide" \in SupPcs /\ "failed" \in SupPcs /\ "ended" \in SupPcs
    BY <1>0, Zenon DEF SupType, SupPcs
<1>4. ASSUME Observe PROVE sup' \in SupType /\ sup.pc = "observe" /\ sup'.pc = "decide"
    <2>1. sup.pc = "observe" /\ sup' = [sup EXCEPT !.pc = "decide", !.seen = (sup.seen \/ w.pc = "exited")]
        BY <1>4, Zenon DEF Observe
    <2>2. sup' = [pc |-> "decide", plan |-> sup.plan, trial |-> sup.trial, seen |-> (sup.seen \/ w.pc = "exited")]
        BY <1>1, <2>1, Zenon
    <2>3. (sup.seen \/ w.pc = "exited") \in BOOLEAN
        BY Zenon
    <2>4. sup' \in SupType /\ sup'.pc = "decide"
        BY <1>3a, <2>2, <2>3, Zenon DEF SupType
    <2> QED BY <2>1, <2>4, Zenon
<1>5. ASSUME Decide PROVE sup' \in SupType /\ sup.pc = "decide" /\ sup'.pc \in {"kill", "collect", "observe"}
    <2>1. sup.pc = "decide" /\ \E x \in {"kill", "collect", "observe"} : sup' = [sup EXCEPT !.pc = x]
        BY <1>5, Zenon DEF Decide
    <2>2. PICK x \in {"kill", "collect", "observe"} : sup' = [sup EXCEPT !.pc = x]
        BY <2>1, Zenon
    <2>3. sup' = [pc |-> x, plan |-> sup.plan, trial |-> sup.trial, seen |-> sup.seen]
        BY <1>2, <2>2, Zenon
    <2>4. x \in SupPcs
        BY DEF SupPcs
    <2>5. sup' \in SupType /\ sup'.pc = x
        BY <1>3a, <2>3, <2>4, Zenon DEF SupType
    <2> QED BY <2>1, <2>5, Zenon
<1>6. ASSUME WaitFails \/ Kill PROVE sup' \in SupType /\ sup.pc # "ended" /\ sup'.pc = "failed"
    <2>1. sup.pc \in {"observe", "kill"} /\ sup' = [sup EXCEPT !.pc = "failed"]
        BY <1>6, Zenon DEF WaitFails, Kill
    <2>2. sup' = [pc |-> "failed", plan |-> sup.plan, trial |-> sup.trial, seen |-> sup.seen]
        BY <1>2, <2>1, Zenon
    <2>3. sup' \in SupType /\ sup'.pc = "failed"
        BY <1>3a, <2>2, Zenon DEF SupType
    <2>4. sup.pc # "ended"
        BY <2>1
    <2> QED BY <2>3, <2>4, Zenon
<1>7. ASSUME AnswerFailed \/ Collect PROVE sup' \in SupType /\ sup.pc # "ended" /\ sup'.pc = "ended"
    <2>1. sup.pc \in {"failed", "collect"} /\ sup' = [Idle EXCEPT !.pc = "ended"]
        BY <1>7, Zenon DEF AnswerFailed, Collect
    <2>2. sup' = [pc |-> "ended", plan |-> AnyPlan, trial |-> FALSE, seen |-> FALSE]
        BY <1>3, <2>1, Zenon
    <2>3. sup' \in SupType /\ sup'.pc = "ended"
        BY <1>0, <1>3a, <2>2, Zenon DEF SupType
    <2>4. sup.pc # "ended"
        BY <2>1
    <2> QED BY <2>3, <2>4, Zenon
<1>8. ASSUME Spawn PROVE sup' \in SupType /\ sup.pc = "idle" /\ sup'.pc = "observe"
    <2>1. sup.pc = "idle" /\ \E trial \in Trials :
            sup' = [pc |-> "observe", plan |-> plan, trial |-> TrialSandbox(trial), seen |-> FALSE]
        BY <1>8, Zenon DEF Spawn
    <2>2. PICK trial \in Trials :
            sup' = [pc |-> "observe", plan |-> plan, trial |-> TrialSandbox(trial), seen |-> FALSE]
        BY <2>1, Zenon
    <2>3. TrialSandbox(trial) \in BOOLEAN
        BY Zenon DEF TrialSandbox
    <2>4. sup' \in SupType /\ sup'.pc = "observe"
        BY <1>0, <1>3a, <2>2, <2>3, Zenon DEF SupType
    <2> QED BY <2>1, <2>4, Zenon
<1> QED BY <1>4, <1>5, <1>6, <1>7, <1>8

(* What the supervisor leaves to others.                                     *)
SupLeaves == UNCHANGED <<files, journal, plan, unseen, now, report, check, held, torn>>

(* Looking, deciding and giving up change nothing but the supervisor.        *)
LEMMA WatchSafe == ASSUME Inv, Observe \/ Decide \/ WaitFails PROVE Inv'
<1>0. SupLeaves /\ UNCHANGED <<w, pid, answer, stray>>
    BY Zenon DEF Observe, Decide, WaitFails, SupKeeps, world, history, SupLeaves
<1>1. /\ sup' \in SupType /\ sup.pc \in {"observe", "decide"} /\ Types
      /\ sup'.pc \in {"decide", "kill", "collect", "observe", "failed"}
    BY SupSteps DEF Inv, WaitFails
<1>2. Types'
    BY <1>0, <1>1 DEF Types, WorldTypes, SupLeaves
<1>3. Staged'
    BY <1>0 DEF Inv, Staged, Passing, SupLeaves
<1>4. OnDisk'
    BY <1>0, <1>1 DEF Inv, OnDisk, Tested, ReportAs, SupLeaves
<1>5. Owned'
    BY <1>0, <1>1 DEF Inv, Owned
<1>6. Judged' /\ Copied'
    BY <1>0, <1>1, NotYetJudged DEF Inv, Copied, SupLeaves
<1> QED BY <1>2, <1>3, <1>4, <1>5, <1>6 DEF Inv

(* The group that is killed is the worker's, which is not reaped yet.        *)
LEMMA KillSafe == ASSUME Inv, Kill PROVE Inv'
<1>0. Types /\ Staged /\ Owned /\ w \in WorkerType
    BY DEF Inv, Types
<1>1. SupLeaves /\ UNCHANGED <<pid, answer>> /\ sup.pc = "kill"
    BY Zenon DEF Kill, SupKeeps, world, history, SupLeaves
<1>2. sup' \in SupType /\ sup'.pc = "failed"
    BY <1>0, SupSteps
<1>3. pid = "own" /\ ~stray'
    <2>1. pid = "own"
        BY <1>0, <1>1 DEF Owned
    <2>2. stray' = (stray \/ pid = "other")
        BY Zenon DEF Kill
    <2> QED BY <1>0, <2>1, <2>2 DEF Owned
<1>4. \/ w' = w
      \/ /\ w.pc \notin {"exited", "reaped"}
         /\ w' = WorkerAs(w.pc, w.plan, w.file, w.stamp, w.body, w.done, w.failed, TRUE, w.printed)
    <2>1. w' = w \/ (w.pc # "exited" /\ w' = [w EXCEPT !.doomed = TRUE])
        BY Zenon DEF Kill
    <2>2. CASE w.pc # "exited" /\ w' = [w EXCEPT !.doomed = TRUE]
        <3>1. w' = WorkerAs(w.pc, w.plan, w.file, w.stamp, w.body, w.done, w.failed, TRUE, w.printed)
            BY <1>0, <2>2, WorkerSteps, Zenon
        <3> QED BY <1>0, <1>3, <2>2, <3>1 DEF Owned
    <2> QED BY <2>1, <2>2
<1>5. w' \in WorkerType
    <2>1. CASE w' = WorkerAs(w.pc, w.plan, w.file, w.stamp, w.body, w.done, w.failed, TRUE, w.printed)
        BY <1>0, <2>1, Zenon DEF WorkerAs, WorkerType
    <2> QED BY <1>0, <1>4, <2>1
<1>6. /\ w'.pc = w.pc /\ w'.plan = w.plan /\ w'.file = w.file /\ w'.body = w.body
      /\ w'.stamp = w.stamp /\ w'.done = w.done /\ w'.failed = w.failed /\ w'.printed = w.printed
      /\ w'.doomed = w.doomed \/ w.pc \notin {"exited", "reaped"}
    BY <1>4 DEF WorkerAs
<1>7. Types'
    BY <1>0, <1>1, <1>2, <1>5 DEF Types, WorldTypes, SupLeaves
<1>8. Staged'
    BY <1>0, <1>1, <1>6 DEF Staged, Passing, SupLeaves
<1>9. OnDisk'
    <2>1. ReportAs' = ReportAs
        BY <1>1, <1>6 DEF ReportAs, SupLeaves
    <2>2. answer'.status # "passed" /\ Tested(report)'
        BY <1>1 DEF Inv, OnDisk, SupLeaves, Tested
    <2> QED BY <1>1, <1>6, <2>1, <2>2 DEF Inv, OnDisk, SupLeaves
<1>10. Owned'
    BY <1>0, <1>1, <1>2, <1>3, <1>6 DEF Owned
<1>11. Judged' /\ Copied'
    BY <1>1, <1>6, NotYetJudged DEF Inv, Copied, SupLeaves
<1> QED BY <1>7, <1>8, <1>9, <1>10, <1>11 DEF Inv

(* A failed answer says nothing of the report.                               *)
LEMMA AnswerFailedSafe == ASSUME Inv, AnswerFailed PROVE Inv'
<1>0. Types /\ Staged /\ Owned
    BY DEF Inv
<1>1. SupLeaves /\ UNCHANGED <<w, pid, stray>> /\ answer' = NewReport(sup.plan)
    BY Zenon DEF AnswerFailed, SupKeeps, world, history, SupLeaves
<1>2. sup' \in SupType /\ sup'.pc = "ended"
    BY <1>0, SupSteps
<1>3. answer' \in Reports /\ answer'.status = "failed"
    <2>1. answer' = [status |-> "failed", binding |-> PlanBinding(sup.plan), hash |-> <<>>, checks |-> {}, at |-> now]
        BY <1>1, ReportShapes, Zenon
    <2>2. sup.plan \in Plans /\ now \in Nat
        BY <1>0 DEF Types, WorldTypes, SupType
    <2> QED BY <2>1, <2>2 DEF Reports, Full
<1>4. Types'
    BY <1>0, <1>1, <1>2, <1>3 DEF Types, WorldTypes, SupLeaves
<1>5. Staged'
    BY <1>0, <1>1 DEF Staged, Passing, SupLeaves
<1>6. OnDisk'
    BY <1>1, <1>3 DEF Inv, OnDisk, Tested, ReportAs, SupLeaves
<1>7. Owned'
    BY <1>0, <1>1, <1>2 DEF Owned
<1>8. Judged' /\ Copied'
    BY <1>0, <1>1, SupSteps, NotYetJudged DEF Inv, Copied, SupLeaves
<1> QED BY <1>4, <1>5, <1>6, <1>7, <1>8 DEF Inv

(* The answer is what was printed, and that is on disk.                      *)
LEMMA CollectSafe == ASSUME Inv, Collect PROVE Inv'
<1>0. Types /\ Staged /\ Owned /\ w \in WorkerType
    BY DEF Inv, Types
<1>1. /\ SupLeaves /\ UNCHANGED stray /\ pid' = "free" /\ w' = [NoWorker EXCEPT !.pc = "reaped"]
      /\ answer' = w.printed \/ answer' = [status |-> "error"]
    BY Zenon DEF Collect, SupKeeps, world, history, SupLeaves
<1>2. sup' \in SupType /\ sup'.pc = "ended"
    BY <1>0, SupSteps
<1>3. w' = Gone("reaped", None)
    BY <1>1, GoneSteps, Zenon
<1>4. w' \in WorkerType /\ Staged'
    BY <1>0, <1>1, <1>3, GoneIsStaged, ReportKinds DEF SupLeaves
<1>5. w'.pc = "reaped" /\ w'.printed = None /\ w'.doomed = FALSE
    BY <1>3 DEF Gone, WorkerAs
<1>6. answer' \in Reports /\ (answer'.status = "passed" => answer' = w.printed)
    BY <1>0, <1>1, ReportKinds DEF WorkerType
<1>7. Types'
    BY <1>0, <1>1, <1>2, <1>4, <1>6 DEF Types, WorldTypes, SupLeaves
<1>8. OnDisk'
    <2>1. answer'.status = "passed" => report' = answer'
        BY <1>1, <1>6 DEF Inv, OnDisk, SupLeaves
    <2>2. Tested(report)'
        BY <1>1 DEF Inv, OnDisk, SupLeaves, Tested
    <2>3. w'.printed.status # "passed"
        BY <1>5, ReportKinds
    <2> QED BY <1>2, <1>5, <2>1, <2>2, <2>3 DEF OnDisk
<1>9. Owned'
    BY <1>0, <1>1, <1>2, <1>5 DEF Owned
<1>10. Judged' /\ Copied'
    BY <1>0, <1>1, <1>5, SupSteps, NotYetJudged DEF Inv, Copied, SupLeaves
<1> QED BY <1>4, <1>7, <1>8, <1>9, <1>10 DEF Inv

(* The clean-up reaps a worker whose answer was "failed".                    *)
LEMMA ReapSafe == ASSUME Inv, Reap PROVE Inv'
<1>0. Types /\ Staged /\ Owned
    BY DEF Inv
<1>1. /\ SupLeaves /\ UNCHANGED <<sup, answer, stray>> /\ pid' = "free" /\ sup.pc \in {"failed", "ended"}
      /\ w.pc = "exited" /\ w' = [NoWorker EXCEPT !.pc = "reaped"]
    BY Zenon DEF Reap, SupKeeps, world, history, SupLeaves
<1>2. w' = Gone("reaped", None)
    BY <1>1, GoneSteps, Zenon
<1>3. w' \in WorkerType /\ Staged'
    BY <1>0, <1>1, <1>2, GoneIsStaged, ReportKinds DEF SupLeaves
<1>4. w'.pc = "reaped" /\ w'.printed = None /\ w'.doomed = FALSE
    BY <1>2 DEF Gone, WorkerAs
<1>5. Types'
    BY <1>0, <1>1, <1>3 DEF Types, WorldTypes, SupLeaves
<1>6. OnDisk'
    <2>1. answer'.status # "passed" /\ Tested(report)'
        BY <1>1 DEF Inv, OnDisk, SupLeaves, Tested
    <2>2. w'.printed.status # "passed"
        BY <1>4, ReportKinds
    <2> QED BY <1>4, <2>1, <2>2 DEF OnDisk
<1>7. Owned'
    BY <1>0, <1>1, <1>4 DEF Owned
<1>8. Judged' /\ Copied'
    BY <1>1, <1>4, NotYetJudged DEF Inv, Copied, SupLeaves
<1> QED BY <1>3, <1>5, <1>6, <1>7, <1>8 DEF Inv

(* A worker that was just spawned has the plan and a file, and nothing else. *)
LEMMA SpawnSafe == ASSUME Inv, Spawn PROVE Inv'
<1>0. Types /\ Staged /\ Owned
    BY DEF Inv
<1>1. /\ SupLeaves /\ UNCHANGED <<answer, stray>> /\ pid' = "own"
      /\ w' = [NoWorker EXCEPT !.pc = "create", !.plan = plan, !.file = Path]
    BY Zenon DEF Spawn, SupKeeps, world, history, SupLeaves
<1>2. sup' \in SupType /\ sup.pc = "idle" /\ sup'.pc = "observe"
    BY <1>0, SupSteps
<1>3. w' = WorkerAs("create", plan, Path, 0, <<>>, 0, FALSE, FALSE, None)
    BY <1>1, GoneSteps, Zenon
<1>4. Path \in Nat \ {0} /\ Path = Len(files) /\ plan \in Plans
    BY <1>0 DEF Path, Types, WorldTypes
<1>5. w' \in WorkerType
    BY <1>3, <1>4, ReportKinds DEF WorkerAs, WorkerType, WorkerPcs, Copying
<1>6. /\ w'.pc = "create" /\ w'.plan = plan /\ w'.file = Path /\ w'.body = <<>> /\ w'.done = 0
      /\ w'.failed = FALSE /\ w'.doomed = FALSE /\ w'.printed = None
    BY <1>3 DEF WorkerAs
<1>7. Len(Checks(w'.plan)) \in Nat /\ Len(w'.body) <= Parts
    BY <1>4, <1>6, ChecksTyped, Bounds
<1>8. Staged'
    BY <1>1, <1>4, <1>6, <1>7 DEF Staged, Passing, Copying, Restoring, Reporting, SupLeaves
<1>9. Types'
    BY <1>0, <1>1, <1>2, <1>5 DEF Types, WorldTypes, SupLeaves
<1>10. OnDisk'
    <2>1. answer'.status # "passed" /\ Tested(report)'
        BY <1>1, <1>2 DEF Inv, OnDisk, SupLeaves, Tested
    <2>2. w'.printed.status # "passed"
        BY <1>6, ReportKinds
    <2> QED BY <1>6, <2>1, <2>2 DEF OnDisk
<1>11. Owned'
    BY <1>0, <1>1, <1>6 DEF Owned
<1>12. Judged' /\ Copied'
    BY <1>1, <1>2, <1>6, NotYetJudged DEF Inv, Copied, SupLeaves
<1> QED BY <1>8, <1>9, <1>10, <1>11, <1>12 DEF Inv

(* Every step of the supervisor keeps the invariant.                         *)
LEMMA SupervisorSafe == ASSUME Inv, Supervisor \/ WaitFails \/ Reap PROVE Inv'
BY WatchSafe, KillSafe, AnswerFailedSafe, CollectSafe, ReapSafe, SpawnSafe DEF Supervisor

-----------------------------------------------------------------------------
(* The steps of `verify`.                                                    *)

VerifyLeaves == UNCHANGED <<files, journal, plan, unseen, now, sup, w, pid, report, answer, stray>>

(* The verification touches only its own state.                              *)
LEMMA JudgingSafe ==
    ASSUME Inv, VerifyLeaves, check' \in CheckType, Judged', check'.pc # "idle"
    PROVE  Inv'
<1>1. Types'
    BY DEF Inv, Types, WorldTypes, VerifyLeaves
<1>2. Staged'
    BY DEF Inv, Staged, Passing, VerifyLeaves
<1>3. OnDisk'
    BY DEF Inv, OnDisk, Tested, ReportAs, VerifyLeaves
<1>4. Owned'
    BY DEF Inv, Owned, VerifyLeaves
<1>5. Copied'
    BY DEF Judged, Copied
<1> QED BY <1>1, <1>2, <1>3, <1>4, <1>5 DEF Inv

(* A rejected report claims nothing.                                         *)
LEMMA RejectSafe == ASSUME Inv, VerifyLeaves, Reject, check.pc # "idle" PROVE Inv'
<1>0. check \in CheckType /\ Len(files) \in Nat /\ AnyPlan \in Plans
    BY Bounds DEF Inv, Types, WorldTypes
<1>1. check' = CheckAs("ended", AnyPlan, None, 0, 0, <<>>, <<>>, "rejected", 0)
    BY <1>0, CheckSteps, Zenon
<1>2. check' \in CheckType
    BY <1>0, <1>1, ReportKinds DEF CheckAs, CheckType
<1>3. /\ check'.pc = "ended" /\ check'.file = 0 /\ check'.first = <<>> /\ check'.second = <<>>
      /\ check'.verdict = "rejected"
    BY <1>1 DEF CheckAs
<1>4. Len(check'.first) <= Parts /\ Len(check'.second) <= Parts
    BY <1>3, Bounds
<1>5. Judged'
    BY <1>0, <1>3, <1>4 DEF Inv, Judged, Undisturbed, VerifyLeaves
<1> QED BY <1>2, <1>3, <1>5, JudgingSafe

(* Plan and report are read before the file is opened.                       *)
LEMMA VerifyBeginSafe == ASSUME Inv, VerifyStart \/ VerifyRead \/ VerifyJudge PROVE Inv'
<1>0. check \in CheckType /\ Len(files) \in Nat /\ plan \in Plans /\ report \in Reports /\ Judged
    BY DEF Inv, Types, WorldTypes
<1>1. VerifyLeaves
    BY Zenon DEF VerifyStart, VerifyRead, VerifyJudge, VerifyKeeps, world, drill, VerifyLeaves
<1>2. CASE VerifyStart
    <2>1. check' = CheckAs("report", plan, None, 0, 0, <<>>, <<>>, "none", 0)
        BY <1>0, <1>2, CheckSteps, Zenon DEF VerifyStart
    <2>2. check' \in CheckType
        BY <1>0, <2>1, ReportKinds DEF CheckAs, CheckType
    <2>3. /\ check'.pc = "report" /\ check'.file = 0 /\ check'.first = <<>> /\ check'.second = <<>>
          /\ check'.verdict = "none"
        BY <2>1 DEF CheckAs
    <2>4. Len(check'.first) <= Parts /\ Len(check'.second) <= Parts
        BY <2>3, Bounds
    <2>5. w.pc = "reaped" /\ sup.pc = "ended"
        BY <1>2, Zenon DEF VerifyStart, Settled
    <2>6. Judged'
        BY <1>0, <1>1, <2>3, <2>4, <2>5 DEF Judged, Undisturbed, VerifyLeaves
    <2> QED BY <1>1, <2>2, <2>3, <2>6, JudgingSafe
<1>3. ASSUME NEW x \in {"judge", "open"}, NEW r \in Reports, check.pc \in {"report", "judge"},
             check' = CheckAs(x, check.plan, r, check.file, check.stamp, check.first, check.second, check.verdict, check.at)
      PROVE  Inv'
    <2>1. check' \in CheckType
        BY <1>0, <1>3 DEF CheckAs, CheckType
    <2>2. /\ check'.pc = x /\ check'.file = check.file /\ check'.first = check.first
          /\ check'.second = check.second /\ check'.verdict = check.verdict
        BY <1>3 DEF CheckAs
    <2>3. Judged'
        BY <1>0, <1>1, <1>3, <2>2 DEF Judged, Undisturbed, VerifyLeaves
    <2> QED BY <1>1, <2>1, <2>2, <2>3, JudgingSafe
<1>4. CASE VerifyRead
    <2>1. Reject \/ check' = [check EXCEPT !.pc = "judge", !.report = report]
        BY <1>4, Zenon DEF VerifyRead, Move
    <2>2. check.pc \in {"report", "judge"}
        BY <1>4 DEF VerifyRead
    <2>3. CASE check' = [check EXCEPT !.pc = "judge", !.report = report]
        <3>1. check' = CheckAs("judge", check.plan, report, check.file, check.stamp, check.first, check.second, check.verdict, check.at)
            BY <1>0, <2>3, CheckSteps, Zenon
        <3> QED BY <1>0, <1>3, <2>2, <3>1
    <2> QED BY <1>1, <2>1, <2>2, <2>3, RejectSafe
<1>5. CASE VerifyJudge
    <2>1. Reject \/ check' = [check EXCEPT !.pc = "open"]
        BY <1>5, Zenon DEF VerifyJudge, Move
    <2>2. check.pc \in {"report", "judge"} /\ check.report \in Reports
        BY <1>0, <1>5 DEF VerifyJudge, CheckType
    <2>3. CASE check' = [check EXCEPT !.pc = "open"]
        <3>1. check' = CheckAs("open", check.plan, check.report, check.file, check.stamp, check.first, check.second, check.verdict, check.at)
            BY <1>0, <2>3, CheckSteps, Zenon
        <3> QED BY <1>0, <1>3, <2>2, <3>1
    <2> QED BY <1>1, <2>1, <2>2, <2>3, RejectSafe
<1> QED BY <1>2, <1>4, <1>5

(* The file that is opened is the one the path names.                        *)
LEMMA VerifyOpenSafe == ASSUME Inv, VerifyOpen PROVE Inv'
<1> DEFINE f == files[Path]
<1>0. check \in CheckType /\ Path \in Nat \ {0} /\ Path = Len(files) /\ f \in FileType /\ Judged
    BY DEF Inv, Types, WorldTypes, Path
<1>1. /\ VerifyLeaves /\ check.pc = "open" /\ held' = {f.body} /\ torn' = {}
      /\ check' = [check EXCEPT !.pc = "first", !.file = Path, !.stamp = f.stamp]
    BY Zenon DEF VerifyOpen, VerifyKeeps, world, drill, VerifyLeaves
<1>2. check' = CheckAs("first", check.plan, check.report, Path, f.stamp, check.first, check.second, check.verdict, check.at)
    <2>1. \A n, s : check' = [check EXCEPT !.pc = "first", !.file = n, !.stamp = s]
            => check' = CheckAs("first", check.plan, check.report, n, s, check.first, check.second, check.verdict, check.at)
        BY <1>0, CheckSteps, Zenon
    <2> QED BY <1>1, <2>1, Zenon
<1>3. f.stamp \in Nat /\ f.body \in held'
    BY <1>0, <1>1 DEF FileType
<1>4. check' \in CheckType
    BY <1>0, <1>2, <1>3 DEF CheckAs, CheckType
<1>5. /\ check'.pc = "first" /\ check'.file = Path /\ check'.stamp = f.stamp /\ check'.first = <<>>
      /\ check'.second = <<>> /\ check'.verdict = check.verdict
    BY <1>0, <1>1, <1>2 DEF CheckAs, Judged
<1>6. check.verdict # "consistent"
    BY <1>0, <1>1 DEF Judged
<1>7. Len(check'.first) = 0 /\ Len(check'.first) < Parts /\ Len(check'.second) <= Parts
    BY <1>5, Bounds
<1>8. files'[check'.file] = f
    BY <1>1, <1>5 DEF VerifyLeaves
<1> HIDE DEF f
<1>9. Undisturbed'
    BY <1>3, <1>5, <1>6, <1>7, <1>8 DEF Undisturbed, Sound
<1>10. Judged'
    BY <1>0, <1>1, <1>5, <1>6, <1>7, <1>9 DEF Judged, VerifyLeaves
<1> QED BY <1>1, <1>4, <1>5, <1>10, JudgingSafe

(* An open file holds a whole body.                                          *)
LEMMA OpenFile ==
    ASSUME Types, Judged, check.pc \in {"first", "second"}
    PROVE  /\ check.file \in 1 .. Len(files)
           /\ files[check.file].body \in Bodies /\ files[check.file].stamp \in Nat
           /\ check.stamp \in Nat /\ check.first \in Seq(Chunks) /\ check.second \in Seq(Chunks)
<1>1. check.file \in 1 .. Len(files)
    BY DEF Types, WorldTypes, CheckType, Judged
<1>2. files[check.file] \in FileType
    BY <1>1 DEF Types, WorldTypes
<1> QED BY <1>1, <1>2 DEF FileType, Types, CheckType

(* The first read takes the next part of the open file.                      *)
LEMMA FirstReadSafe == ASSUME Inv, FirstRead PROVE Inv'
<1> DEFINE n == Len(check.first)
           s == Append(check.first, files[check.file].body[n + 1])
<1>0. check \in CheckType /\ Types /\ Judged
    BY DEF Inv, Types
<1>1. /\ VerifyLeaves /\ check.pc = "first"
      /\ \/ n < Parts /\ UNCHANGED <<held, torn>> /\ check' = [check EXCEPT !.first = s]
         \/ ~(n < Parts) /\ UNCHANGED <<held, torn>> /\ check' = [check EXCEPT !.pc = "second"]
         \/ Reject
    BY Zenon DEF FirstRead, Move, VerifyKeeps, world, drill, history, VerifyLeaves
<1>2. /\ files[check.file].stamp >= check.stamp
      /\ files[check.file].stamp = check.stamp =>
            files[check.file].body \in held /\ Sound(held, torn, "first", check.first, files[check.file].body)
    BY <1>0, <1>1 DEF Judged, Undisturbed
<1>3. CASE n < Parts /\ UNCHANGED <<held, torn>> /\ check' = [check EXCEPT !.first = s]
    <2>1. check' = CheckAs(check.pc, check.plan, check.report, check.file, check.stamp, s, check.second, check.verdict, check.at)
        BY <1>0, <1>3, CheckSteps, Zenon
    <2>2. files[check.file].body \in Bodies /\ check.first \in Seq(Chunks)
        BY <1>0, <1>1, OpenFile
    <2>3. s \in Seq(Chunks) /\ Len(s) = n + 1 /\ n + 1 <= Parts
        BY <1>3, <2>2, Bounds DEF Bodies
    <2>4. files[check.file].stamp = check.stamp => Sound(held, torn, "first", s, files[check.file].body)
        BY <1>2, <1>3, <2>2, ReadsOn
    <2> HIDE DEF s
    <2>5. check' \in CheckType
        BY <1>0, <2>1, <2>3 DEF CheckAs, CheckType
    <2>6. /\ check'.pc = "first" /\ check'.file = check.file /\ check'.stamp = check.stamp
          /\ check'.first = s /\ check'.second = check.second /\ check'.verdict = check.verdict
        BY <1>1, <2>1 DEF CheckAs
    <2>7. check.verdict # "consistent"
        BY <1>0, <1>1 DEF Judged
    <2>8. Undisturbed'
        BY <1>1, <1>2, <1>3, <2>4, <2>6, <2>7 DEF Undisturbed, VerifyLeaves
    <2>9. Judged'
        BY <1>0, <1>1, <2>3, <2>6, <2>7, <2>8 DEF Judged, VerifyLeaves
    <2> QED BY <1>1, <2>5, <2>6, <2>9, JudgingSafe
<1>4. CASE ~(n < Parts) /\ UNCHANGED <<held, torn>> /\ check' = [check EXCEPT !.pc = "second"]
    <2>1. check' = CheckAs("second", check.plan, check.report, check.file, check.stamp, check.first, check.second, check.verdict, check.at)
        BY <1>0, <1>4, CheckSteps, Zenon
    <2>2. check' \in CheckType
        BY <1>0, <2>1 DEF CheckAs, CheckType
    <2>3. /\ check'.pc = "second" /\ check'.file = check.file /\ check'.stamp = check.stamp
          /\ check'.first = check.first /\ check'.second = check.second /\ check'.verdict = check.verdict
        BY <2>1 DEF CheckAs
    <2>4. Len(check.first) = Parts /\ check.second = <<>> /\ Len(check.second) < Parts
        BY <1>0, <1>1, <1>4, OpenFile, Bounds DEF Judged
    <2>5. Sound(held, torn, "second", check.second, files[check.file].body)
        BY <2>4 DEF Sound
    <2>6. check.verdict # "consistent"
        BY <1>0, <1>1 DEF Judged
    <2>7. Undisturbed'
        BY <1>1, <1>2, <1>4, <2>3, <2>5, <2>6 DEF Undisturbed, VerifyLeaves
    <2>8. Judged'
        BY <1>0, <1>1, <2>3, <2>4, <2>6, <2>7 DEF Judged, VerifyLeaves
    <2> QED BY <1>1, <2>2, <2>3, <2>8, JudgingSafe
<1> QED BY <1>1, <1>3, <1>4, RejectSafe

(* Two whole reads that agree, of a file whose times have not moved, are of  *)
(* what the file held once, if no unseen write fell into one of them.        *)
LEMMA SecondReadSafe == ASSUME Inv, SecondRead PROVE Inv'
<1> DEFINE n == Len(check.second)
           s == Append(check.second, files[check.file].body[n + 1])
<1>0. check \in CheckType /\ Types /\ Judged
    BY DEF Inv, Types
<1>1. /\ VerifyLeaves /\ check.pc = "second"
      /\ \/ n < Parts /\ UNCHANGED <<held, torn>> /\ check' = [check EXCEPT !.second = s]
         \/ /\ ~(n < Parts) /\ check.first = check.second /\ SameMetadata
            /\ UNCHANGED <<held, torn>> /\ check' = [check EXCEPT !.pc = "decide"]
         \/ Reject
    BY Zenon DEF SecondRead, Move, VerifyKeeps, world, drill, history, VerifyLeaves
<1>2. /\ files[check.file].stamp >= check.stamp
      /\ files[check.file].stamp = check.stamp =>
            /\ files[check.file].body \in held
            /\ Sound(held, torn, "first", check.first, files[check.file].body)
            /\ Sound(held, torn, "second", check.second, files[check.file].body)
    BY <1>0, <1>1 DEF Judged, Undisturbed
<1>3. CASE n < Parts /\ UNCHANGED <<held, torn>> /\ check' = [check EXCEPT !.second = s]
    <2>1. check' = CheckAs(check.pc, check.plan, check.report, check.file, check.stamp, check.first, s, check.verdict, check.at)
        BY <1>0, <1>3, CheckSteps, Zenon
    <2>2. files[check.file].body \in Bodies /\ check.second \in Seq(Chunks)
        BY <1>0, <1>1, OpenFile
    <2>3. s \in Seq(Chunks) /\ Len(s) = n + 1 /\ n + 1 <= Parts
        BY <1>3, <2>2, Bounds DEF Bodies
    <2>4. files[check.file].stamp = check.stamp => Sound(held, torn, "second", s, files[check.file].body)
        BY <1>2, <1>3, <2>2, ReadsOn
    <2> HIDE DEF s
    <2>5. check' \in CheckType
        BY <1>0, <2>1, <2>3 DEF CheckAs, CheckType
    <2>6. /\ check'.pc = "second" /\ check'.file = check.file /\ check'.stamp = check.stamp
          /\ check'.first = check.first /\ check'.second = s /\ check'.verdict = check.verdict
        BY <1>1, <2>1 DEF CheckAs
    <2>7. check.verdict # "consistent"
        BY <1>0, <1>1 DEF Judged
    <2>8. Undisturbed'
        BY <1>1, <1>2, <1>3, <2>4, <2>6, <2>7 DEF Undisturbed, VerifyLeaves
    <2>9. Judged'
        BY <1>0, <1>1, <2>3, <2>6, <2>7, <2>8 DEF Judged, VerifyLeaves
    <2> QED BY <1>1, <2>5, <2>6, <2>9, JudgingSafe
<1>4. CASE /\ ~(n < Parts) /\ check.first = check.second /\ SameMetadata
           /\ UNCHANGED <<held, torn>> /\ check' = [check EXCEPT !.pc = "decide"]
    <2>1. check' = CheckAs("decide", check.plan, check.report, check.file, check.stamp, check.first, check.second, check.verdict, check.at)
        BY <1>0, <1>4, CheckSteps, Zenon
    <2>2. check' \in CheckType
        BY <1>0, <2>1 DEF CheckAs, CheckType
    <2>3. /\ check'.pc = "decide" /\ check'.file = check.file /\ check'.stamp = check.stamp
          /\ check'.first = check.first /\ check'.second = check.second /\ check'.verdict = check.verdict
        BY <2>1 DEF CheckAs
    <2>4. check.first \in held \/ {"first", "second"} \subseteq torn
        <3>1. files[check.file].stamp = check.stamp
            BY <1>4 DEF SameMetadata
        <3>2. ~(Len(check.first) < Parts) /\ ~(Len(check.second) < Parts)
            BY <1>4
        <3>3. "first" \notin torn => check.first \in held
            BY <1>2, <3>1, <3>2 DEF Sound
        <3>4. "second" \notin torn => check.second \in held
            BY <1>2, <3>1, <3>2 DEF Sound
        <3> QED BY <1>4, <3>3, <3>4
    <2>5. check.verdict # "consistent"
        BY <1>0, <1>1 DEF Judged
    <2>6. Undisturbed'
        BY <1>4, <2>3, <2>4, <2>5 DEF Undisturbed
    <2>7. Judged'
        BY <1>0, <1>1, <2>3, <2>5, <2>6 DEF Judged, VerifyLeaves
    <2> QED BY <1>1, <2>2, <2>3, <2>7, JudgingSafe
<1> QED BY <1>1, <1>3, <1>4, RejectSafe

(* The verdict is given on the report's age at that time.                    *)
LEMMA VerifyDecideSafe == ASSUME Inv, VerifyDecide PROVE Inv'
<1>0. check \in CheckType /\ Types /\ Judged
    BY DEF Inv, Types
<1>1. /\ VerifyLeaves /\ check.pc = "decide"
      /\ \/ /\ check.report.hash = check.first /\ VerifyMetadata(check.plan, check.report)
            /\ UNCHANGED <<held, torn>>
            /\ check' = [check EXCEPT !.pc = "ended", !.verdict = "consistent", !.at = now]
         \/ Reject
    BY Zenon DEF VerifyDecide, Move, VerifyKeeps, world, drill, history, VerifyLeaves
<1>2. CASE /\ check.report.hash = check.first /\ VerifyMetadata(check.plan, check.report)
           /\ UNCHANGED <<held, torn>>
           /\ check' = [check EXCEPT !.pc = "ended", !.verdict = "consistent", !.at = now]
    <2>1. check' = CheckAs("ended", check.plan, check.report, check.file, check.stamp, check.first, check.second, "consistent", now)
        BY <1>0, <1>2, CheckSteps, Zenon
    <2>2. now \in Nat /\ check.report \in Reports
        BY <1>0 DEF Types, WorldTypes, CheckType
    <2>3. check' \in CheckType
        BY <1>0, <2>1, <2>2 DEF CheckAs, CheckType
    <2>4. /\ check'.pc = "ended" /\ check'.file = check.file /\ check'.stamp = check.stamp
          /\ check'.first = check.first /\ check'.second = check.second /\ check'.report = check.report /\ check'.at = now
        BY <2>1 DEF CheckAs
    <2>5. check.report.at \in Nat
        <3>1. check.report \in Full
            BY <1>2, <2>2, ReportKinds DEF VerifyMetadata
        <3> QED BY <3>1 DEF Full
    <2>6. now - check.report.at \in 0 .. MaxAge
        BY <1>2, <2>2, <2>5, Bounds DEF VerifyMetadata
    <2>7. check.report.hash \in held \/ {"first", "second"} \subseteq torn
        BY <1>0, <1>1, <1>2 DEF Judged, Undisturbed
    <2>8. Judged'
        BY <1>0, <1>1, <1>2, <2>4, <2>6, <2>7 DEF Judged, Undisturbed, VerifyLeaves
    <2> QED BY <1>1, <2>3, <2>4, <2>8, JudgingSafe
<1> QED BY <1>1, <1>2, RejectSafe

(* Every step of `verify` keeps the invariant.                               *)
LEMMA VerifySafe == ASSUME Inv, Verify PROVE Inv'
BY VerifyBeginSafe, VerifyOpenSafe, FirstReadSafe, SecondReadSafe, VerifyDecideSafe DEF Verify

-----------------------------------------------------------------------------
(* Everybody else.                                                           *)

EnvLeaves == UNCHANGED <<sup, w, pid, report, answer, check, stray>>

(* A write that no timestamp shows spoils a read that has begun and not      *)
(* ended; any other read stays sound, of the new body as of the old.         *)
LEMMA Rewritten ==
    ASSUME NEW past, NEW spoilt, NEW name, NEW read \in Seq(Chunks), NEW body, NEW next, NEW more,
           Sound(past, spoilt, name, read, body), Len(read) \in 1 .. Parts - 1 => name \in more
    PROVE  Sound(past \cup {next}, spoilt \cup more, name, read, next)
<1>1. CASE Len(read) = 0
    BY <1>1, Bounds DEF Sound
<1>2. CASE Len(read) \in 1 .. Parts - 1
    BY <1>2 DEF Sound
<1>3. CASE ~(Len(read) < Parts)
    BY <1>3 DEF Sound
<1> QED BY <1>1, <1>2, <1>3, Bounds

(* Rewriting the backup shows in its times, or spoils the reads under way.   *)
LEMMA WriteBackupSafe == ASSUME Inv, WriteBackup PROVE Inv'
<1>0. Types /\ Staged /\ Copied /\ Judged /\ files \in Seq(FileType) /\ Path \in 1 .. Len(files) /\ Path = Len(files) /\ unseen \in Nat
    BY DEF Inv, Types, WorldTypes, Path
<1>1. PICK b \in Bodies, quick \in BOOLEAN :
            /\ unseen' = unseen + (IF quick THEN 1 ELSE 0)
            /\ files' = [files EXCEPT ![Path] =
                            [body |-> b,
                             stamp |-> IF quick \/ ~Opened THEN files[Path].stamp ELSE files[Path].stamp + 1]]
            /\ held' = IF (w.pc = "copy" /\ w.file = Path) \/ check.file = Path THEN held \cup {b} ELSE held
            /\ torn' = IF quick THEN torn \cup UnderWay ELSE torn
    BY Zenon DEF WriteBackup
<1>2. EnvLeaves /\ UNCHANGED <<journal, plan, now>>
    BY Zenon DEF WriteBackup, EnvUnchanged, drill, EnvLeaves
<1> DEFINE s == IF quick \/ ~Opened THEN files[Path].stamp ELSE files[Path].stamp + 1
           f == [body |-> b, stamp |-> s]
<1>3. files[Path].body \in Bodies /\ files[Path].stamp \in Nat
    <2>1. files[Path] \in FileType
        BY <1>0
    <2> QED BY <2>1 DEF FileType
<1>4. s \in Nat /\ s >= files[Path].stamp
    BY <1>3
<1>5. f \in FileType /\ f.stamp = s /\ f.body = b
    BY <1>4 DEF FileType
<1>6. files' = [files EXCEPT ![Path] = f]
    BY <1>1, Zenon
<1>7. unseen' \in Nat
    BY <1>0, <1>1
<1>8. Opened => f.stamp = IF quick THEN files[Path].stamp ELSE files[Path].stamp + 1
    BY <1>5
<1> HIDE DEF f, s
<1>9. /\ files' \in Seq(FileType) /\ Len(files') = Len(files) /\ files' # <<>>
      /\ \A n \in 1 .. Len(files) : n # Path => files'[n] = files[n]
      /\ files'[Path] = f
    BY <1>0, <1>5, <1>6
<1>10. Types'
    BY <1>0, <1>2, <1>7, <1>9 DEF Types, WorldTypes, EnvLeaves
<1>11. Staged'
    BY <1>0, <1>2, <1>9 DEF Staged, Passing, EnvLeaves
<1>12. OnDisk'
    BY <1>2 DEF Inv, OnDisk, Tested, ReportAs, EnvLeaves
<1>13. Owned'
    BY <1>2 DEF Inv, Owned, EnvLeaves
<1>14. w' = w /\ check' = check /\ held \subseteq held' /\ torn \subseteq torn'
    BY <1>1, <1>2 DEF EnvLeaves
<1>15. ASSUME NEW n \in 1 .. Len(files), NEW x \in Nat, n # 0 => Opened, n = Path => held' = held \cup {b},
              NEW name, NEW read \in Seq(Chunks),
              n = Path /\ Len(read) \in 1 .. Parts - 1 => name \in UnderWay,
              files[n].stamp >= x,
              files[n].stamp = x => files[n].body \in held /\ Sound(held, torn, name, read, files[n].body)
       PROVE  /\ files'[n].stamp >= x
              /\ files'[n].stamp = x => files'[n].body \in held' /\ Sound(held', torn', name, read, files'[n].body)
    <2>1. CASE n # Path
        <3>1. files'[n] = files[n]
            BY <1>9, <2>1
        <3>2. ASSUME Sound(held, torn, name, read, files[n].body)
              PROVE  Sound(held', torn', name, read, files[n].body)
            BY <1>14, <3>2 DEF Sound
        <3> QED BY <1>14, <1>15, <3>1, <3>2
    <2>2. CASE n = Path /\ ~quick
        <3>1. files'[n].stamp = files[n].stamp + 1
            BY <1>8, <1>9, <1>15, <2>2
        <3>2. files'[n].stamp > x
            BY <1>3, <1>15, <2>2, <3>1
        <3> QED BY <1>3, <1>15, <2>2, <3>1, <3>2
    <2>3. CASE n = Path /\ quick
        <3>1. files'[n].stamp = files[n].stamp /\ files'[n].body = b
            BY <1>5, <1>8, <1>9, <1>15, <2>3
        <3>2. held' = held \cup {b} /\ torn' = torn \cup UnderWay
            BY <1>1, <1>15, <2>3
        <3>3. ASSUME Sound(held, torn, name, read, files[n].body)
              PROVE  Sound(held', torn', name, read, b)
            BY <1>15, <2>3, <3>2, <3>3, Rewritten
        <3> QED BY <1>15, <3>1, <3>2, <3>3
    <2> QED BY <2>1, <2>2, <2>3
<1>16. Copied'
    <2>1. CASE w.pc # "copy"
        BY <1>14, <2>1 DEF Copied
    <2>2. CASE w.pc = "copy"
        <3>1. w.file \in 1 .. Len(files) /\ w.stamp \in Nat /\ w.body \in Seq(Chunks)
            BY <1>0, <2>2 DEF Types, WorldTypes, WorkerType, Staged, Copying
        <3>2. Opened /\ (w.file = Path => held' = held \cup {b})
            BY <1>1, <2>2, <3>1 DEF Opened
        <3>3. w.file = Path /\ Len(w.body) \in 1 .. Parts - 1 => "copy" \in UnderWay
            BY <2>2 DEF UnderWay
        <3>4. /\ files'[w.file].stamp >= w.stamp
              /\ files'[w.file].stamp = w.stamp =>
                    files'[w.file].body \in held' /\ Sound(held', torn', "copy", w.body, files'[w.file].body)
            BY <1>0, <1>15, <2>2, <3>1, <3>2, <3>3 DEF Copied
        <3> QED BY <1>14, <3>4 DEF Copied
    <2> QED BY <2>1, <2>2
<1>17. Undisturbed'
    <2>0. Undisturbed
        BY <1>0 DEF Judged
    <2>1. CASE check.pc \notin {"first", "second"}
        BY <1>14, <2>0, <2>1 DEF Undisturbed
    <2>2. CASE check.pc \in {"first", "second"}
        <3>1. /\ check.file \in 1 .. Len(files) /\ check.stamp \in Nat
              /\ check.first \in Seq(Chunks) /\ check.second \in Seq(Chunks)
            BY <1>0, <2>2, OpenFile
        <3>2. Opened /\ (check.file = Path => held' = held \cup {b})
            BY <1>1, <3>1 DEF Opened
        <3>3. check.pc = "second" => Len(check.first) = Parts
            BY <1>0 DEF Judged
        <3>4. check.file = Path /\ Len(check.first) \in 1 .. Parts - 1 => "first" \in UnderWay
            BY <2>2, <3>3, Bounds DEF UnderWay
        <3>5. /\ files'[check.file].stamp >= check.stamp
              /\ files'[check.file].stamp = check.stamp =>
                    /\ files'[check.file].body \in held'
                    /\ Sound(held', torn', "first", check.first, files'[check.file].body)
            BY <1>15, <2>0, <2>2, <3>1, <3>2, <3>4 DEF Undisturbed
        <3>6. ASSUME check.pc = "second"
              PROVE  files'[check.file].stamp = check.stamp =>
                        Sound(held', torn', "second", check.second, files'[check.file].body)
            <4>1. check.file = Path /\ Len(check.second) \in 1 .. Parts - 1 => "second" \in UnderWay
                BY <3>6 DEF UnderWay
            <4> QED BY <1>15, <2>0, <3>1, <3>2, <3>6, <4>1 DEF Undisturbed
        <3>7. check.verdict # "consistent" /\ check.pc # "decide"
            BY <1>0, <2>2 DEF Judged
        <3> QED BY <1>14, <3>5, <3>6, <3>7 DEF Undisturbed
    <2> QED BY <2>1, <2>2
<1>18. Judged'
    BY <1>0, <1>2, <1>9, <1>17 DEF Judged, EnvLeaves
<1> QED BY <1>10, <1>11, <1>12, <1>13, <1>16, <1>18 DEF Inv

(* Whoever has the old file open keeps it when another takes its path.       *)
LEMMA ReplaceBackupSafe == ASSUME Inv, ReplaceBackup PROVE Inv'
<1>0. Types /\ Staged /\ Judged /\ files \in Seq(FileType) /\ Len(files) \in Nat
    BY DEF Inv, Types, WorldTypes
<1>1. /\ EnvLeaves /\ UNCHANGED <<journal, plan, now, unseen, held, torn>>
      /\ \E body \in Bodies : files' = Append(IF Opened THEN files ELSE <<>>, [body |-> body, stamp |-> 0])
    BY Zenon DEF ReplaceBackup, EnvUnchanged, drill, history, EnvLeaves
<1>2. PICK body \in Bodies : files' = Append(IF Opened THEN files ELSE <<>>, [body |-> body, stamp |-> 0])
    BY <1>1, Zenon
<1>3. [body |-> body, stamp |-> 0] \in FileType
    BY DEF FileType
<1>4. files' \in Seq(FileType) /\ files' # <<>> /\ Len(files') \in Nat
    BY <1>0, <1>2, <1>3
<1>5. Opened => Len(files') = Len(files) + 1 /\ \A n \in 1 .. Len(files) : files'[n] = files[n]
    BY <1>0, <1>2, <1>3
<1>6. ~Opened => w.file = 0 /\ check.file = 0
    BY DEF Opened
<1>7. w.file \in Nat /\ check.file \in Nat
    BY <1>0 DEF Types, WorkerType, CheckType
<1>8. w.file <= Len(files') /\ check.file <= Len(files')
    BY <1>0, <1>4, <1>5, <1>6, <1>7 DEF Staged, Judged
<1>9. Types'
    BY <1>0, <1>1, <1>4 DEF Types, WorldTypes, EnvLeaves
<1>10. Staged'
    BY <1>0, <1>1, <1>8 DEF Staged, Passing, EnvLeaves
<1>11. OnDisk'
    BY <1>1 DEF Inv, OnDisk, Tested, ReportAs, EnvLeaves
<1>12. Owned'
    BY <1>1 DEF Inv, Owned, EnvLeaves
<1>13. Undisturbed'
    <2>1. Undisturbed /\ check' = check /\ held' = held /\ torn' = torn
        BY <1>0, <1>1 DEF Judged, EnvLeaves
    <2>2. check.pc \in {"first", "second"} => files'[check.file] = files[check.file]
        BY <1>0, <1>5, <1>6, OpenFile
    <2> QED BY <2>1, <2>2 DEF Undisturbed
<1>14. Judged'
    BY <1>0, <1>1, <1>8, <1>13 DEF Judged, EnvLeaves
<1>15. Copied'
    <2>1. w.pc = "copy" => w.file \in 1 .. Len(files) /\ files'[w.file] = files[w.file]
        BY <1>0, <1>5, <1>6, <1>7 DEF Staged, Copying
    <2> QED BY <1>1, <2>1 DEF Inv, Copied, EnvLeaves
<1> QED BY <1>9, <1>10, <1>11, <1>12, <1>14, <1>15 DEF Inv

(* Journals, plans, clocks, deadlines and orphans disturb nothing.           *)
LEMMA CalmSafe ==
    ASSUME Inv, ToggleJournal \/ EditPlan \/ DeadlinePasses \/ HeirEnds \/ UNCHANGED vars
    PROVE  Inv'
<1>1. EnvLeaves /\ UNCHANGED <<files, unseen, now, held, torn>>
    BY Zenon DEF ToggleJournal, EditPlan, DeadlinePasses, HeirEnds, vars, world, EnvUnchanged, drill, history, EnvLeaves
<1>2. plan' \in Plans
    BY DEF ToggleJournal, EditPlan, DeadlinePasses, HeirEnds, vars, world, Inv, Types, WorldTypes
<1>3. Types'
    BY <1>1, <1>2 DEF Inv, Types, WorldTypes, EnvLeaves
<1>4. Staged'
    BY <1>1 DEF Inv, Staged, Passing, EnvLeaves
<1>5. OnDisk'
    BY <1>1 DEF Inv, OnDisk, Tested, ReportAs, EnvLeaves
<1>6. Owned'
    BY <1>1 DEF Inv, Owned, EnvLeaves
<1>7. Judged' /\ Copied'
    BY <1>1 DEF Inv, Judged, Undisturbed, Copied, EnvLeaves
<1> QED BY <1>3, <1>4, <1>5, <1>6, <1>7 DEF Inv

(* Time passes when no report is about to be printed.                        *)
LEMMA TickSafe == ASSUME Inv, Tick PROVE Inv'
<1>1. EnvLeaves /\ UNCHANGED <<files, journal, plan, unseen, held, torn>> /\ now' = now + 1 /\ w.pc = "reaped"
    BY Zenon DEF Tick, Settled, world, drill, history, EnvLeaves
<1>2. Types'
    BY <1>1 DEF Inv, Types, WorldTypes, EnvLeaves
<1>3. Staged'
    BY <1>1 DEF Inv, Staged, Passing, EnvLeaves
<1>4. OnDisk'
    BY <1>1 DEF Inv, OnDisk, Tested, EnvLeaves
<1>5. Owned'
    BY <1>1 DEF Inv, Owned, EnvLeaves
<1>6. Judged' /\ Copied'
    BY <1>1 DEF Inv, Judged, Undisturbed, Copied, EnvLeaves
<1> QED BY <1>2, <1>3, <1>4, <1>5, <1>6 DEF Inv

(* An id is given to somebody else only after it was freed.                  *)
LEMMA ReusePidSafe == ASSUME Inv, ReusePid PROVE Inv'
<1>1. /\ UNCHANGED <<sup, w, report, answer, check, stray, files, plan, unseen, now, held, torn>>
      /\ pid = "free" /\ pid' = "other"
    BY Zenon DEF ReusePid, SupKeeps, world, history
<1>2. Types'
    BY <1>1 DEF Inv, Types, WorldTypes
<1>3. Staged'
    BY <1>1 DEF Inv, Staged, Passing
<1>4. OnDisk'
    BY <1>1 DEF Inv, OnDisk, Tested, ReportAs
<1>5. Owned'
    BY <1>1 DEF Inv, Owned
<1>6. Judged' /\ Copied'
    BY <1>1 DEF Inv, Judged, Undisturbed, Copied
<1> QED BY <1>2, <1>3, <1>4, <1>5, <1>6 DEF Inv

-----------------------------------------------------------------------------
(* Before the first drill nothing is copied, reported or opened.             *)
LEMMA InitInv == Init => Inv
<1> SUFFICES ASSUME Init PROVE Inv
    OBVIOUS
<1>1. plan \in Plans /\ AnyPlan \in Plans
    BY Bounds DEF Init
<1>2. files \in Seq(FileType) /\ files # <<>> /\ Len(files) = 1
    <2>1. PICK body \in Bodies : files = <<[body |-> body, stamp |-> 0]>>
        BY DEF Init
    <2>2. [body |-> body, stamp |-> 0] \in FileType
        BY DEF FileType
    <2> QED BY <2>1, <2>2
<1>3. sup = [pc |-> "idle", plan |-> AnyPlan, trial |-> FALSE, seen |-> FALSE]
    BY Zenon DEF Init, Idle, AnyPlan
<1>4. sup \in SupType
    BY <1>1, <1>3, Zenon DEF SupType, SupPcs
<1>5. w = Gone("none", None)
    BY GoneSteps, Zenon DEF Init
<1>6. w \in WorkerType
    BY <1>1, <1>5, ReportKinds DEF Gone, WorkerAs, WorkerType, WorkerPcs
<1>7. check = CheckAs("idle", AnyPlan, None, 0, 0, <<>>, <<>>, "none", 0)
    BY Zenon DEF Init, NoCheck, CheckAs, AnyPlan
<1>8. check \in CheckType
    BY <1>1, <1>7, ReportKinds DEF CheckAs, CheckType
<1>9. Types
    BY <1>1, <1>2, <1>4, <1>6, <1>8, ReportKinds DEF Init, Types, WorldTypes
<1>10. /\ w.pc = "none" /\ w.plan = AnyPlan /\ w.file = 0 /\ w.body = <<>> /\ w.done = 0
       /\ w.doomed = FALSE /\ w.printed = None
    BY <1>5 DEF Gone, WorkerAs
<1>11. Len(Checks(w.plan)) \in Nat /\ Len(w.body) <= Parts
    BY <1>1, <1>10, ChecksTyped, Bounds
<1>12. Staged
    BY <1>2, <1>10, <1>11 DEF Staged, Passing, Copying, Restoring, Reporting
<1>13. OnDisk
    BY <1>10, ReportKinds DEF Init, OnDisk, Tested
<1>14. Owned
    BY <1>3, <1>10 DEF Init, Owned
<1>15. /\ check.pc = "idle" /\ check.file = 0 /\ check.first = <<>> /\ check.second = <<>>
       /\ check.verdict = "none"
    BY <1>7 DEF CheckAs
<1>16. Len(check.first) <= Parts /\ Len(check.second) <= Parts
    BY <1>15, Bounds
<1>17. Judged
    BY <1>2, <1>15, <1>16 DEF Judged, Undisturbed
<1>18. Copied
    BY <1>10 DEF Copied
<1> QED BY <1>9, <1>12, <1>13, <1>14, <1>17, <1>18 DEF Inv

(* The inductive invariant of drills and their verification.                 *)
THEOREM DrillInvariant == Spec => []Inv
<1>1. Init => Inv
    BY InitInv
<1>2. Inv /\ [Next]_vars => Inv'
    BY WorkerSafe, SupervisorSafe, VerifySafe, WriteBackupSafe, ReplaceBackupSafe, CalmSafe, TickSafe, ReusePidSafe
       DEF Next, Environment
<1> QED BY <1>1, <1>2, PTL DEF Spec

(* Steps that are not the worker's own leave its stage, or end it.           *)
LEMMA StageStays ==
    ASSUME w \in WorkerType, w.pc = "copy",
           Environment \/ Supervisor \/ WaitFails \/ Reap \/ HeirEnds \/ Verify \/ WorkerCrash \/ WorkerDies
    PROVE  w'.pc \in {"copy", "create", "exited", "reaped"}
<1>1. CASE Environment \/ HeirEnds \/ WaitFails
    <2>1. w' = w
        BY <1>1, Zenon DEF Environment, WriteBackup, ReplaceBackup, ToggleJournal, EditPlan, Tick,
                           DeadlinePasses, ReusePid, HeirEnds, WaitFails, EnvUnchanged, drill
    <2> QED BY <2>1
<1>2. CASE Verify
    <2>1. w' = w
        BY <1>2, Zenon DEF Verify, VerifyStart, VerifyRead, VerifyJudge, VerifyOpen, FirstRead,
                           SecondRead, VerifyDecide, VerifyKeeps, drill
    <2> QED BY <2>1
<1>3. CASE Observe \/ Decide \/ AnswerFailed
    <2>1. w' = w
        BY <1>3, Zenon DEF Observe, Decide, AnswerFailed
    <2> QED BY <2>1
<1>4. CASE Kill
    <2>1. w' = w \/ w' = [w EXCEPT !.doomed = TRUE]
        BY <1>4, Zenon DEF Kill
    <2>2. w'.pc = w.pc
        BY <2>1, WorkerSteps DEF WorkerAs
    <2> QED BY <2>2
<1>5. CASE Spawn
    <2>1. w' = WorkerAs("create", plan, Path, 0, <<>>, 0, FALSE, FALSE, None)
        BY <1>5, GoneSteps, Zenon DEF Spawn
    <2> QED BY <2>1 DEF WorkerAs
<1>6. CASE Collect \/ Reap
    <2>1. w' = Gone("reaped", None)
        BY <1>6, GoneSteps, Zenon DEF Collect, Reap
    <2> QED BY <2>1 DEF Gone, WorkerAs
<1>7. CASE WorkerCrash \/ WorkerDies
    <2>1. w' = Gone("exited", w.printed)
        BY <1>7, GoneSteps, Zenon DEF WorkerCrash, WorkerDies
    <2> QED BY <2>1 DEF Gone, WorkerAs
<1> QED BY <1>1, <1>2, <1>3, <1>4, <1>5, <1>6, <1>7 DEF Supervisor

(* Only the comparison at the end of the copy accepts a copy, and it accepts *)
(* one of a file whose times have not moved.                                 *)
LEMMA AcceptsCopies == ASSUME Inv, [Next]_vars PROVE [CopyIsOfTheFile]_vars
<1> SUFFICES ASSUME w' # w, Next, w.pc = "copy", w'.pc \in {"restore", "sandbox"}
             PROVE  w.body \in held \/ "copy" \in torn
    BY DEF CopyIsOfTheFile, vars
<1>0. Types /\ w \in WorkerType /\ Copied
    BY DEF Inv, Types
<1>1. Worker
    <2>1. w'.pc \notin {"copy", "create", "exited", "reaped"}
        OBVIOUS
    <2> QED BY <1>0, <2>1, StageStays DEF Next
<1>2. ~Fail
    <2>1. Fail => w' = WorkerAs("report", w.plan, 0, 0, IF w.pc \in {"open", "copy"} THEN <<>> ELSE w.body,
                                w.done, TRUE, w.doomed, w.printed)
        BY <1>0, WorkerSteps, Zenon
    <2>2. Fail => w'.pc = "report"
        BY <2>1 DEF WorkerAs
    <2> QED BY <2>2
<1>3. StageCopy \/ StageCompare
    BY <1>1, <1>2 DEF Worker, At, CreateWorkspace, StageOpen, RestoreSqlite, RunCheck, WorkspaceBudget, PgSandbox,
                   PgInitdb, PgServerReady, PgRestore, StageFails, CreateReport, WriteReport, PrintReport
<1>4. ~StageCopy
    <2>1. ASSUME StageCopy PROVE w'.pc = "copy"
        <3>1. w' = [w EXCEPT !.body = Append(w.body, files[w.file].body[Len(w.body) + 1])]
            BY <1>2, <2>1, Zenon DEF StageCopy
        <3>2. \A x : w' = [w EXCEPT !.body = x]
                => w' = WorkerAs(w.pc, w.plan, w.file, w.stamp, x, w.done, w.failed, w.doomed, w.printed)
            BY <1>0, WorkerSteps, Zenon
        <3>3. \E x : w' = WorkerAs(w.pc, w.plan, w.file, w.stamp, x, w.done, w.failed, w.doomed, w.printed)
            BY <3>1, <3>2, Zenon
        <3> QED BY <3>3 DEF WorkerAs
    <2> QED BY <2>1
<1>5. Len(w.body) = Parts /\ files[w.file].stamp = w.stamp
    BY <1>2, <1>3, <1>4, Zenon DEF StageCompare
<1> QED BY <1>0, <1>5, Bounds DEF Copied, Sound

(* A report that says "passed", on disk or answered, names bytes that pass   *)
(* every check of the plan it is bound to; and what is restored and tested   *)
(* is what the file held once, unless an unseen write fell into the copy.    *)
THEOREM PassedWasTested == Spec => PassedIsTested
<1>1. Inv => ReportsAreTested
    <2> SUFFICES ASSUME Inv PROVE Tested(report) /\ Tested(answer)
        BY DEF ReportsAreTested, Tested
    <2>1. Tested(report) /\ (answer.status = "passed" => report = answer)
        BY DEF Inv, OnDisk
    <2> QED BY <2>1 DEF Tested
<1>2. Inv /\ [Next]_vars => [CopyIsOfTheFile]_vars
    BY AcceptsCopies
<1> QED BY <1>1, <1>2, DrillInvariant, PTL DEF Spec, PassedIsTested

(* `test` answers "passed" only with that report complete on disk.           *)
THEOREM AnsweredStaysOnDisk == Spec => []AnsweredIsOnDisk
<1>1. Inv => AnsweredIsOnDisk
    BY DEF Inv, OnDisk, AnsweredIsOnDisk
<1> QED BY <1>1, DrillInvariant, PTL

(* No signal ever hits a group that is not the worker's.                     *)
THEOREM OnlyOwnGroupKilled == Spec => []KillsOwnGroup
<1>1. Inv => KillsOwnGroup
    BY DEF Inv, Owned, KillsOwnGroup
<1> QED BY <1>1, DrillInvariant, PTL

(* A report that `verify` accepts is not older than allowed, and speaks for  *)
(* what was on disk unless unseen writes fell into both reads of the file.   *)
THEOREM AcceptedWasOnDisk == Spec => []AcceptedHolds
<1>1. Inv => AcceptedHolds
    BY DEF Inv, Judged, Undisturbed, AcceptedHolds
<1> QED BY <1>1, DrillInvariant, PTL

=============================================================================
