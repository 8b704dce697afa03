--------------------------- MODULE SensorCoverage ---------------------------
(***************************************************************************)
(* The inspection of a protected root (argos-sensor coverage.rs), the worker *)
(* that repeats it and the status it gives the agent's health tick           *)
(* (argos-agent coverage_worker.rs), while the root is replaced, the         *)
(* configured path is pointed elsewhere, file systems are mounted, the wall  *)
(* clock is set and the disk stalls.                                         *)
(*                                                                           *)
(* Time is kept as ages that stop counting at Old, the first age that is     *)
(* stale; the worker's steps are urgent unless the disk stalls.              *)
(***************************************************************************)
EXTENDS Integers, FiniteSets

CONSTANTS
    Interval,   \* coverage.interval_secs
    MinStale,   \* 60 seconds
    MaxScan,    \* MAX_SCAN_TIME
    Values      \* aspect -> what it may be on the host; Missing among them

Aspects == {"root", "configured", "mounts"}
Registered == 1   \* what an aspect is when the agent is started
Missing == 0      \* no such directory, or mountinfo cannot be read

\* Mutant: the limit does not leave room for the inspection itself.
OneInterval == Interval

\* Twice the interval, and at least a minute.
StaleAfter == IF 2 * Interval > MinStale THEN 2 * Interval ELSE MinStale

Old == StaleAfter + 1
ASSUME CoverageConstants ==
    /\ Interval \in Nat \ {0} /\ MinStale \in Nat /\ MaxScan \in Nat
    /\ \A a \in Aspects : Values[a] \subseteq Nat /\ Registered \in Values[a]

VARIABLES
    host,      \* aspect -> what it is now
    dense,     \* the tree has something the scan cannot inspect or finish
    stalled,   \* a file system call of the worker may take for ever
    phase,     \* the agent: "down", "watching", "mounts", "rooted", "up"
    base,      \* the registration: aspect -> what it was
    stage,        \* where the worker is
    seen,      \* the running inspection: [mounts, issue, age]
    slot,      \* the published snapshot: [gap, age, ahead], or None
    slept,     \* how long the worker has slept
    alive,     \* the worker's liveness flag
    suspect,   \* history: the aspect whose loss is followed
    lost       \* history: how long it has differed from base

hostVars == <<host, dense, stalled>>
workVars == <<stage, seen, slot, slept, alive>>
coverageVars == <<hostVars, phase, base, workVars, suspect, lost>>

None == [gap |-> TRUE, age |-> Old, ahead |-> FALSE]
Nothing == [mounts |-> Missing, issue |-> FALSE, age |-> 0]
Inspecting == {"mounts", "check", "scan", "recheck", "publish"}

CoverageInit ==
    /\ host = [a \in Aspects |-> Registered]
    /\ dense = FALSE /\ stalled = FALSE
    /\ phase = "down" /\ base = [a \in Aspects |-> Missing]
    /\ stage = "off" /\ seen = Nothing /\ slot = None /\ slept = 0 /\ alive = FALSE
    /\ suspect \in Aspects /\ lost = 0

(* The host. *)
\* A root is removed, restored or replaced; the configured path is pointed
\* elsewhere; a file system is mounted or mountinfo cannot be read.
Change(a, v) ==
    /\ host[a] # v
    /\ host' = [host EXCEPT ![a] = v]
    /\ lost' = IF a = suspect /\ v = base[a] THEN 0 ELSE lost
    /\ UNCHANGED <<dense, stalled, phase, base, workVars, suspect>>

Burden(d, s) ==
    /\ <<d, s>> # <<dense, stalled>>
    /\ dense' = d /\ stalled' = s
    /\ UNCHANGED <<host, phase, base, workVars, suspect, lost>>

\* The wall clock is set before the start of the published inspection, or after it.
SetWallClock(b) ==
    /\ slot # None /\ slot.ahead # b
    /\ slot' = [slot EXCEPT !.ahead = b]
    /\ UNCHANGED <<hostVars, phase, base, stage, seen, slept, alive, suspect, lost>>

Older(n) == IF n < Old THEN n + 1 ELSE Old

\* Time passes; a worker that is due acts first, unless its calls stall.
TimePasses ==
    /\ stalled \/ ~(stage \in Inspecting /\ seen.age >= MaxScan)
    /\ stalled \/ ~(stage = "sleep" /\ slept >= Interval)
    /\ seen' = IF stage \in Inspecting THEN [seen EXCEPT !.age = Older(@)] ELSE seen
    /\ slot' = IF slot = None THEN None ELSE [slot EXCEPT !.age = Older(@)]
    /\ slept' = IF stage = "sleep" THEN Older(slept) ELSE slept
    /\ lost' = IF phase = "up" /\ host[suspect] # base[suspect] THEN Older(lost) ELSE lost
    /\ UNCHANGED <<hostVars, phase, base, stage, alive, suspect>>

(* The agent's start: the sensor watches, then the baseline is taken. *)
SpawnSensor ==
    /\ phase = "down" /\ host["root"] # Missing
    /\ phase' = "watching"
    /\ UNCHANGED <<hostVars, base, workVars, suspect, lost>>

\* CoverageInspector::new reads the mounts ...
BaselineMounts ==
    /\ phase = "watching"
    /\ phase' = "mounts" /\ base' = [base EXCEPT !["mounts"] = host["mounts"]]
    /\ UNCHANGED <<hostVars, workVars, suspect, lost>>

\* new_registered refuses a path that is not the one the sensor was given.
IsRegistered == host["configured"] = Registered

\* ... then what the configured path leads to and its identity.
BaselineRoot ==
    /\ phase = "mounts"
    /\ LET ok == IsRegistered /\ host["root"] # Missing
       IN /\ phase' = IF ok THEN "rooted" ELSE "down"
          /\ base' = [base EXCEPT !["root"] = host["root"], !["configured"] = Registered]
    /\ UNCHANGED <<hostVars, workVars, suspect, lost>>

\* ... and reads the mounts again: they must not have changed meanwhile.
MountsKept == host["mounts"] = base["mounts"]

\* Then the worker starts.
StartWorker ==
    /\ phase = "rooted"
    /\ IF MountsKept
       THEN /\ phase' = "up" /\ stage' = "begin" /\ alive' = TRUE
       ELSE /\ phase' = "down" /\ UNCHANGED <<stage, alive>>
    /\ lost' = 0
    /\ UNCHANGED <<hostVars, base, seen, slot, slept, suspect>>

\* The agent ends: the worker is asked to stop and does so before its next round.
StopAgent ==
    /\ phase = "up"
    /\ phase' = "down" /\ stage' = "off" /\ alive' = FALSE
    /\ seen' = Nothing /\ slot' = None /\ slept' = 0
    /\ base' = [a \in Aspects |-> Missing] /\ lost' = 0
    /\ UNCHANGED <<hostVars, suspect>>

(* The worker. *)
\* A panic of the worker: the guard clears the flag, the last snapshot stays.
WorkerDies ==
    /\ phase = "up" /\ alive
    /\ alive' = FALSE /\ stage' = "off" /\ seen' = Nothing /\ slept' = 0
    /\ UNCHANGED <<hostVars, phase, base, slot, suspect, lost>>

\* inspect: the time of the report is the start of the inspection.
BeginInspection ==
    /\ stage = "begin" \/ (stage = "sleep" /\ slept >= Interval)
    /\ stage' = "mounts" /\ seen' = Nothing /\ slept' = 0
    /\ UNCHANGED <<hostVars, phase, base, slot, alive, suspect, lost>>

ReadMounts ==
    /\ stage = "mounts"
    /\ seen' = [seen EXCEPT !.mounts = host["mounts"]]
    /\ stage' = "check"
    /\ UNCHANGED <<hostVars, phase, base, slot, slept, alive, suspect, lost>>

\* host["root"] stands for the pair of device and inode that the code compares: a
\* directory that gets the very pair of its predecessor is no change here either.
Differs(a) == host[a] # base[a]

\* The configured target, the identity of the root, the mounts and the marks.
CheckRoot ==
    /\ stage = "check"
    /\ seen' = [seen EXCEPT !.issue = \/ Differs("configured") \/ Differs("root")
                                      \/ seen.mounts # base["mounts"] \/ seen.mounts = Missing]
    /\ stage' = "scan"
    /\ UNCHANGED <<hostVars, phase, base, slot, slept, alive, suspect, lost>>

\* scan_tree opens the root again; limits and unreadable entries are issues.
ScanTree ==
    /\ stage = "scan"
    /\ seen' = [seen EXCEPT !.issue = @ \/ Differs("root") \/ dense \/ seen.age > MaxScan]
    /\ stage' = "recheck"
    /\ UNCHANGED <<hostVars, phase, base, slot, slept, alive, suspect, lost>>

Recheck ==
    /\ stage = "recheck"
    /\ seen' = [seen EXCEPT !.issue = @ \/ Differs("root") \/ Differs("configured")]
    /\ stage' = "publish"
    /\ UNCHANGED <<hostVars, phase, base, slot, slept, alive, suspect, lost>>

\* Mutant: the age of a snapshot is counted from the end of its inspection.
PublishAsNew ==
    /\ stage = "publish"
    /\ slot' = [gap |-> seen.issue \/ host["mounts"] # seen.mounts \/ seen.age > MaxScan,
                age |-> 0, ahead |-> FALSE]
    /\ stage' = "sleep" /\ seen' = Nothing
    /\ UNCHANGED <<hostVars, phase, base, slept, alive, suspect, lost>>

\* The mounts are read again, the whole time is judged, and the snapshot is stored.
Publish ==
    /\ stage = "publish"
    /\ slot' = [gap |-> seen.issue \/ host["mounts"] # seen.mounts \/ seen.age > MaxScan,
                age |-> seen.age, ahead |-> FALSE]
    /\ stage' = "sleep" /\ seen' = Nothing
    /\ UNCHANGED <<hostVars, phase, base, slept, alive, suspect, lost>>

\* status: what the agent's health tick shows and reports to the central server.
Healthy == alive /\ slot # None /\ slot.age <= StaleAfter /\ ~slot.ahead /\ ~slot.gap

Worker == BeginInspection \/ ReadMounts \/ CheckRoot \/ ScanTree \/ Recheck \/ Publish

CoverageNext ==
    \/ \E a \in Aspects : \E v \in Values[a] : Change(a, v)
    \/ \E d, s \in BOOLEAN : Burden(d, s)
    \/ \E b \in BOOLEAN : SetWallClock(b)
    \/ TimePasses \/ StopAgent \/ WorkerDies
    \/ SpawnSensor \/ BaselineMounts \/ BaselineRoot \/ StartWorker
    \/ BeginInspection \/ ReadMounts \/ CheckRoot \/ ScanTree \/ Recheck \/ Publish

CoverageSpec == CoverageInit /\ [][CoverageNext]_coverageVars

\* The worker is a thread that is always runnable, and time passes.
FairCoverageSpec == CoverageSpec /\ WF_coverageVars(Worker) /\ WF_coverageVars(TimePasses)

-----------------------------------------------------------------------------
\* A root that was removed or replaced, a configured path that leads elsewhere, or
\* mounts that changed, for longer than the age at which a result is stale, are
\* never shown as healthy, whichever of them it is (suspect): however long an
\* inspection took, whatever it saw before the loss, and though the loss fell
\* between two of its steps.
LossIsShown == phase = "up" /\ lost > StaleAfter => ~Healthy

\* The root is what was registered, its tree can be inspected, and nothing stalls.
Calm ==
    /\ phase = "up" /\ alive /\ ~dense /\ ~stalled
    /\ \A a \in Aspects : ~Differs(a)
    /\ base["mounts"] # Missing /\ ~slot.ahead

\* When the registered root stays as it was, the status becomes healthy and stays
\* so: a result never grows stale before the next inspection has replaced it.
CalmIsHealthy == <>[]Calm => <>[]Healthy
=============================================================================
