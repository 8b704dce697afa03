------------------------- MODULE AgentThreads_proofs -------------------------
(***************************************************************************)
(* Proofs about three threads of the agent that share no state: the event  *)
(* loop that answers a detection (AgentResponse), the coverage worker      *)
(* (SensorCoverage) and the reporter with its outbox (DetectionReports).   *)
(***************************************************************************)
EXTENDS AgentResponse, SensorCoverage, DetectionReports, FiniteSetTheorems, TLAPS

-----------------------------------------------------------------------------
(* The automatic response, for any number of processes that get the PID,   *)
(* any clock and any set of policies.                                       *)

Responding == {"respond", "opened", "matched", "signalled"}

\* Only the youngest instance can have the PID, so the instance behind a pidfd
\* that was opened after the event is the observed one or a younger one, and
\* an observed instance that is not behind it cannot come back.
Pids ==
    /\ live \in {0, born}
    /\ target <= born
    /\ step \in Responding => target # 0
    /\ step = "opened" => target <= fd /\ fd <= born
    /\ step \in {"matched", "signalled"} => fd = target

\* An agent that answers has not met a lapse, and one that met it remembers.
Lapses ==
    /\ lapsed => invalid
    /\ step \in {"respond", "opened", "matched"} => ~lapsed

Signalled(i) == \E k \in signals : k.to = i

Successes ==
    /\ step = "signalled" => Signalled(target)
    /\ \A r \in results : r.outcome = "succeeded" =>
          r.instance # 0 /\ r.instance <= born /\ r.instance # live /\ Signalled(r.instance)

(* Every variable keeps its type through every step of the event loop.     *)
LEMMA ResponseTypeStep == ResponseTypeOK /\ [ResponseNext]_responseVars => ResponseTypeOK'
<1> USE DEF ResponseTypeOK, Steps, Outcomes
<1> HIDE DEF Times
<1>0. 0 \in Instances /\ Instances \subseteq Nat
    BY ResponseConstants DEF Instances
<1> USE <1>0
<1> SUFFICES ASSUME ResponseTypeOK, [ResponseNext]_responseVars PROVE ResponseTypeOK'
    OBVIOUS
<1>1. CASE UNCHANGED responseVars
    BY <1>1 DEF responseVars, procVars, guardVars, eventVars, outVars
<1>2. CASE \E t \in Times : SetClock(t)
    BY <1>2 DEF SetClock, procVars, guardVars, eventVars, outVars
<1>3. CASE Spawned
    <2>1. born' \in Instances /\ live' \in Instances
        BY <1>3, ResponseConstants DEF Spawned, Instances
    <2> QED BY <1>3, <2>1 DEF Spawned, guardVars, eventVars, outVars
<1>4. CASE Exits
    BY <1>4 DEF Exits, guardVars, eventVars, outVars
<1>5. ASSUME NEW p \in Policies, StartLoop(p) PROVE ResponseTypeOK'
    <2>1. p.autoBlock \in BOOLEAN
        BY ResponseConstants
    <2>2. /\ running' \in BOOLEAN /\ policy' \in Policies
          /\ invalid' \in BOOLEAN /\ autoBlock' \in BOOLEAN /\ lapsed' \in BOOLEAN
        BY <1>5, <2>1 DEF StartLoop
    <2>3. UNCHANGED <<clock, born, live, step, target, fd, results, signals>>
        BY <1>5 DEF StartLoop, procVars, eventVars, outVars
    <2> QED BY <2>2, <2>3
<1>6. CASE StopLoop
    <2>1. /\ running' \in BOOLEAN /\ step' \in Steps
          /\ target' \in Instances /\ fd' \in Instances
        BY <1>6 DEF StopLoop
    <2>2. UNCHANGED <<clock, born, live, policy, invalid, autoBlock, lapsed, results, signals>>
        BY <1>6 DEF StopLoop, procVars, guardVars, outVars
    <2> QED BY <2>1, <2>2
<1>7. ASSUME NEW i \in Instances, ReceiveEvent(i) PROVE ResponseTypeOK'
    BY <1>7 DEF ReceiveEvent, Guarded, GuardPolicyTime, procVars, outVars
<1>8. CASE HealthTick
    BY <1>8 DEF HealthTick, Guarded, GuardPolicyTime, procVars, eventVars, outVars
<1>9. CASE NoResponse
    BY <1>9 DEF NoResponse, Guarded, GuardPolicyTime, procVars, outVars
<1>10. CASE RecordOnly
    BY <1>10 DEF RecordOnly, Finish, Guarded, GuardPolicyTime, procVars
<1>11. CASE DecideToBlock
    BY <1>11 DEF DecideToBlock, Guarded, GuardPolicyTime, procVars, outVars
<1>12. CASE OpenPidfd
    BY <1>12 DEF OpenPidfd, Finish, procVars, guardVars
<1>13. CASE CheckIdentity
    BY <1>13 DEF CheckIdentity, Finish, procVars, guardVars, outVars
<1>14. CASE SendSignal
    BY <1>14 DEF SendSignal, Finish, procVars, guardVars
<1>15. CASE Confirm
    BY <1>15 DEF Confirm, Finish, procVars, guardVars
<1> QED
    BY <1>1, <1>2, <1>3, <1>4, <1>5, <1>6, <1>7, <1>8, <1>9, <1>10, <1>11,
       <1>12, <1>13, <1>14, <1>15 DEF ResponseNext

(* The event loop starts with its variables typed.                         *)
LEMMA InitTyped == ResponseInit => ResponseTypeOK
<1> SUFFICES ASSUME ResponseInit PROVE ResponseTypeOK
    OBVIOUS
<1>1. 0 \in Instances
    BY ResponseConstants DEF Instances
<1>2. clock \in Times /\ policy \in Policies /\ step \in Steps
    BY DEF ResponseInit, Steps
<1>3. born = 0 /\ live = 0 /\ target = 0 /\ fd = 0 /\ results = {} /\ signals = {}
    BY DEF ResponseInit
<1>4. /\ running \in BOOLEAN /\ invalid \in BOOLEAN
      /\ autoBlock \in BOOLEAN /\ lapsed \in BOOLEAN
    BY DEF ResponseInit
<1> QED BY <1>1, <1>2, <1>3, <1>4 DEF ResponseTypeOK

-----------------------------------------------------------------------------
(* Whoever has the PID: the observed instance is not mistaken for another. *)
LEMMA PidsStep == ResponseTypeOK /\ Pids /\ [ResponseNext]_responseVars => Pids'
<1> SUFFICES ASSUME ResponseTypeOK, Pids, [ResponseNext]_responseVars PROVE Pids'
    OBVIOUS
<1>0. /\ born \in Nat /\ live \in Nat /\ target \in Nat /\ fd \in Nat
      /\ Instances \subseteq Nat
    BY ResponseConstants DEF ResponseTypeOK, Instances
<1> USE <1>0 DEF Pids, Responding
<1>1. CASE UNCHANGED responseVars
    BY <1>1 DEF responseVars, procVars, eventVars
<1>2. CASE \E t \in Times : SetClock(t)
    BY <1>2 DEF SetClock, procVars, eventVars
<1>3. CASE Spawned
    BY <1>3 DEF Spawned, eventVars
<1>4. CASE Exits
    BY <1>4 DEF Exits, eventVars
<1>5. CASE \E p \in Policies : StartLoop(p)
    BY <1>5 DEF StartLoop, procVars, eventVars
<1>6. CASE StopLoop
    BY <1>6 DEF StopLoop, procVars
<1>7. ASSUME NEW i \in Instances, ReceiveEvent(i) PROVE Pids'
    BY <1>7 DEF ReceiveEvent, procVars
<1>8. CASE HealthTick
    BY <1>8 DEF HealthTick, procVars, eventVars
<1>9. CASE NoResponse
    BY <1>9 DEF NoResponse, procVars
<1>10. CASE RecordOnly
    BY <1>10 DEF RecordOnly, Finish, procVars
<1>11. CASE DecideToBlock
    BY <1>11 DEF DecideToBlock, procVars
<1>12. CASE OpenPidfd
    BY <1>12 DEF OpenPidfd, Finish, procVars
<1>13. CASE CheckIdentity
    BY <1>13 DEF CheckIdentity, Finish, procVars
<1>14. CASE SendSignal
    BY <1>14 DEF SendSignal, Finish, procVars
<1>15. CASE Confirm
    BY <1>15 DEF Confirm, Finish, procVars
<1> QED
    BY <1>1, <1>2, <1>3, <1>4, <1>5, <1>6, <1>7, <1>8, <1>9, <1>10, <1>11,
       <1>12, <1>13, <1>14, <1>15 DEF ResponseNext

(* What the guard of the policy's time has seen is kept while it matters.  *)
LEMMA LapsesStep == Lapses /\ [ResponseNext]_responseVars => Lapses'
<1> SUFFICES ASSUME Lapses, [ResponseNext]_responseVars PROVE Lapses'
    OBVIOUS
<1> USE DEF Lapses
<1>1. CASE UNCHANGED responseVars
    BY <1>1 DEF responseVars, guardVars, eventVars
<1>2. CASE \E t \in Times : SetClock(t)
    BY <1>2 DEF SetClock, guardVars, eventVars
<1>3. CASE Spawned \/ Exits
    BY <1>3 DEF Spawned, Exits, guardVars, eventVars
<1>4. CASE \E p \in Policies : StartLoop(p)
    BY <1>4 DEF StartLoop
<1>5. CASE StopLoop
    BY <1>5 DEF StopLoop, guardVars
<1>6. ASSUME NEW i \in Instances, ReceiveEvent(i) PROVE Lapses'
    BY <1>6 DEF ReceiveEvent, Guarded, GuardPolicyTime
<1>7. CASE HealthTick
    BY <1>7 DEF HealthTick, Guarded, GuardPolicyTime, eventVars
<1>8. CASE NoResponse
    BY <1>8 DEF NoResponse, Guarded, GuardPolicyTime
<1>9. CASE RecordOnly
    BY <1>9 DEF RecordOnly, Finish, Guarded, GuardPolicyTime
<1>10. CASE DecideToBlock
    BY <1>10 DEF DecideToBlock, Guarded, GuardPolicyTime
<1>11. CASE OpenPidfd
    BY <1>11 DEF OpenPidfd, Finish, guardVars
<1>12. CASE CheckIdentity
    BY <1>12 DEF CheckIdentity, Finish, guardVars
<1>13. CASE SendSignal
    BY <1>13 DEF SendSignal, Finish, guardVars
<1>14. CASE Confirm
    BY <1>14 DEF Confirm, Finish, guardVars
<1> QED
    BY <1>1, <1>2, <1>3, <1>4, <1>5, <1>6, <1>7, <1>8, <1>9, <1>10, <1>11,
       <1>12, <1>13, <1>14 DEF ResponseNext

-----------------------------------------------------------------------------
(* Signals are sent by SendSignal alone.                                   *)
LEMMA SignalsStep ==
    ASSUME [ResponseNext]_responseVars
    PROVE  \/ signals' = signals
           \/ /\ step = "matched"
              /\ signals' = signals \cup {[to |-> fd, for |-> target, lapsed |-> lapsed]}
<1>1. CASE SendSignal
    BY <1>1 DEF SendSignal
<1>2. CASE UNCHANGED responseVars \/ (\E t \in Times : SetClock(t)) \/ Spawned \/ Exits
    BY <1>2 DEF responseVars, SetClock, Spawned, Exits, outVars
<1>3. CASE (\E p \in Policies : StartLoop(p)) \/ StopLoop
    BY <1>3 DEF StartLoop, StopLoop, outVars
<1>4. CASE (\E i \in Instances : ReceiveEvent(i)) \/ HealthTick \/ NoResponse
    BY <1>4 DEF ReceiveEvent, HealthTick, NoResponse, outVars
<1>5. CASE RecordOnly \/ DecideToBlock
    BY <1>5 DEF RecordOnly, DecideToBlock, outVars
<1>6. CASE OpenPidfd \/ CheckIdentity \/ Confirm
    BY <1>6 DEF OpenPidfd, CheckIdentity, Confirm
<1> QED
    BY <1>1, <1>2, <1>3, <1>4, <1>5, <1>6 DEF ResponseNext

(* A row of success is entered by Confirm alone, once the process is gone. *)
LEMMA ResultsStep ==
    ASSUME [ResponseNext]_responseVars, NEW r \in results', r \notin results, r.outcome = "succeeded"
    PROVE  step = "signalled" /\ live # fd /\ r.instance = target /\ UNCHANGED procVars
<1>1. CASE Confirm
    <2>1. CASE live # fd
        BY <1>1, <2>1 DEF Confirm, Finish
    <2>2. CASE live = fd
        BY <1>1, <2>2 DEF Confirm, Finish
    <2> QED BY <2>1, <2>2
<1>2. CASE UNCHANGED responseVars \/ (\E t \in Times : SetClock(t)) \/ Spawned \/ Exits
    BY <1>2 DEF responseVars, SetClock, Spawned, Exits, outVars
<1>3. CASE (\E p \in Policies : StartLoop(p)) \/ StopLoop
    BY <1>3 DEF StartLoop, StopLoop, outVars
<1>4. CASE (\E i \in Instances : ReceiveEvent(i)) \/ HealthTick \/ NoResponse
    BY <1>4 DEF ReceiveEvent, HealthTick, NoResponse, outVars
<1>5. CASE RecordOnly
    BY <1>5 DEF RecordOnly, Finish
<1>6. CASE DecideToBlock
    BY <1>6 DEF DecideToBlock, outVars
<1>7. CASE OpenPidfd
    BY <1>7 DEF OpenPidfd, Finish
<1>8. CASE CheckIdentity
    BY <1>8 DEF CheckIdentity, Finish
<1>9. CASE SendSignal
    BY <1>9 DEF SendSignal, Finish
<1> QED
    BY <1>1, <1>2, <1>3, <1>4, <1>5, <1>6, <1>7, <1>8, <1>9 DEF ResponseNext

(* The PID only goes to instances that are younger than all before.        *)
LEMMA ProcessesStep ==
    ASSUME ResponseTypeOK, [ResponseNext]_responseVars
    PROVE  \/ UNCHANGED procVars
           \/ born' = born /\ live' = 0
           \/ born' = born + 1 /\ live' = born + 1
<1>1. CASE Spawned \/ Exits
    BY <1>1 DEF Spawned, Exits
<1>2. CASE UNCHANGED responseVars \/ (\E t \in Times : SetClock(t))
    BY <1>2 DEF responseVars, SetClock
<1>3. CASE (\E p \in Policies : StartLoop(p)) \/ StopLoop
    BY <1>3 DEF StartLoop, StopLoop
<1>4. CASE (\E i \in Instances : ReceiveEvent(i)) \/ HealthTick \/ NoResponse
    BY <1>4 DEF ReceiveEvent, HealthTick, NoResponse
<1>5. CASE RecordOnly \/ DecideToBlock \/ OpenPidfd
    BY <1>5 DEF RecordOnly, DecideToBlock, OpenPidfd
<1>6. CASE CheckIdentity \/ SendSignal \/ Confirm
    BY <1>6 DEF CheckIdentity, SendSignal, Confirm
<1> QED
    BY <1>1, <1>2, <1>3, <1>4, <1>5, <1>6 DEF ResponseNext

(* The loop only comes to wait for the end of a process it has signalled.  *)
LEMMA WaitingStep ==
    ASSUME [ResponseNext]_responseVars, step' = "signalled"
    PROVE  \/ step = "signalled" /\ target' = target
           \/ step = "matched" /\ target' = target /\ fd \in {k.to : k \in signals'}
<1>1. CASE SendSignal
    BY <1>1 DEF SendSignal, Finish
<1>2. CASE UNCHANGED responseVars \/ (\E t \in Times : SetClock(t)) \/ Spawned \/ Exits
    BY <1>2 DEF responseVars, SetClock, Spawned, Exits, eventVars
<1>3. CASE (\E p \in Policies : StartLoop(p)) \/ StopLoop
    BY <1>3 DEF StartLoop, StopLoop, eventVars
<1>4. CASE (\E i \in Instances : ReceiveEvent(i)) \/ HealthTick \/ NoResponse
    BY <1>4 DEF ReceiveEvent, HealthTick, NoResponse, eventVars
<1>5. CASE RecordOnly \/ DecideToBlock
    BY <1>5 DEF RecordOnly, DecideToBlock, Finish
<1>6. CASE OpenPidfd \/ CheckIdentity
    BY <1>6 DEF OpenPidfd, CheckIdentity, Finish
<1>7. CASE Confirm
    BY <1>7 DEF Confirm, Finish
<1> QED
    BY <1>1, <1>2, <1>3, <1>4, <1>5, <1>6, <1>7 DEF ResponseNext

-----------------------------------------------------------------------------
(* Successes in the table stay true: the process has been signalled and is *)
(* gone for good.                                                          *)
LEMMA SuccessesStep == ResponseTypeOK /\ Pids /\ Successes /\ [ResponseNext]_responseVars => Successes'
<1> SUFFICES ASSUME ResponseTypeOK, Pids, Successes, [ResponseNext]_responseVars PROVE Successes'
    OBVIOUS
<1>1. born \in Nat /\ live \in Nat /\ target \in Nat
    BY ResponseConstants DEF ResponseTypeOK, Instances
<1>2. signals \subseteq signals'
    BY SignalsStep
<1>3. ASSUME step' = "signalled" PROVE Signalled(target)'
    <2>1. CASE step = "signalled" /\ target' = target
        BY <1>2, <2>1 DEF Successes, Signalled
    <2>2. CASE step = "matched" /\ target' = target /\ fd \in {k.to : k \in signals'}
        BY <2>2 DEF Pids, Signalled
    <2> QED BY <1>3, <2>1, <2>2, WaitingStep
<1>4. ASSUME NEW r \in results', r.outcome = "succeeded"
      PROVE  r.instance # 0 /\ r.instance <= born' /\ r.instance # live' /\ Signalled(r.instance)'
    <2>1. CASE r \in results
        <3>1. r.instance # 0 /\ r.instance <= born /\ r.instance # live /\ Signalled(r.instance)
            BY <1>4, <2>1 DEF Successes
        <3>2. r.instance \in Nat
            BY <2>1, ResponseConstants DEF ResponseTypeOK, Instances
        <3>3. r.instance <= born' /\ r.instance # live'
            BY <1>1, <3>1, <3>2, ProcessesStep DEF procVars
        <3> QED BY <1>2, <3>1, <3>3 DEF Signalled
    <2>2. CASE r \notin results
        <3>1. step = "signalled" /\ live # fd /\ r.instance = target /\ UNCHANGED procVars
            BY <1>4, <2>2, ResultsStep
        <3>2. r.instance # 0 /\ r.instance <= born' /\ r.instance # live'
            BY <3>1 DEF Pids, Responding, procVars
        <3> QED BY <1>2, <3>1, <3>2 DEF Successes, Signalled
    <2> QED BY <2>1, <2>2
<1> QED BY <1>3, <1>4 DEF Successes

ResponseInv == ResponseTypeOK /\ Pids /\ Lapses /\ Successes /\ KillsOnlyTheObserved /\ LapseStopsResponse

(* The invariant of the event loop holds in every reachable state.         *)
THEOREM Invariance == ResponseSpec => []ResponseInv
<1>1. ResponseInit => Pids /\ Lapses /\ Successes /\ KillsOnlyTheObserved /\ LapseStopsResponse
    BY DEF ResponseInit, Pids, Responding, Lapses, Successes, KillsOnlyTheObserved, LapseStopsResponse
<1>2. ResponseInv /\ [ResponseNext]_responseVars => ResponseInv'
    <2> SUFFICES ASSUME ResponseInv, [ResponseNext]_responseVars PROVE ResponseInv'
        OBVIOUS
    <2>1. ResponseTypeOK' /\ Pids' /\ Lapses' /\ Successes'
        BY ResponseTypeStep, PidsStep, LapsesStep, SuccessesStep DEF ResponseInv
    <2>2. KillsOnlyTheObserved' /\ LapseStopsResponse'
        <3>1. CASE signals' = signals
            BY <3>1 DEF ResponseInv, KillsOnlyTheObserved, LapseStopsResponse
        <3>2. CASE /\ step = "matched"
                   /\ signals' = signals \cup {[to |-> fd, for |-> target, lapsed |-> lapsed]}
            <4>1. fd = target /\ ~lapsed
                BY <3>2 DEF ResponseInv, Pids, Lapses
            <4> QED BY <3>2, <4>1 DEF ResponseInv, KillsOnlyTheObserved, LapseStopsResponse
        <3> QED BY <3>1, <3>2, SignalsStep
    <2> QED BY <2>1, <2>2 DEF ResponseInv
<1>3. ResponseInit => ResponseTypeOK
    BY InitTyped
<1> QED
    BY <1>1, <1>2, <1>3, PTL DEF ResponseSpec, ResponseInv

(* Whatever process takes the PID and whenever, the signal reaches the      *)
(* process of the event or nobody (LinuxResponder::execute).                *)
THEOREM OnlyTheObservedIsKilled == ResponseSpec => []KillsOnlyTheObserved
BY Invariance, PTL DEF ResponseInv

(* Once the guard has read a time outside the policy's validity, nothing is *)
(* killed until a restart, however the clock is set (guard_policy_time).    *)
THEOREM LapsedPolicyKillsNothing == ResponseSpec => []LapseStopsResponse
BY Invariance, PTL DEF ResponseInv

(* The table of responses is typed, and a success in it is a process that   *)
(* was signalled and is gone (insert_response_result).                      *)
THEOREM AuditedResultsAreTrue == ResponseSpec => []ResultsAreTrue
<1>1. ResponseInv => ResultsAreTrue
    BY DEF ResponseInv, Successes, Signalled, ResultsAreTrue, SucceededIsDead
<1> QED BY <1>1, Invariance, PTL

-----------------------------------------------------------------------------
(* The coverage worker, for any interval, any limit of a scan and whatever *)
(* the root, the configured path and the mounts can become.                *)

Ages == 0..Old
Seen == [mounts : Nat, issue : BOOLEAN, age : Ages]
Slot == [gap : BOOLEAN, age : Ages, ahead : BOOLEAN]
Phases == {"down", "watching", "mounts", "rooted", "up"}
Pcs == {"off", "begin", "sleep"} \cup Inspecting

\* The host and the agent's variables hold what their types say.
CoverageTypeOK ==
    /\ host \in [Aspects -> Nat] /\ dense \in BOOLEAN /\ stalled \in BOOLEAN
    /\ phase \in Phases /\ base \in [Aspects -> Nat]
    /\ stage \in Pcs /\ seen \in Seen /\ slot \in Slot
    /\ slept \in Ages /\ alive \in BOOLEAN
    /\ suspect \in Aspects /\ lost \in Ages

\* The loss that is followed is counted from zero whenever it has ended.
Counted == phase = "up" /\ host[suspect] = base[suspect] => lost = 0

\* An inspection that began after the loss has met it where it looked: in the
\* mounts it read first, and in everything once the root was checked.
Inspected ==
    phase = "up" /\ lost > seen.age =>
        /\ stage = "check" /\ suspect = "mounts" => seen.mounts # base["mounts"]
        /\ stage \in {"scan", "recheck", "publish"} => seen.issue

\* So has the inspection that was published last.
PublishedLoss == phase = "up" /\ lost > slot.age => slot.gap

CoverageInv == CoverageTypeOK /\ Counted /\ Inspected /\ PublishedLoss

-----------------------------------------------------------------------------
(* The age at which a snapshot is stale, and the one after it at which ages *)
(* stop counting, are numbers.                                              *)
LEMMA Limits == StaleAfter \in Nat /\ Old \in Nat /\ Old = StaleAfter + 1
BY CoverageConstants DEF StaleAfter, Old

(* Ages stay ages, and growing older together never lets the loss overtake  *)
(* a snapshot that was not younger than it.                                 *)
LEMMA OlderKeepsOrder ==
    ASSUME NEW m \in Ages, NEW n \in Ages
    PROVE  /\ Older(m) \in Ages
           /\ Older(m) > Older(n) => m > n
           /\ m = 0 => ~(m > Older(n))
BY Limits DEF Ages, Older

(* What the agent, its worker and the host start with is typed, nothing is  *)
(* lost and nothing has been inspected.                                     *)
LEMMA CoverageInitInv == CoverageInit => CoverageInv
<1> SUFFICES ASSUME CoverageInit PROVE CoverageInv
    OBVIOUS
<1>1. 0 \in Ages /\ Old \in Ages
    BY Limits DEF Ages
<1>2. Registered \in Nat /\ Missing \in Nat
    BY DEF Registered, Missing
<1>3. host \in [Aspects -> Nat] /\ base \in [Aspects -> Nat] /\ suspect \in Aspects
    BY <1>2 DEF CoverageInit
<1>4. Nothing \in Seen /\ None \in Slot
    BY <1>1, <1>2 DEF Nothing, None, Seen, Slot
<1>5. phase \in Phases /\ stage \in Pcs /\ dense \in BOOLEAN /\ stalled \in BOOLEAN /\ alive \in BOOLEAN
    BY DEF CoverageInit, Phases, Pcs
<1>6. CoverageTypeOK
    BY <1>1, <1>3, <1>4, <1>5 DEF CoverageInit, CoverageTypeOK
<1>7. phase # "up"
    BY DEF CoverageInit
<1> QED BY <1>6, <1>7 DEF CoverageInv, Counted, Inspected, PublishedLoss

-----------------------------------------------------------------------------
(* What the steps that update a record leave in it, field by field.         *)
LEMMA SlotSteps ==
    ASSUME CoverageTypeOK
    PROVE  /\ \A b : SetWallClock(b) => slot' = [gap |-> slot.gap, age |-> slot.age, ahead |-> b]
           /\ TimePasses => \/ slot' = slot /\ slot = None
                      \/ slot' = [gap |-> slot.gap, age |-> Older(slot.age), ahead |-> slot.ahead]
<1>1. slot \in [gap : BOOLEAN, age : Ages, ahead : BOOLEAN]
    BY DEF CoverageTypeOK, Slot
<1>2. ASSUME NEW b, SetWallClock(b)
      PROVE  slot' = [gap |-> slot.gap, age |-> slot.age, ahead |-> b]
    BY <1>1, <1>2, Zenon DEF SetWallClock
<1>3. ASSUME TimePasses
      PROVE  \/ slot' = slot /\ slot = None
             \/ slot' = [gap |-> slot.gap, age |-> Older(slot.age), ahead |-> slot.ahead]
    BY <1>1, <1>3, Zenon DEF TimePasses
<1> QED BY <1>2, <1>3

(* The same for the running inspection: only its issue, its age or the mounts  *)
(* it read change.                                                           *)
LEMMA SeenSteps ==
    ASSUME CoverageTypeOK
    PROVE  /\ TimePasses => \/ seen' = seen /\ stage \notin Inspecting
                      \/ seen' = [mounts |-> seen.mounts, issue |-> seen.issue, age |-> Older(seen.age)]
           /\ ReadMounts =>
                seen' = [mounts |-> host["mounts"], issue |-> seen.issue, age |-> seen.age]
           /\ CheckRoot =>
                seen' = [mounts |-> seen.mounts, age |-> seen.age,
                         issue |-> \/ Differs("configured") \/ Differs("root")
                                   \/ seen.mounts # base["mounts"] \/ seen.mounts = Missing]
           /\ ScanTree =>
                seen' = [mounts |-> seen.mounts, age |-> seen.age,
                         issue |-> seen.issue \/ Differs("root") \/ dense \/ seen.age > MaxScan]
           /\ Recheck =>
                seen' = [mounts |-> seen.mounts, age |-> seen.age,
                         issue |-> seen.issue \/ Differs("root") \/ Differs("configured")]
<1>1. seen \in [mounts : Nat, issue : BOOLEAN, age : Ages]
    BY DEF CoverageTypeOK, Seen
<1>2. ASSUME TimePasses
      PROVE  \/ seen' = seen /\ stage \notin Inspecting
             \/ seen' = [mounts |-> seen.mounts, issue |-> seen.issue, age |-> Older(seen.age)]
    BY <1>1, <1>2, Zenon DEF TimePasses
<1>3. ASSUME ReadMounts
      PROVE  seen' = [mounts |-> host["mounts"], issue |-> seen.issue, age |-> seen.age]
    BY <1>1, <1>3, Zenon DEF ReadMounts
<1>4. ASSUME CheckRoot
      PROVE  seen' = [mounts |-> seen.mounts, age |-> seen.age,
                      issue |-> \/ Differs("configured") \/ Differs("root")
                                \/ seen.mounts # base["mounts"] \/ seen.mounts = Missing]
    BY <1>1, <1>4, Zenon DEF CheckRoot
<1>5. ASSUME ScanTree
      PROVE  seen' = [mounts |-> seen.mounts, age |-> seen.age,
                      issue |-> seen.issue \/ Differs("root") \/ dense \/ seen.age > MaxScan]
    BY <1>1, <1>5, Zenon DEF ScanTree
<1>6. ASSUME Recheck
      PROVE  seen' = [mounts |-> seen.mounts, age |-> seen.age,
                      issue |-> seen.issue \/ Differs("root") \/ Differs("configured")]
    BY <1>1, <1>6, Zenon DEF Recheck
<1> QED BY <1>2, <1>3, <1>4, <1>5, <1>6, Zenon

(* Every step of the host, the agent's start and the worker keeps the types. *)
LEMMA CoverageTypeStep == CoverageTypeOK /\ [CoverageNext]_coverageVars => CoverageTypeOK'
<1> SUFFICES ASSUME CoverageTypeOK, [CoverageNext]_coverageVars PROVE CoverageTypeOK'
    OBVIOUS
<1> USE DEF CoverageTypeOK
<1>0. 0 \in Ages /\ Registered \in Nat /\ Missing \in Nat
    BY Limits DEF Ages, Registered, Missing
<1>a. Nothing \in Seen /\ None \in Slot
    BY <1>0, Limits DEF Nothing, None, Seen, Slot, Ages
<1>b. /\ {"down", "watching", "mounts", "rooted", "up"} \subseteq Phases
      /\ {"off", "begin", "mounts", "check", "scan", "recheck", "publish", "sleep"} \subseteq Pcs
    BY DEF Phases, Pcs, Inspecting
<1>c. \A n \in Ages : Older(n) \in Ages
    BY OlderKeepsOrder
<1>d. {"root", "configured", "mounts"} \subseteq Aspects
    BY DEF Aspects
<1>1. CASE UNCHANGED coverageVars
    BY <1>1 DEF coverageVars, hostVars, workVars
<1>2. ASSUME NEW a \in Aspects, NEW v \in Values[a], Change(a, v) PROVE CoverageTypeOK'
    <2>1. v \in Nat
        BY <1>2, CoverageConstants
    <2>2. host' \in [Aspects -> Nat] /\ lost' \in Ages
        BY <1>2, <2>1, <1>0 DEF Change
    <2> QED BY <1>2, <2>2 DEF Change, workVars
<1>3. ASSUME NEW d \in BOOLEAN, NEW t \in BOOLEAN, Burden(d, t) PROVE CoverageTypeOK'
    BY <1>3 DEF Burden, workVars
<1>4. ASSUME NEW b \in BOOLEAN, SetWallClock(b) PROVE CoverageTypeOK'
    <2>1. slot' \in Slot
        BY <1>4, SlotSteps DEF Slot
    <2> QED BY <1>4, <2>1 DEF SetWallClock, hostVars
<1>5. CASE TimePasses
    <2>1. slot' \in Slot
        BY <1>5, <1>c, SlotSteps DEF Slot
    <2>2. seen' \in Seen
        BY <1>5, <1>c, SeenSteps DEF Seen
    <2>3. slept' \in Ages /\ lost' \in Ages
        BY <1>5, <1>c DEF TimePasses
    <2> QED BY <1>5, <2>1, <2>2, <2>3 DEF TimePasses, hostVars
<1>6. CASE StopAgent
    <2>1. base' \in [Aspects -> Nat]
        BY <1>6, <1>0 DEF StopAgent
    <2> QED BY <1>6, <2>1, <1>0, <1>a, <1>b DEF StopAgent, hostVars
<1>7. CASE WorkerDies
    BY <1>7, <1>0, <1>a, <1>b DEF WorkerDies, hostVars
<1>8. CASE SpawnSensor
    BY <1>8, <1>b DEF SpawnSensor, hostVars, workVars
<1>9. CASE BaselineMounts
    <2>1. base' \in [Aspects -> Nat]
        BY <1>9, <1>d DEF BaselineMounts
    <2> QED BY <1>9, <2>1, <1>b DEF BaselineMounts, hostVars, workVars
<1>10. CASE BaselineRoot
    <2>1. base' \in [Aspects -> Nat]
        BY <1>10, <1>0, <1>d DEF BaselineRoot
    <2>2. phase' \in Phases
        BY <1>10, <1>b DEF BaselineRoot
    <2> QED BY <1>10, <2>1, <2>2 DEF BaselineRoot, hostVars, workVars
<1>11. CASE StartWorker
    BY <1>11, <1>0, <1>b DEF StartWorker, hostVars
<1>12. CASE BeginInspection
    BY <1>12, <1>0, <1>a, <1>b DEF BeginInspection, hostVars
<1>13. CASE ReadMounts
    <2>1. seen' \in Seen
        BY <1>13, <1>d, SeenSteps DEF Seen
    <2> QED BY <1>13, <2>1, <1>b DEF ReadMounts, hostVars
<1>14. CASE CheckRoot
    <2> DEFINE found == \/ Differs("configured") \/ Differs("root")
                      \/ seen.mounts # base["mounts"] \/ seen.mounts = Missing
    <2>0. seen' = [mounts |-> seen.mounts, age |-> seen.age, issue |-> found]
        BY <1>14, SeenSteps, Zenon
    <2>a. found \in BOOLEAN
        BY Zenon
    <2> HIDE DEF found
    <2>1. seen' \in Seen
        BY <2>0, <2>a DEF Seen
    <2> QED BY <1>14, <2>1, <1>b DEF CheckRoot, hostVars
<1>15. CASE ScanTree
    <2> DEFINE found == seen.issue \/ Differs("root") \/ dense \/ seen.age > MaxScan
    <2>0. seen' = [mounts |-> seen.mounts, age |-> seen.age, issue |-> found]
        BY <1>15, SeenSteps, Zenon
    <2>a. found \in BOOLEAN
        BY Zenon
    <2> HIDE DEF found
    <2>1. seen' \in Seen
        BY <2>0, <2>a DEF Seen
    <2> QED BY <1>15, <2>1, <1>b DEF ScanTree, hostVars
<1>16. CASE Recheck
    <2> DEFINE found == seen.issue \/ Differs("root") \/ Differs("configured")
    <2>0. seen' = [mounts |-> seen.mounts, age |-> seen.age, issue |-> found]
        BY <1>16, SeenSteps, Zenon
    <2>a. found \in BOOLEAN
        BY Zenon
    <2> HIDE DEF found
    <2>1. seen' \in Seen
        BY <2>0, <2>a DEF Seen
    <2> QED BY <1>16, <2>1, <1>b DEF Recheck, hostVars
<1>17. CASE Publish
    <2>1. slot' \in Slot
        BY <1>17 DEF Publish, Slot, Seen
    <2> QED BY <1>17, <2>1, <1>a, <1>b DEF Publish, hostVars
<1> QED
    BY <1>1, <1>2, <1>3, <1>4, <1>5, <1>6, <1>7, <1>8, <1>9, <1>10, <1>11, <1>12,
       <1>13, <1>14, <1>15, <1>16, <1>17 DEF CoverageNext
(* Only the host's own change and the end of the agent start the count anew:  *)
(* a loss that is still counted is still there.                               *)
LEMMA CountedStep == CoverageInv /\ [CoverageNext]_coverageVars => Counted'
<1> SUFFICES ASSUME CoverageInv, [CoverageNext]_coverageVars PROVE Counted'
    OBVIOUS
<1> USE DEF CoverageInv, Counted
<1>1. CASE UNCHANGED coverageVars
    BY <1>1 DEF coverageVars, hostVars
<1>2. ASSUME NEW a \in Aspects, NEW v \in Values[a], Change(a, v) PROVE Counted'
    BY <1>2 DEF Change, CoverageTypeOK
<1>3. ASSUME NEW d \in BOOLEAN, NEW t \in BOOLEAN, Burden(d, t) PROVE Counted'
    BY <1>3 DEF Burden
<1>4. ASSUME NEW b \in BOOLEAN, SetWallClock(b) PROVE Counted'
    BY <1>4 DEF SetWallClock, hostVars
<1>5. CASE TimePasses
    BY <1>5 DEF TimePasses, hostVars
<1>6. CASE StopAgent \/ WorkerDies
    BY <1>6 DEF StopAgent, WorkerDies, hostVars
<1>7. CASE SpawnSensor \/ BaselineMounts \/ BaselineRoot \/ StartWorker
    BY <1>7 DEF SpawnSensor, BaselineMounts, BaselineRoot, StartWorker, hostVars
<1>8. CASE BeginInspection \/ ReadMounts \/ CheckRoot \/ ScanTree \/ Recheck \/ Publish
    BY <1>8 DEF BeginInspection, ReadMounts, CheckRoot, ScanTree, Recheck, Publish, hostVars
<1> QED BY <1>1, <1>2, <1>3, <1>4, <1>5, <1>6, <1>7, <1>8 DEF CoverageNext

(* An inspection meets a loss that is older than itself, whichever step of it *)
(* looks, and never forgets it.                                               *)
LEMMA InspectedStep == CoverageInv /\ [CoverageNext]_coverageVars => Inspected'
<1> SUFFICES ASSUME CoverageInv, [CoverageNext]_coverageVars, (phase = "up" /\ lost > seen.age)'
             PROVE  (/\ stage = "check" /\ suspect = "mounts" => seen.mounts # base["mounts"]
                     /\ stage \in {"scan", "recheck", "publish"} => seen.issue)'
    BY DEF Inspected
<1> DEFINE Met == (/\ stage = "check" /\ suspect = "mounts" => seen.mounts # base["mounts"]
                   /\ stage \in {"scan", "recheck", "publish"} => seen.issue)
<1>0. /\ lost \in Ages /\ seen.age \in Ages /\ seen.issue \in BOOLEAN
      /\ lost \in Nat /\ seen.age \in Nat /\ Old \in Nat
      /\ suspect \in Aspects
    BY Limits DEF CoverageInv, CoverageTypeOK, Seen, Ages
<1>a. phase = "up" /\ lost > seen.age => Met
    BY DEF CoverageInv, Inspected
<1>b. phase = "up" /\ lost > seen.age => Differs(suspect)
    BY <1>0 DEF CoverageInv, Counted, Differs
<1>1. CASE UNCHANGED coverageVars
    BY <1>1, <1>a DEF coverageVars, workVars
<1>2. ASSUME NEW a \in Aspects, NEW v \in Values[a], Change(a, v) PROVE Met'
    BY <1>2, <1>0, <1>a DEF Change, workVars
<1>3. ASSUME NEW d \in BOOLEAN, NEW t \in BOOLEAN, Burden(d, t) PROVE Met'
    BY <1>3, <1>a DEF Burden, workVars
<1>4. ASSUME NEW b \in BOOLEAN, SetWallClock(b) PROVE Met'
    BY <1>4, <1>a DEF SetWallClock
<1>5. CASE TimePasses
    <2>1. CASE stage \notin Inspecting
        BY <1>5, <2>1 DEF TimePasses, Inspecting
    <2>2. CASE stage \in Inspecting
        <3>1. seen' = [mounts |-> seen.mounts, issue |-> seen.issue, age |-> Older(seen.age)]
            BY <1>5, <2>2, SeenSteps DEF CoverageInv
        <3>2. lost' = lost \/ lost' = Older(lost)
            BY <1>5 DEF TimePasses
        <3>3. lost' > Older(seen.age)
            BY <3>1
        <3>4. Older(seen.age) >= seen.age \/ Older(seen.age) = Old
            BY <1>0 DEF Older
        <3>5. lost > seen.age
            BY <1>0, <3>2, <3>3, <3>4, OlderKeepsOrder, Limits DEF Ages
        <3>6. Met
            BY <1>5, <1>a, <3>5 DEF TimePasses
        <3> QED BY <1>5, <3>1, <3>6 DEF TimePasses
    <2> QED BY <2>1, <2>2
<1>6. CASE StopAgent \/ WorkerDies
    BY <1>6 DEF StopAgent, WorkerDies
<1>7. CASE SpawnSensor \/ BaselineMounts \/ BaselineRoot
    BY <1>7 DEF SpawnSensor, BaselineMounts, BaselineRoot
<1>8. CASE StartWorker
    BY <1>8, <1>0 DEF StartWorker
<1>9. CASE BeginInspection
    BY <1>9 DEF BeginInspection
<1>10. CASE ReadMounts
    <2>1. seen' = [mounts |-> host["mounts"], issue |-> seen.issue, age |-> seen.age]
        BY <1>10, SeenSteps DEF CoverageInv
    <2>2. Differs(suspect)
        BY <1>10, <2>1, <1>b DEF ReadMounts
    <2> QED BY <1>10, <2>1, <2>2 DEF ReadMounts, Differs
<1>11. CASE CheckRoot
    <2> DEFINE found == \/ Differs("configured") \/ Differs("root")
                        \/ seen.mounts # base["mounts"] \/ seen.mounts = Missing
    <2>1. seen' = [mounts |-> seen.mounts, age |-> seen.age, issue |-> found]
        BY <1>11, SeenSteps, Zenon DEF CoverageInv
    <2>2. lost > seen.age /\ phase = "up" /\ stage = "check"
        BY <1>11, <2>1 DEF CheckRoot
    <2>3. found
        BY <2>2, <1>0, <1>a, <1>b DEF Aspects
    <2> HIDE DEF found
    <2>4. seen'.issue
        BY <2>1, <2>3
    <2> QED BY <1>11, <2>4 DEF CheckRoot
<1>12. CASE ScanTree
    <2> DEFINE found == seen.issue \/ Differs("root") \/ dense \/ seen.age > MaxScan
    <2>1. seen' = [mounts |-> seen.mounts, age |-> seen.age, issue |-> found]
        BY <1>12, SeenSteps, Zenon DEF CoverageInv
    <2>2. lost > seen.age /\ phase = "up" /\ stage = "scan"
        BY <1>12, <2>1 DEF ScanTree
    <2>3. found
        BY <2>2, <1>a
    <2> HIDE DEF found
    <2>4. seen'.issue
        BY <2>1, <2>3
    <2> QED BY <1>12, <2>4 DEF ScanTree
<1>13. CASE Recheck
    <2> DEFINE found == seen.issue \/ Differs("root") \/ Differs("configured")
    <2>1. seen' = [mounts |-> seen.mounts, age |-> seen.age, issue |-> found]
        BY <1>13, SeenSteps, Zenon DEF CoverageInv
    <2>2. lost > seen.age /\ phase = "up" /\ stage = "recheck"
        BY <1>13, <2>1 DEF Recheck
    <2>3. found
        BY <2>2, <1>a
    <2> HIDE DEF found
    <2>4. seen'.issue
        BY <2>1, <2>3
    <2> QED BY <1>13, <2>4 DEF Recheck
<1>14. CASE Publish
    BY <1>14 DEF Publish
<1> QED BY <1>1, <1>2, <1>3, <1>4, <1>5, <1>6, <1>7, <1>8, <1>9, <1>10, <1>11, <1>12,
           <1>13, <1>14 DEF CoverageNext

(* What is published carries the age of its inspection's start, so a loss that *)
(* is older than the snapshot is a gap in it.                                  *)
LEMMA PublishedLossStep == CoverageInv /\ [CoverageNext]_coverageVars => PublishedLoss'
<1> SUFFICES ASSUME CoverageInv, [CoverageNext]_coverageVars, (phase = "up" /\ lost > slot.age)'
             PROVE  slot'.gap
    BY DEF PublishedLoss
<1>0. /\ lost \in Ages /\ slot.age \in Ages
      /\ lost \in Nat /\ slot.age \in Nat /\ Old \in Nat
      /\ slot.gap \in BOOLEAN
    BY Limits DEF CoverageInv, CoverageTypeOK, Slot, Ages
<1>a. phase = "up" /\ lost > slot.age => slot.gap
    BY DEF CoverageInv, PublishedLoss
<1>1. CASE UNCHANGED coverageVars
    BY <1>1, <1>a DEF coverageVars, workVars
<1>2. ASSUME NEW a \in Aspects, NEW v \in Values[a], Change(a, v) PROVE slot'.gap
    BY <1>2, <1>0, <1>a DEF Change, workVars
<1>3. ASSUME NEW d \in BOOLEAN, NEW t \in BOOLEAN, Burden(d, t) PROVE slot'.gap
    BY <1>3, <1>a DEF Burden, workVars
<1>4. ASSUME NEW b \in BOOLEAN, SetWallClock(b) PROVE slot'.gap
    <2>1. slot' = [gap |-> slot.gap, age |-> slot.age, ahead |-> b]
        BY <1>4, SlotSteps DEF CoverageInv
    <2> QED BY <1>4, <2>1, <1>a DEF SetWallClock
<1>5. CASE TimePasses
    <2>1. CASE slot' = slot /\ slot = None
        BY <2>1 DEF None
    <2>2. CASE slot' = [gap |-> slot.gap, age |-> Older(slot.age), ahead |-> slot.ahead]
        <3>1. lost' = lost \/ lost' = Older(lost)
            BY <1>5 DEF TimePasses
        <3>2. lost' > Older(slot.age)
            BY <2>2
        <3>3. Older(slot.age) >= slot.age \/ Older(slot.age) = Old
            BY <1>0 DEF Older
        <3>4. lost > slot.age
            BY <1>0, <3>1, <3>2, <3>3, OlderKeepsOrder, Limits DEF Ages
        <3> QED BY <1>5, <1>a, <2>2, <3>4 DEF TimePasses
    <2> QED BY <1>5, <2>1, <2>2, SlotSteps DEF CoverageInv
<1>6. CASE StopAgent
    BY <1>6 DEF StopAgent
<1>7. CASE WorkerDies \/ BeginInspection \/ ReadMounts \/ CheckRoot \/ ScanTree \/ Recheck
    BY <1>7, <1>a DEF WorkerDies, BeginInspection, ReadMounts, CheckRoot, ScanTree, Recheck
<1>8. CASE SpawnSensor \/ BaselineMounts \/ BaselineRoot
    BY <1>8 DEF SpawnSensor, BaselineMounts, BaselineRoot
<1>9. CASE StartWorker
    BY <1>9, <1>0 DEF StartWorker
<1>10. CASE Publish
    <2> DEFINE g == seen.issue \/ host["mounts"] # seen.mounts \/ seen.age > MaxScan
    <2>1. slot' = [gap |-> g, age |-> seen.age, ahead |-> FALSE]
        BY <1>10, Zenon DEF Publish
    <2>2. lost > seen.age /\ phase = "up" /\ stage = "publish"
        BY <1>10, <2>1 DEF Publish
    <2>3. g
        BY <2>2 DEF CoverageInv, Inspected
    <2> HIDE DEF g
    <2> QED BY <2>1, <2>3
<1> QED BY <1>1, <1>2, <1>3, <1>4, <1>5, <1>6, <1>7, <1>8, <1>9, <1>10 DEF CoverageNext

-----------------------------------------------------------------------------
(* The invariant is inductive: it holds of every behaviour of the host, the  *)
(* agent's start and the worker, without any fairness.                       *)
THEOREM CoverageInvariant == CoverageSpec => []CoverageInv
<1>1. CoverageInv /\ [CoverageNext]_coverageVars => CoverageInv'
    BY CoverageTypeStep, CountedStep, InspectedStep, PublishedLossStep DEF CoverageInv
<1> QED BY CoverageInitInv, <1>1, PTL DEF CoverageSpec

(* A loss that has lasted longer than a snapshot may be old is never shown as *)
(* healthy: a fresh snapshot is of an inspection that began after the loss.   *)
THEOREM LossAlwaysShown == CoverageSpec => []LossIsShown
<1>1. CoverageInv => LossIsShown
    <2> SUFFICES ASSUME CoverageInv, phase = "up", lost > StaleAfter, Healthy PROVE FALSE
        BY DEF LossIsShown
    <2>1. lost \in Nat /\ slot.age \in Nat
        BY Limits DEF CoverageInv, CoverageTypeOK, Slot, Ages
    <2>2. slot.age <= StaleAfter /\ ~slot.gap
        BY DEF Healthy
    <2>3. lost > slot.age
        BY <2>1, <2>2, Limits
    <2> QED BY <2>2, <2>3 DEF CoverageInv, PublishedLoss
<1> QED BY <1>1, CoverageInvariant, PTL

-----------------------------------------------------------------------------
(* The reporter, for any number of detections and faults.                  *)

(* The inductive invariant *)

\* The reporter carries the request that fits where it is; a delivery it works
\* on is always the oldest one, the first that is not acknowledged.
RequestInv ==
    /\ pc = "registering" => req.kind = "register"
    /\ pc = "beating" => req.kind = "beat" /\ req.beat \in Beats
    /\ pc \in {"reporting", "acknowledge", "undelivered"} =>
          req.kind = "report" /\ req.id = acked + 1 /\ acked < last

\* The server is at most one detection ahead of the acknowledgements, and
\* exactly one when the reporter is about to acknowledge.
AheadInv ==
    /\ Len(received) <= acked + 1
    /\ pc = "acknowledge" => Len(received) = acked + 1

\* No request still on its way is for a detection after the oldest one.
LateInv == \A r \in late : r.kind = "report" => r.id <= acked + 1 /\ r.id <= last

ReportsInv == ReportsTypeOK /\ ReportedInOrder /\ RequestInv /\ AheadInv /\ LateInv

USE ReportAssumption

\* The bounded counters stay within their ranges.
LEMMA Ranges ==
  /\ 0 \in 0 .. MaxDetections /\ 0 \in 0 .. MaxFaults /\ 0 \in 0 .. MaxFlips
  /\ 0 \in 0 .. RetryCap /\ 1 \in 1 .. RetryCap
  /\ \A n \in 0 .. MaxFaults : n < MaxFaults => n + 1 \in 0 .. MaxFaults
  /\ \A n \in 0 .. RetryCap : n > 0 => n - 1 \in 0 .. RetryCap
  /\ \A n \in 1 .. RetryCap : n \in 0 .. RetryCap
  OBVIOUS

LEMMA ReportsInitInv == ReportsInit => ReportsInv
<1> SUFFICES ASSUME ReportsInit PROVE ReportsInv
  OBVIOUS
<1>a. shown \in Beats
  BY DEF ReportsInit, Beats
<1>b. received \in Seq(1 .. MaxDetections) /\ late \subseteq Requests
  BY DEF ReportsInit
<1>1. ReportsTypeOK
  BY <1>a, <1>b, Ranges DEF ReportsInit, ReportsTypeOK
<1>2. ReportedInOrder /\ RequestInv /\ AheadInv /\ LateInv
  BY DEF ReportsInit, ReportedInOrder, RequestInv, AheadInv, LateInv
<1> QED BY <1>1, <1>2 DEF ReportsInv

LEMMA LongerType == \A n \in 1 .. RetryCap : Longer(n) \in 1 .. RetryCap
  BY DEF Longer

\* The oldest row is the first that is not acknowledged.
LEMMA OldestRow ==
  ASSUME ReportsTypeOK, ReportedInOrder, outbox # {}
  PROVE  Oldest = acked + 1 /\ acked < last
<1>1. acked \in Nat /\ last \in Nat /\ outbox = (acked + 1) .. last
  BY DEF ReportsTypeOK, ReportedInOrder
<1>2. acked + 1 <= last
  BY <1>1
<1>3. acked + 1 \in outbox /\ \A e \in outbox : acked + 1 <= e
  BY <1>1, <1>2
<1>4. Oldest \in outbox /\ \A e \in outbox : Oldest <= e
  BY <1>3 DEF Oldest
<1>5. Oldest <= acked + 1 /\ acked + 1 <= Oldest
  BY <1>3, <1>4
<1> QED BY <1>1, <1>2, <1>4, <1>5

\* Whatever request the server carries out, its table stays the list of the
\* first detections, at most one ahead, and it has what it was asked to store.
LEMMA HandleTable ==
  ASSUME ReportsInv, NEW r \in Requests, Handle(r),
         r.kind = "report" => r.id <= acked + 1 /\ r.id <= last
  PROVE  /\ known' \in BOOLEAN /\ shown' \in Beats
         /\ received' \in Seq(1 .. MaxDetections)
         /\ \A i \in 1 .. Len(received') : received'[i] = i
         /\ Len(received') <= last /\ acked <= Len(received') /\ Len(received') <= acked + 1
         /\ Len(received') \in {Len(received), Len(received) + 1}
         /\ (r.kind = "report" /\ Accepted(r)) => r.id <= Len(received')
<1> USE DEF ReportsInv, ReportsTypeOK
<1>1. CASE r.kind = "report" /\ known
  <2>0. r.id \in 1 .. MaxDetections
    BY <1>1 DEF Requests
  <2>1. Ingest(r.id) /\ UNCHANGED <<known, shown>>
    BY <1>1 DEF Handle, Accepted
  <2>2. CASE r.id <= Len(received)
    <3>1. received[r.id] = r.id
      BY <2>0, <2>2 DEF ReportedInOrder
    <3>2. received' = received
      BY <2>0, <2>1, <2>2, <3>1 DEF Ingest
    <3> QED BY <1>1, <2>1, <2>2, <3>2 DEF ReportedInOrder, AheadInv
  <2>3. CASE r.id > Len(received)
    <3>1. r.id = Len(received) + 1 /\ Len(received) = acked
      BY <1>1, <2>0, <2>3 DEF ReportedInOrder
    <3>2. ~\E i \in 1 .. Len(received) : received[i] = r.id
      BY <2>0, <2>3 DEF ReportedInOrder
    <3>3. received' = Append(received, r.id)
      BY <2>1, <3>2 DEF Ingest
    <3>4. Len(received') = Len(received) + 1 /\ received' \in Seq(1 .. MaxDetections)
      BY <2>0, <3>3
    <3>5. \A i \in 1 .. Len(received') : received'[i] = i
      BY <2>0, <3>1, <3>3, <3>4 DEF ReportedInOrder
    <3> QED BY <1>1, <2>1, <3>1, <3>4, <3>5 DEF ReportedInOrder, AheadInv
  <2> QED BY <2>0, <2>2, <2>3
<1>2. CASE ~(r.kind = "report" /\ known)
  <2>1. received' = received /\ known' \in BOOLEAN /\ shown' \in Beats
    BY <1>2 DEF Handle, central, Requests
  <2>2. ~(r.kind = "report" /\ Accepted(r))
    BY <1>2 DEF Accepted
  <2> QED BY <2>1, <2>2 DEF ReportedInOrder, AheadInv
<1> QED BY <1>1, <1>2

USE DEF Fault, Give, Succeed, store, thread, central

\* A request the reporter has sent fits the invariant for late ones.
LEMMA SentRequest ==
  ASSUME ReportsInv, Sending
  PROVE  req \in Requests /\ (req.kind = "report" => req.id <= acked + 1 /\ req.id <= last)
<1>1. req.kind # "none"
  BY DEF ReportsInv, RequestInv, Sending
<1>2. req \in Requests
  BY <1>1 DEF ReportsInv, ReportsTypeOK, NoRequest
<1>3. req.kind = "report" => req.id = acked + 1 /\ acked < last
  BY DEF ReportsInv, RequestInv, Sending
<1> QED BY <1>2, <1>3 DEF ReportsInv, ReportsTypeOK

\* Steps that neither record, acknowledge nor reach the server.
LEMMA QuietStep ==
  ASSUME ReportsInv, UNCHANGED <<last, outbox, acked, received>>, ReportsTypeOK', RequestInv',
         late' \subseteq late \/ (Sending /\ late' = late \cup {req}),
         pc' = "acknowledge" => pc = "acknowledge"
  PROVE  ReportsInv'
<1>1. ReportedInOrder'
  BY DEF ReportsInv, ReportedInOrder
<1>2. AheadInv'
  BY DEF ReportsInv, AheadInv
<1>3. LateInv'
  BY SentRequest DEF ReportsInv, LateInv
<1> QED BY <1>1, <1>2, <1>3 DEF ReportsInv

LEMMA RecordStep == ASSUME ReportsInv, Record PROVE ReportsInv'
<1> USE DEF Record, ReportsInv, ReportsTypeOK
<1>1. last' = last + 1 /\ last' \in 0 .. MaxDetections /\ outbox' = outbox \cup {last + 1}
  OBVIOUS
<1>2. outbox' = (acked' + 1) .. last'
  BY <1>1 DEF ReportedInOrder
<1>3. ReportsTypeOK'
  BY <1>1
<1>4. ReportedInOrder'
  BY <1>1, <1>2 DEF ReportedInOrder
<1>5. RequestInv'
  BY <1>1 DEF RequestInv
<1>6. AheadInv'
  BY DEF AheadInv
<1>7. LateInv'
  <2> SUFFICES ASSUME NEW r \in late, r.kind = "report"
               PROVE  r.id <= acked + 1 /\ r.id <= last + 1
    BY <1>1 DEF LateInv
  <2>1. r.id \in 1 .. MaxDetections /\ r.id <= acked + 1 /\ r.id <= last
    BY DEF LateInv, Requests
  <2> QED BY <2>1
<1> QED BY <1>3, <1>4, <1>5, <1>6, <1>7

LEMMA SetHealthStep == ASSUME ReportsInv, SetHealth PROVE ReportsInv'
<1>1. ReportsTypeOK' /\ RequestInv'
  BY DEF SetHealth, ReportsInv, ReportsTypeOK, RequestInv
<1> QED BY <1>1, QuietStep DEF SetHealth

LEMMA BeginStep == ASSUME ReportsInv, Begin PROVE ReportsInv'
<1>1. ReportsTypeOK' /\ RequestInv'
  BY DEF Begin, ReportsInv, ReportsTypeOK, RequestInv, Requests
<1> QED BY <1>1, QuietStep DEF Begin

LEMMA CheckStep == ASSUME ReportsInv, Check PROVE ReportsInv'
<1>1. ReportsTypeOK' /\ RequestInv'
  <2>1. Cardinality(outbox) \in Nat
    <3>1. IsFiniteSet(1 .. MaxDetections)
      BY FS_Interval
    <3>2. IsFiniteSet(outbox)
      BY <3>1, FS_Subset DEF ReportsInv, ReportsTypeOK
    <3> QED BY <3>2, FS_CardinalityType
  <2> QED BY <2>1 DEF Check, ReportsInv, ReportsTypeOK, RequestInv, Requests, Beats
<1> QED BY <1>1, QuietStep DEF Check

LEMMA SelectStep == ASSUME ReportsInv, Select PROVE ReportsInv'
<1>1. CASE outbox = {}
  <2>1. ReportsTypeOK' /\ RequestInv'
    BY <1>1 DEF Select, ReportsInv, ReportsTypeOK, RequestInv, NoRequest
  <2> QED BY <1>1, <2>1, QuietStep DEF Select
<1>2. CASE outbox # {}
  <2>1. Oldest = acked + 1 /\ acked < last
    BY <1>2, OldestRow DEF ReportsInv
  <2>2. ReportsTypeOK' /\ RequestInv'
    BY <1>2, <2>1 DEF Select, ReportsInv, ReportsTypeOK, RequestInv, Requests
  <2> QED BY <1>2, <2>2, QuietStep DEF Select
<1> QED BY <1>1, <1>2

LEMMA AcknowledgeStep == ASSUME ReportsInv, Acknowledge PROVE ReportsInv'
<1> USE DEF Acknowledge
<1>1. req.id = acked + 1 /\ acked < last /\ Len(received) = acked + 1
  BY DEF ReportsInv, RequestInv, AheadInv
<1>2. req.id \in outbox
  BY <1>1 DEF ReportsInv, ReportsTypeOK, ReportedInOrder
<1>3. acked' = acked + 1 /\ outbox' = outbox \ {acked + 1}
  BY <1>1, <1>2
<1>4. outbox' = (acked' + 1) .. last'
  BY <1>3 DEF ReportsInv, ReportsTypeOK, ReportedInOrder
<1>5. ReportsTypeOK'
  BY <1>1, <1>3 DEF ReportsInv, ReportsTypeOK
<1>6. ReportedInOrder'
  BY <1>1, <1>3, <1>4 DEF ReportsInv, ReportedInOrder
<1>7. RequestInv' /\ AheadInv' /\ LateInv'
  BY <1>1, <1>3 DEF ReportsInv, RequestInv, AheadInv, LateInv, ReportsTypeOK, Requests
<1> QED BY <1>5, <1>6, <1>7 DEF ReportsInv

LEMMA FailureStep ==
  ASSUME ReportsInv, DeliveryFailed \/ StoreError
  PROVE  ReportsInv'
<1>0. /\ wait' \in 0 .. RetryCap /\ retry' \in 1 .. RetryCap
      /\ faults' \in 0 .. MaxFaults /\ failed' \in Nat
  <2>1. wait' = retry /\ retry' = Longer(retry)
    BY DEF DeliveryFailed, StoreError
  <2>2. faults' = faults \/ (faults < MaxFaults /\ faults' = faults + 1)
    BY DEF DeliveryFailed, StoreError
  <2>3. failed' = failed \/ failed' = failed + 1
    BY DEF DeliveryFailed, StoreError
  <2>4. wait' \in 0 .. RetryCap /\ retry' \in 1 .. RetryCap
    BY <2>1, LongerType, Ranges DEF ReportsInv, ReportsTypeOK
  <2>5. faults' \in 0 .. MaxFaults
    BY <2>2, Ranges DEF ReportsInv, ReportsTypeOK
  <2>6. failed' \in Nat
    BY <2>3 DEF ReportsInv, ReportsTypeOK
  <2> QED BY <2>4, <2>5, <2>6
<1>1. ReportsTypeOK'
  BY <1>0 DEF DeliveryFailed, StoreError, ReportsInv, ReportsTypeOK
<1>2. RequestInv'
  BY DEF DeliveryFailed, StoreError, RequestInv
<1> QED BY <1>1, <1>2, QuietStep DEF DeliveryFailed, StoreError

LEMMA LifeStep ==
  ASSUME ReportsInv, Kill \/ Start \/ Tick
  PROVE  ReportsInv'
<1>1. CASE Kill
  <2>1. pc \in {"registering", "beating", "reporting"} => req \in Requests
    BY SentRequest DEF Sending
  <2>2. late' \subseteq Requests
    BY <1>1, <2>1 DEF Kill, ReportsInv, ReportsTypeOK
  <2>3. ReportsTypeOK' /\ RequestInv'
    BY <1>1, <2>2 DEF Kill, ReportsInv, ReportsTypeOK, RequestInv
  <2> QED BY <1>1, <2>3, QuietStep DEF Kill, Sending
<1>2. CASE Start
  <2>1. ReportsTypeOK' /\ RequestInv'
    BY <1>2, Ranges DEF Start, ReportsInv, ReportsTypeOK, RequestInv
  <2> QED BY <1>2, <2>1, QuietStep DEF Start
<1>3. CASE Tick
  <2>0. wait' \in 0 .. RetryCap
    BY <1>3, Ranges DEF Tick, ReportsInv, ReportsTypeOK
  <2>1. ReportsTypeOK' /\ RequestInv'
    BY <1>3, <2>0 DEF Tick, ReportsInv, ReportsTypeOK, RequestInv
  <2> QED BY <1>3, <2>1, QuietStep DEF Tick
<1> QED BY <1>1, <1>2, <1>3

LEMMA NoAnswerStep == ASSUME ReportsInv, NoAnswer PROVE ReportsInv'
<1> USE DEF NoAnswer, Answered
<1>1. late' \subseteq Requests
  BY SentRequest DEF ReportsInv, ReportsTypeOK
<1>a. faults' \in 0 .. MaxFaults
  BY Ranges DEF ReportsInv, ReportsTypeOK
<1>b. wait' \in 0 .. RetryCap /\ retry' \in 1 .. RetryCap
  BY LongerType, Ranges DEF ReportsInv, ReportsTypeOK
<1>2. ReportsTypeOK'
  BY <1>1, <1>a, <1>b DEF ReportsInv, ReportsTypeOK, Sending
<1>3. RequestInv'
  BY DEF ReportsInv, RequestInv, Sending
<1> QED BY <1>2, <1>3, QuietStep

\* The table after the server carried out a request; the reporter's side is
\* the same for both kinds of steps that do it.
LEMMA ServeStep == ASSUME ReportsInv, Serve PROVE ReportsInv'
<1> USE DEF Serve
<1>0. /\ req \in Requests
      /\ req.kind = "report" => req.id <= acked + 1 /\ req.id <= last
  BY SentRequest
<1>1. /\ known' \in BOOLEAN /\ shown' \in Beats
      /\ received' \in Seq(1 .. MaxDetections)
      /\ \A i \in 1 .. Len(received') : received'[i] = i
      /\ Len(received') <= last /\ acked <= Len(received') /\ Len(received') <= acked + 1
      /\ (req.kind = "report" /\ Accepted(req)) => req.id <= Len(received')
  BY <1>0, HandleTable
<1>a. wait' \in 0 .. RetryCap /\ retry' \in 1 .. RetryCap
  BY LongerType, Ranges DEF Answered, ReportsInv, ReportsTypeOK
<1>b. lastHealth' \in BOOLEAN /\ registered' \in BOOLEAN /\ beatDue' \in BOOLEAN
  BY DEF Answered, ReportsInv, ReportsTypeOK, RequestInv, Beats
<1>c. req' \in Requests \cup {NoRequest}
  BY DEF Answered, ReportsInv, ReportsTypeOK
<1>2. ReportsTypeOK'
  BY <1>1, <1>a, <1>b, <1>c DEF Answered, ReportsInv, ReportsTypeOK, Sending
<1>3. ReportedInOrder'
  BY <1>1 DEF ReportsInv, ReportedInOrder
<1>4. RequestInv' /\ LateInv'
  BY DEF Answered, ReportsInv, RequestInv, LateInv, Sending
<1>5. pc' = "acknowledge" => req.id = acked + 1 /\ req.kind = "report" /\ Accepted(req)
  BY DEF Answered, ReportsInv, RequestInv, Sending
<1>6. AheadInv'
  BY <1>1, <1>5 DEF AheadInv, ReportsInv, ReportsTypeOK
<1> QED BY <1>2, <1>3, <1>4, <1>6 DEF ReportsInv

LEMMA ServeLateStep == ASSUME ReportsInv, ServeLate PROVE ReportsInv'
<1> USE DEF ServeLate
<1>0. PICK r \in late : Handle(r) /\ late' = late \ {r}
  OBVIOUS
<1>1. r \in Requests /\ (r.kind = "report" => r.id <= acked + 1 /\ r.id <= last)
  BY DEF ReportsInv, ReportsTypeOK, LateInv
<1>2. /\ known' \in BOOLEAN /\ shown' \in Beats
      /\ received' \in Seq(1 .. MaxDetections)
      /\ \A i \in 1 .. Len(received') : received'[i] = i
      /\ Len(received') <= last /\ acked <= Len(received') /\ Len(received') <= acked + 1
      /\ Len(received') \in {Len(received), Len(received) + 1}
  BY <1>0, <1>1, HandleTable
<1>3. ReportsTypeOK'
  BY <1>0, <1>2 DEF ReportsInv, ReportsTypeOK
<1>4. ReportedInOrder'
  BY <1>2 DEF ReportsInv, ReportedInOrder
<1>5. RequestInv' /\ LateInv'
  BY <1>0 DEF ReportsInv, RequestInv, LateInv
<1>6. AheadInv'
  BY <1>2 DEF ReportsInv, AheadInv, ReportsTypeOK
<1> QED BY <1>3, <1>4, <1>5, <1>6 DEF ReportsInv

LEMMA NextInv == ReportsInv /\ [ReportsNext]_reportsVars => ReportsInv'
<1> SUFFICES ASSUME ReportsInv, [ReportsNext]_reportsVars PROVE ReportsInv'
  OBVIOUS
<1>1. CASE UNCHANGED reportsVars
  BY <1>1 DEF reportsVars, ReportsInv, ReportsTypeOK, ReportedInOrder, RequestInv, AheadInv, LateInv
<1> QED
  BY <1>1, RecordStep, SetHealthStep, BeginStep, CheckStep, SelectStep, AcknowledgeStep,
     FailureStep, LifeStep, NoAnswerStep, ServeStep, ServeLateStep
  DEF ReportsNext, Loop

\* Every variable keeps its type, for any number of detections and faults: the
\* delay between attempts never exceeds max_retry.
THEOREM ReportsTyped == ReportsSpec => []ReportsTypeOK
<1>1. ReportsInv => ReportsTypeOK
  BY DEF ReportsInv
<1> QED BY <1>1, ReportsInitInv, NextInv, PTL DEF ReportsSpec

\* The server's table is the agent's list of detections, in order and each once,
\* whatever was resent or arrived late; the outbox drops only what is there.
THEOREM InOrderAndOnce == ReportsSpec => []ReportedInOrder
<1>1. ReportsInv => ReportedInOrder
  BY DEF ReportsInv
<1> QED BY <1>1, ReportsInitInv, NextInv, PTL DEF ReportsSpec

\* Each step of the agent and the server is a step of the abstract log, or none.
LEMMA LogStep == ReportsInv /\ [ReportsNext]_reportsVars => [Log!Next]_(Log!vars)
<1> USE DEF Log!Next, Log!Record, Log!Receive, Log!Forget, Log!vars
<1> SUFFICES ASSUME ReportsInv, [ReportsNext]_reportsVars PROVE [Log!Next]_(Log!vars)
  OBVIOUS
<1>1. CASE Record
  BY <1>1 DEF Record
<1>2. CASE Acknowledge
  <2>1. req.id = acked + 1 /\ acked < last /\ Len(received) = acked + 1
    BY <1>2 DEF Acknowledge, ReportsInv, RequestInv, AheadInv
  <2>2. req.id \in outbox
    BY <2>1 DEF ReportsInv, ReportsTypeOK, ReportedInOrder
  <2>3. acked < Len(received) /\ acked' = acked + 1 /\ UNCHANGED <<last, received>>
    BY <1>2, <2>1, <2>2 DEF Acknowledge, ReportsInv, ReportsTypeOK
  <2> QED BY <2>3
<1>3. CASE Serve
  <2>1. req \in Requests /\ (req.kind = "report" => req.id <= acked + 1 /\ req.id <= last)
    BY <1>3, SentRequest DEF Serve
  <2>2. Len(received') <= last /\ Len(received') \in {Len(received), Len(received) + 1}
    BY <1>3, <2>1, HandleTable DEF Serve
  <2>3. UNCHANGED <<last, acked>>
    BY <1>3 DEF Serve
  <2> QED BY <2>2, <2>3 DEF ReportsInv, ReportsTypeOK
<1>4. CASE ServeLate
  <2>1. PICK r \in late : Handle(r)
    BY <1>4 DEF ServeLate
  <2>2. r \in Requests /\ (r.kind = "report" => r.id <= acked + 1 /\ r.id <= last)
    BY DEF ReportsInv, ReportsTypeOK, LateInv
  <2>3. Len(received') <= last /\ Len(received') \in {Len(received), Len(received) + 1}
    BY <2>1, <2>2, HandleTable
  <2>4. UNCHANGED <<last, acked>>
    BY <1>4 DEF ServeLate
  <2> QED BY <2>3, <2>4 DEF ReportsInv, ReportsTypeOK
<1>5. CASE SetHealth \/ Begin \/ Check \/ Select \/ DeliveryFailed \/ StoreError
             \/ NoAnswer \/ Kill \/ Start \/ Tick \/ UNCHANGED reportsVars
  BY <1>5 DEF SetHealth, Begin, Check, Select, DeliveryFailed, StoreError, NoAnswer, Kill, Start,
              Tick, reportsVars
<1> QED BY <1>1, <1>2, <1>3, <1>4, <1>5 DEF ReportsNext, Loop

\* The outbox, the reporter and the server together implement the abstract log:
\* the server receives the detections in order and each once, and the agent
\* forgets one only after the server has it.
THEOREM ReportsImplementLog == ReportsSpec => LogSpec
<1>1. ReportsInit => Log!Init
  BY DEF ReportsInit, Log!Init
<1> QED BY <1>1, ReportsInitInv, NextInv, LogStep, PTL DEF ReportsSpec, LogSpec, Log!Spec
=============================================================================
