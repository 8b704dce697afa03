--------------------------- MODULE AgentResponse ---------------------------
(***************************************************************************)
(* The event loop of a running agent and its automatic response             *)
(* (argos-agent main.rs, argos-response lib.rs) under the policy that was   *)
(* activated when it started (PolicyTrust says which policies those are).   *)
(* An event names the process instance that caused it; by the time it is    *)
(* handled that process may be gone and its PID taken by another one.  One  *)
(* PID is modelled: its successive instances are 1, 2, ... and 0 means that *)
(* nobody has it now.  The wall clock may be set to any time at any moment. *)
(***************************************************************************)
EXTENDS Integers

CONSTANTS
    Policies,     \* activated policies: [notBefore, expires, autoBlock]
    MaxTime,      \* bound on the wall clock
    MaxInstances  \* bound on the processes that get the PID

Times == 0..MaxTime
Instances == 0..MaxInstances

ASSUME ResponseConstants ==
    /\ MaxInstances \in Nat \ {0} /\ MaxTime \in Nat
    /\ Policies \subseteq [notBefore : Nat, expires : Nat, autoBlock : BOOLEAN]

VARIABLES
    clock,     \* now_ms()
    born,      \* how many instances the PID has had
    live,      \* the instance that has the PID now, 0 when none has
    running,   \* the agent's event loop runs
    policy,    \* policy_runtime: the validity of the activated policy
    invalid,   \* policy_runtime["invalid"]
    autoBlock, \* config.response.auto_block
    lapsed,    \* history: the agent has read a time outside the policy's validity
    step,      \* where the loop is in process_event
    target,    \* the instance named by event.process, 0 when it is unknown
    fd,        \* the instance the pidfd refers to
    results,   \* table response_actions: rows [instance, outcome]
    signals    \* history: SIGKILLs sent, [to, for, lapsed]

procVars == <<born, live>>
guardVars == <<invalid, autoBlock, lapsed>>
eventVars == <<step, target, fd>>
outVars == <<results, signals>>
responseVars == <<clock, procVars, running, policy, guardVars, eventVars, outVars>>

Steps == {"idle", "evaluated", "respond", "opened", "matched", "signalled"}
Outcomes == {"observed_threshold", "rejected", "failed_or_unconfirmed", "succeeded"}

ResponseInit ==
    /\ clock \in Times
    /\ born = 0 /\ live = 0
    /\ running = FALSE /\ policy \in Policies
    /\ invalid = FALSE /\ autoBlock = FALSE /\ lapsed = FALSE
    /\ step = "idle" /\ target = 0 /\ fd = 0
    /\ results = {} /\ signals = {}

InForce(now) == policy.notBefore <= now /\ now < policy.expires

SetClock(t) ==
    /\ clock' = t
    /\ UNCHANGED <<procVars, running, policy, guardVars, eventVars, outVars>>

(* The processes of the host. *)
Spawned ==
    /\ live = 0 /\ born < MaxInstances
    /\ born' = born + 1 /\ live' = born + 1
    /\ UNCHANGED <<clock, running, policy, guardVars, eventVars, outVars>>

Exits ==
    /\ live # 0
    /\ live' = 0
    /\ UNCHANGED <<clock, born, running, policy, guardVars, eventVars, outVars>>

(* The agent. *)
\* main: the activated settings replace the local ones and the loop starts.
StartLoop(p) ==
    /\ ~running
    /\ running' = TRUE /\ policy' = p
    /\ invalid' = FALSE /\ autoBlock' = p.autoBlock /\ lapsed' = FALSE
    /\ UNCHANGED <<clock, procVars, eventVars, outVars>>

\* A kill or the end of the sensor channel, wherever process_event is.
StopLoop ==
    /\ running
    /\ running' = FALSE
    /\ step' = "idle" /\ target' = 0 /\ fd' = 0
    /\ UNCHANGED <<clock, procVars, policy, guardVars, outVars>>

\* guard_policy_time without the memory of an earlier lapse.
GuardForgets == ~InForce(clock)

\* guard_policy_time: whether automatic response is off from here on.
GuardPolicyTime == invalid \/ ~InForce(clock)

Guarded ==
    /\ invalid' = GuardPolicyTime
    /\ lapsed' = (lapsed \/ ~InForce(clock))

\* The loop takes an event of any instance there has been, or of an unknown one
\* (0), guards the configuration and runs the detection engine.
ReceiveEvent(i) ==
    /\ running /\ step = "idle" /\ i <= born
    /\ Guarded
    /\ autoBlock' = (autoBlock /\ ~GuardPolicyTime)
    /\ target' = i /\ step' = "evaluated"
    /\ UNCHANGED <<clock, procVars, running, policy, fd, outVars>>

HealthTick ==
    /\ running /\ step = "idle"
    /\ Guarded
    /\ autoBlock' = (autoBlock /\ ~GuardPolicyTime)
    /\ UNCHANGED <<clock, procVars, running, policy, eventVars, outVars>>

\* The end of process_event: the response's audit row, unless its insertion fails
\* (which is only logged); then the event and its detections are stored.
Finish(outcome) ==
    /\ results' \in {results, results \cup {[instance |-> target, outcome |-> outcome]}}
    /\ step' = "idle" /\ target' = 0 /\ fd' = 0

\* The score does not make the event a candidate for blocking.
NoResponse ==
    /\ step = "evaluated"
    /\ Guarded
    /\ step' = "idle" /\ target' = 0
    /\ UNCHANGED <<clock, procVars, running, policy, autoBlock, fd, outVars>>

\* A candidate in observation mode, or one whose identity is unknown: recorded only.
RecordOnly ==
    /\ step = "evaluated"
    /\ Guarded
    /\ \/ /\ ~autoBlock \/ GuardPolicyTime
          /\ Finish("observed_threshold")
       \/ /\ autoBlock /\ ~GuardPolicyTime /\ target = 0
          /\ Finish("rejected")
    /\ UNCHANGED <<clock, procVars, running, policy, autoBlock, signals>>

\* should_block, with the policy's time guarded once more just before.
DecideToBlock ==
    /\ step = "evaluated"
    /\ Guarded
    /\ autoBlock /\ ~GuardPolicyTime /\ target # 0
    /\ step' = "respond"
    /\ UNCHANGED <<clock, procVars, running, policy, autoBlock, target, fd, outVars>>

\* LinuxResponder::execute: pidfd_open refers to whoever has the PID now.
OpenPidfd ==
    /\ step = "respond"
    /\ \/ /\ live = 0
          /\ Finish("failed_or_unconfirmed")
       \/ /\ live # 0
          /\ fd' = live /\ step' = "opened"
          /\ UNCHANGED <<target, results>>
    /\ UNCHANGED <<clock, procVars, running, policy, guardVars, signals>>

\* Mutant: the pidfd is trusted to be the process of the event.
CheckSkipped ==
    /\ step = "opened"
    /\ step' = "matched"
    /\ UNCHANGED <<clock, procVars, running, policy, guardVars, target, fd, outVars>>

\* process_identity_matches reads /proc/<pid> while the pidfd is held.
CheckIdentity ==
    /\ step = "opened"
    /\ \/ /\ live # target
          /\ Finish("failed_or_unconfirmed")
       \/ /\ live = target
          /\ step' = "matched"
          /\ UNCHANGED <<target, fd, results>>
    /\ UNCHANGED <<clock, procVars, running, policy, guardVars, signals>>

\* pidfd_send_signal reaches the process the pidfd refers to, or nobody.
SendSignal ==
    /\ step = "matched"
    /\ \/ /\ live # fd
          /\ Finish("failed_or_unconfirmed")
          /\ UNCHANGED signals
       \/ /\ live = fd
          /\ signals' = signals \cup {[to |-> fd, for |-> target, lapsed |-> lapsed]}
          /\ step' = "signalled"
          /\ UNCHANGED <<target, fd, results>>
    /\ UNCHANGED <<clock, procVars, running, policy, guardVars>>

\* Mutant: a signal that was sent counts as a process that ended.
ConfirmUnseen ==
    /\ step = "signalled"
    /\ Finish("succeeded")
    /\ UNCHANGED <<clock, procVars, running, policy, guardVars, signals>>

\* poll: success only once the process is gone; otherwise a second passes.
Confirm ==
    /\ step = "signalled"
    /\ \/ live # fd /\ Finish("succeeded")
       \/ live = fd /\ Finish("failed_or_unconfirmed")
    /\ UNCHANGED <<clock, procVars, running, policy, guardVars, signals>>

ResponseNext ==
    \/ \E t \in Times : SetClock(t)
    \/ Spawned \/ Exits
    \/ \E p \in Policies : StartLoop(p)
    \/ StopLoop
    \/ \E i \in Instances : ReceiveEvent(i)
    \/ HealthTick \/ NoResponse \/ RecordOnly \/ DecideToBlock
    \/ OpenPidfd \/ CheckIdentity \/ SendSignal \/ Confirm

ResponseSpec == ResponseInit /\ [][ResponseNext]_responseVars

-----------------------------------------------------------------------------
(* The agent's variables and the response table hold what their types say. *)
ResponseTypeOK ==
    /\ clock \in Times /\ born \in Instances /\ live \in Instances
    /\ running \in BOOLEAN /\ policy \in Policies
    /\ invalid \in BOOLEAN /\ autoBlock \in BOOLEAN /\ lapsed \in BOOLEAN
    /\ step \in Steps /\ target \in Instances /\ fd \in Instances
    /\ results \subseteq [instance : Instances, outcome : Outcomes]
    /\ signals \subseteq [to : Instances, for : Instances, lapsed : BOOLEAN]

(* The process that is killed is the one the event was about, though its PID may *)
(* be reused at any moment between the event and the signal (pidfd, then the     *)
(* identity check, then the signal through the pidfd).                           *)
KillsOnlyTheObserved == \A k \in signals : k.to = k.for

(* An agent that has once read a time outside its policy's validity sends no     *)
(* signal until it is restarted, even when the clock is set back into it.        *)
LapseStopsResponse == \A k \in signals : ~k.lapsed

(* The audit says "succeeded" only of a process that no longer exists, and only  *)
(* of one this agent, or a run of it before, sent the signal to.                 *)
SucceededIsDead ==
    \A r \in results : r.outcome = "succeeded" =>
        r.instance # live /\ \E k \in signals : k.to = r.instance

(* The table of responses is typed and true (insert_response_result).            *)
ResultsAreTrue == ResponseTypeOK /\ SucceededIsDead
=============================================================================
