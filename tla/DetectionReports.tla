-------------------------- MODULE DetectionReports --------------------------
(***************************************************************************)
(* Reporting of detections and of the sensor's health to the central       *)
(* server: argos-storage/src/outbox.rs (the outbox), argos-agent/src/      *)
(* reporter.rs (the reporter thread) and argos-central/src/main.rs (the    *)
(* server's register, heartbeat and ingest handlers).                      *)
(*                                                                         *)
(* A detection and its outbox row are one transaction; a detection is      *)
(* named by the number of its row.  One agent: rows of the server are kept *)
(* apart by agent id, and the outbox is never sent under another id.  A    *)
(* request that got no answer in time may still be handled later.          *)
(***************************************************************************)
EXTENDS Integers, Sequences, FiniteSets

CONSTANTS
    MaxDetections,  \* bound: detections
    MaxFaults,      \* bound: unanswered requests, database errors, kills
    MaxFlips,       \* bound: changes of the sensor's health
    RetryCap        \* max_retry, in units of retry

VARIABLES
    last,        \* number of the newest outbox row
    outbox,      \* detection_outbox
    acked,       \* delivery_counters.acknowledged
    failed,      \* delivery_counters.failed_attempts
    healthy,     \* the sensor's health, as the agent knows it
    pc,          \* where the reporter thread is
    registered,  \* locals of the reporter
    lastHealth,
    beatDue,     \* next_heartbeat has come
    wait,        \* time to next_attempt
    retry,
    req,         \* the request that is being sent
    late,        \* requests given up by the reporter, still on their way
    known,       \* agents: this agent has a row
    shown,       \* ... and what its last heartbeat said
    received,    \* detections
    faults, flips

store == <<last, outbox, acked, failed>>
thread == <<pc, registered, lastHealth, beatDue, wait, retry>>
central == <<known, shown, received>>
reportsVars == <<store, healthy, thread, req, late, central, faults, flips>>

ASSUME ReportAssumption ==
    /\ MaxDetections \in Nat /\ MaxFaults \in Nat /\ MaxFlips \in Nat
    /\ RetryCap \in Nat \ {0}

Beats == [health : BOOLEAN, pending : Nat, failed : Nat]

\* register_agent, heartbeat, ingest_detection: one field tells them apart.
Requests == [kind : {"register"}] \cup [kind : {"beat"}, beat : Beats]
              \cup [kind : {"report"}, id : 1 .. MaxDetections]

NoRequest == [kind |-> "none"]

ReportsInit ==
    /\ last = 0 /\ outbox = {} /\ acked = 0 /\ failed = 0
    /\ healthy = TRUE
    /\ pc = "off" /\ registered = FALSE /\ lastHealth = TRUE /\ beatDue = TRUE
    /\ wait = 0 /\ retry = 1
    /\ req = NoRequest /\ late = {}
    /\ known = FALSE /\ shown = [health |-> TRUE, pending |-> 0, failed |-> 0]
    /\ received = << >>
    /\ faults = 0 /\ flips = 0

-----------------------------------------------------------------------------
(* Helpers *)

Fault == faults < MaxFaults /\ faults' = faults + 1

Oldest == CHOOSE d \in outbox : \A e \in outbox : d <= e

\* retry.saturating_mul(2).min(max_retry)
Longer(n) == IF 2 * n <= RetryCap THEN 2 * n ELSE RetryCap

\* The end of an attempt.
Succeed ==
    /\ pc' = "loop" /\ retry' = 1 /\ wait' = 0
    /\ req' = NoRequest
    /\ UNCHANGED registered

Give ==
    /\ pc' = "loop" /\ registered' = FALSE
    /\ wait' = retry /\ retry' = Longer(retry)
    /\ req' = NoRequest

-----------------------------------------------------------------------------
(* The agent *)

\* record_detection without a retention request, and notify: the reporter wakes
\* up anyway when it polls.
Record ==
    /\ pc # "off"
    /\ last < MaxDetections
    /\ last' = last + 1
    /\ outbox' = outbox \cup {last + 1}
    /\ UNCHANGED <<acked, failed, healthy, thread, req, late, central, faults, flips>>

SetHealth ==
    /\ pc # "off"
    /\ flips < MaxFlips
    /\ healthy' = ~healthy
    /\ flips' = flips + 1
    /\ UNCHANGED <<store, thread, req, late, central, faults>>

\* The loop: register once, then a heartbeat if one is due, then one delivery.
Begin ==
    /\ pc = "loop" /\ wait = 0
    /\ IF registered
         THEN pc' = "check" /\ UNCHANGED req
         ELSE pc' = "registering" /\ req' = [kind |-> "register"]
    /\ UNCHANGED <<store, healthy, registered, lastHealth, beatDue, wait, retry, late, central, faults, flips>>

\* Mutant: heartbeats only tell changes.
BeatNeededOnChange == healthy # lastHealth

BeatNeeded == beatDue \/ healthy # lastHealth

Check ==
    /\ pc = "check"
    /\ IF BeatNeeded
         THEN /\ pc' = "beating"
              /\ req' = [kind |-> "beat",
                         beat |-> [health |-> healthy, pending |-> Cardinality(outbox), failed |-> failed]]
         ELSE pc' = "select" /\ UNCHANGED req
    /\ UNCHANGED <<store, healthy, registered, lastHealth, beatDue, wait, retry, late, central, faults, flips>>

\* pending_deliveries with limit 1
Select ==
    /\ pc = "select"
    /\ IF outbox = {}
         THEN Succeed
         ELSE /\ pc' = "reporting"
              /\ req' = [kind |-> "report", id |-> Oldest]
              /\ UNCHANGED <<registered, wait, retry>>
    /\ UNCHANGED <<store, healthy, lastHealth, beatDue, late, central, faults, flips>>

\* Mutant: the row is not found and stays.
AcknowledgeKept ==
    /\ pc = "acknowledge"
    /\ Succeed
    /\ UNCHANGED <<store, healthy, lastHealth, beatDue, late, central, faults, flips>>

\* acknowledge_delivery
Acknowledge ==
    /\ pc = "acknowledge"
    /\ outbox' = outbox \ {req.id}
    /\ acked' = IF req.id \in outbox THEN acked + 1 ELSE acked
    /\ Succeed
    /\ UNCHANGED <<last, failed, healthy, lastHealth, beatDue, late, central, faults, flips>>

\* record_delivery_failure; it may fail itself.
DeliveryFailed ==
    /\ pc = "undelivered"
    /\ \/ failed' = failed + 1 /\ UNCHANGED faults
       \/ Fault /\ UNCHANGED failed
    /\ Give
    /\ UNCHANGED <<last, outbox, acked, healthy, lastHealth, beatDue, late, central, flips>>

\* The event store refuses a statement.
StoreError ==
    /\ pc \in {"check", "select", "acknowledge"}
    /\ pc = "check" => BeatNeeded
    /\ Fault
    /\ Give
    /\ UNCHANGED <<store, healthy, lastHealth, beatDue, late, central, flips>>

Kill ==
    /\ pc # "off"
    /\ Fault
    /\ pc' = "off"
    /\ req' = NoRequest
    /\ late' = IF pc \in {"registering", "beating", "reporting"} THEN late \cup {req} ELSE late
    /\ UNCHANGED <<store, healthy, registered, lastHealth, beatDue, wait, retry, central, flips>>

\* spawn: nothing but the store survives a restart.
Start ==
    /\ pc = "off"
    /\ pc' = "loop" /\ registered' = FALSE /\ lastHealth' = TRUE /\ beatDue' = TRUE
    /\ wait' = 0 /\ retry' = 1
    /\ healthy' = TRUE
    /\ UNCHANGED <<store, req, late, central, faults, flips>>

Tick ==
    /\ pc # "off"
    /\ \/ wait > 0 /\ wait' = wait - 1 /\ UNCHANGED beatDue
       \/ ~beatDue /\ beatDue' = TRUE /\ UNCHANGED wait
    /\ UNCHANGED <<store, healthy, pc, registered, lastHealth, retry, req, late, central, faults, flips>>

-----------------------------------------------------------------------------
(* The central server *)

\* INSERT ... ON CONFLICT DO NOTHING on (agent_id, delivery_id)
Ingest(d) ==
    received' = IF \E i \in 1 .. Len(received) : received[i] = d THEN received ELSE Append(received, d)

\* A request is carried out; an agent without a row is refused.
Accepted(r) == r.kind = "register" \/ known

Handle(r) ==
    \/ /\ r.kind = "register"
       /\ known' = TRUE
       /\ UNCHANGED <<shown, received>>
    \/ /\ r.kind = "beat" /\ known
       /\ shown' = r.beat
       /\ UNCHANGED <<known, received>>
    \/ /\ r.kind = "report" /\ known
       /\ Ingest(r.id)
       /\ UNCHANGED <<known, shown>>
    \/ /\ ~Accepted(r)
       /\ UNCHANGED central

Sending == pc \in {"registering", "beating", "reporting"}

\* What the reporter does with the answer to its request.
Answered(ok) ==
    \/ /\ ok /\ pc = "registering"
       /\ registered' = TRUE /\ pc' = "check" /\ req' = NoRequest
       /\ UNCHANGED <<lastHealth, beatDue, wait, retry>>
    \/ /\ ok /\ pc = "beating"
       /\ beatDue' = FALSE /\ lastHealth' = req.beat.health /\ pc' = "select" /\ req' = NoRequest
       /\ UNCHANGED <<registered, wait, retry>>
    \/ /\ ok /\ pc = "reporting"
       /\ pc' = "acknowledge"
       /\ UNCHANGED <<registered, lastHealth, beatDue, wait, retry, req>>
    \/ /\ ~ok /\ pc = "reporting"
       /\ pc' = "undelivered"
       /\ UNCHANGED <<registered, lastHealth, beatDue, wait, retry, req>>
    \/ /\ ~ok /\ pc # "reporting"
       /\ Give
       /\ UNCHANGED <<lastHealth, beatDue>>

Serve ==
    /\ Sending
    /\ Handle(req)
    /\ Answered(Accepted(req))
    /\ UNCHANGED <<store, healthy, late, faults, flips>>

\* Mutant: any answer, a redirect too, counts as success.
NoAnswerTrusted ==
    /\ Sending
    /\ Fault
    /\ late' = late \cup {req}
    /\ Answered(TRUE)
    /\ UNCHANGED <<store, healthy, central, flips>>

\* No success is seen within the time limit; the request may be on its way.
NoAnswer ==
    /\ Sending
    /\ Fault
    /\ late' = late \cup {req}
    /\ Answered(FALSE)
    /\ UNCHANGED <<store, healthy, central, flips>>

ServeLate ==
    /\ \E r \in late :
         /\ Handle(r)
         /\ late' = late \ {r}
    /\ UNCHANGED <<store, healthy, thread, req, faults, flips>>

-----------------------------------------------------------------------------
Loop == Begin \/ Check \/ Select \/ Acknowledge \/ DeliveryFailed \/ Serve

ReportsNext ==
    \/ Record \/ SetHealth
    \/ Loop \/ StoreError \/ NoAnswer
    \/ Kill \/ Start \/ Tick
    \/ ServeLate

ReportsSpec == ReportsInit /\ [][ReportsNext]_reportsVars

\* The thread runs, the clock too, and the agent is started again; after the
\* faults the server answers.
Fairness == WF_reportsVars(Loop) /\ WF_reportsVars(Tick) /\ WF_reportsVars(Start)

FairReportsSpec == ReportsSpec /\ Fairness

-----------------------------------------------------------------------------
(* Properties *)

\* Every variable keeps its type; in particular the retry delay never exceeds
\* max_retry, and every request is well formed.
ReportsTypeOK ==
    /\ last \in 0 .. MaxDetections /\ outbox \subseteq 1 .. MaxDetections
    /\ acked \in 0 .. MaxDetections /\ failed \in Nat
    /\ healthy \in BOOLEAN
    /\ pc \in {"off", "loop", "check", "select", "registering", "beating", "reporting",
               "acknowledge", "undelivered"}
    /\ registered \in BOOLEAN /\ lastHealth \in BOOLEAN /\ beatDue \in BOOLEAN
    /\ wait \in 0 .. RetryCap /\ retry \in 1 .. RetryCap
    /\ req \in Requests \cup {NoRequest} /\ late \subseteq Requests
    /\ known \in BOOLEAN /\ shown \in Beats /\ received \in Seq(1 .. MaxDetections)
    /\ faults \in 0 .. MaxFaults /\ flips \in 0 .. MaxFlips

\* The server's table is the agent's list of detections from the first one on,
\* in order and each once, however often a delivery was sent; and the agent
\* dropped from its outbox, and counted, only what is in that table.
ReportedInOrder ==
    /\ \A i \in 1 .. Len(received) : received[i] = i
    /\ Len(received) <= last
    /\ acked <= Len(received)
    /\ outbox = (acked + 1) .. last

Log == INSTANCE ReportLog WITH recorded <- last, received <- Len(received), forgotten <- acked

\* The reporting implements the abstract log.
LogSpec == Log!Spec

\* Every detection is reported and acknowledged in the end.
AllReported == \A d \in 1 .. MaxDetections : d \in outbox ~> d \notin outbox

\* When the sensor's health settles, the server shows it in the end and does
\* not fall back to an older heartbeat.
HealthShown ==
    /\ <>[](healthy /\ pc # "off") => <>[]shown.health
    /\ <>[](~healthy /\ pc # "off") => <>[](~shown.health)
=============================================================================
