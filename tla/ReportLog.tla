------------------------------ MODULE ReportLog ------------------------------
(***************************************************************************)
(* What reporting to the central server promises: detections are numbered  *)
(* as they are recorded, the server receives them in that order, each      *)
(* once, and the agent forgets one only after the server has it.           *)
(***************************************************************************)
EXTENDS Naturals

VARIABLES
    recorded,   \* detections recorded by the agent
    received,   \* ... of which the server has the first ones
    forgotten   \* ... and the agent keeps the last ones

vars == <<recorded, received, forgotten>>

Init == recorded = 0 /\ received = 0 /\ forgotten = 0

Record == recorded' = recorded + 1 /\ UNCHANGED <<received, forgotten>>

Receive == received < recorded /\ received' = received + 1 /\ UNCHANGED <<recorded, forgotten>>

Forget == forgotten < received /\ forgotten' = forgotten + 1 /\ UNCHANGED <<recorded, received>>

Next == Record \/ Receive \/ Forget

Spec == Init /\ [][Next]_vars
=============================================================================
