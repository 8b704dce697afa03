--------------------------- MODULE VaultDelivery ---------------------------
(***************************************************************************)
(* What the upload queue promises, without leases, locks, files or a       *)
(* network: an object is accepted once, delivered at least once while it   *)
(* is queued, and confirmed only after it was delivered.                   *)
(***************************************************************************)
CONSTANT Objects

VARIABLES
    queued,     \* accepted, not yet confirmed
    delivered,  \* held by the vault server
    confirmed   \* archived with its receipt

vars == <<queued, delivered, confirmed>>

Init == queued = {} /\ delivered = {} /\ confirmed = {}

\* A file, or all new chunks of a bundle at once.
Accept(new) ==
    /\ new \cap (queued \cup confirmed) = {}
    /\ queued' = queued \cup new
    /\ UNCHANGED <<delivered, confirmed>>

Deliver(o) ==
    /\ o \in queued
    /\ delivered' = delivered \cup {o}
    /\ UNCHANGED <<queued, confirmed>>

Confirm(o) ==
    /\ o \in queued \cap delivered
    /\ queued' = queued \ {o}
    /\ confirmed' = confirmed \cup {o}
    /\ UNCHANGED delivered

Next ==
    \/ \E new \in SUBSET Objects : Accept(new)
    \/ \E o \in Objects : Deliver(o) \/ Confirm(o)

Spec == Init /\ [][Next]_vars
=============================================================================
