------------------------- MODULE MCVaultBundleJobs -------------------------
(* Instances of VaultBundleJobs for TLC. *)
EXTENDS VaultBundleJobs

CONSTANTS c1, c2, c3, m1, x

MCSize == [o \in Objects |-> IF o = c1 THEN 2 ELSE 1]

\* A bundle of two chunks, and another manifest that claims its id.
MCChunks == [m \in Manifests |-> IF m = m1 THEN {c1, c2} ELSE {c3}]
MCBundleId == [m \in Manifests |-> x]

TightLimits == {[items |-> 2, bytes |-> 3]}
=============================================================================
