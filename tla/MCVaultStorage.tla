--------------------------- MODULE MCVaultStorage ---------------------------
(* Small instances of VaultStorage for TLC. *)
EXTENDS VaultStorage, TLC

CONSTANTS a1, a2, h1, h2, s1, s2

MCSize == (h1 :> 2) @@ (h2 :> 1)
MCRole == (h1 :> "control") @@ (h2 :> "revoke")

MCLimit(n, m) == [objs |-> n, bytes |-> m]
MCBudget(n, m, i, j) == [all |-> MCLimit(n, m), agent |-> [a \in Agents |-> MCLimit(i, j)]]

\* Room for two objects of which one may be an agent's, and for
\* one revocation; the revocation budget switched off.
Tight == [normal |-> MCBudget(2, 4, 1, 3), revoke |-> MCBudget(1, 2, 1, 1)]
Plain == [normal |-> MCBudget(3, 4, 2, 3), revoke |-> MCBudget(0, 0, 0, 0)]

TwoConfigs == {Tight, Plain}

Perms == Permutations(Servers)
=============================================================================
