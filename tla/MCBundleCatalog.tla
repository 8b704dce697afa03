--------------------------- MODULE MCBundleCatalog ---------------------------
(* Small instances of BundleCatalog for TLC. *)
EXTENDS BundleCatalog, TLC

CONSTANTS b1, m1, m2, g1, g2, g3, r1, r2, c1, c2, p1, p2

MCIdOf == [m \in Manifests |-> b1]

\* Requests of one decision, chunks and completions differ in name only.
Perms == Permutations(Good) \cup Permutations(Revoked) \cup Permutations(Chunks)
           \cup Permutations(Completers)
=============================================================================
