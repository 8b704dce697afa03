--------------------------- MODULE MCPolicyTrust --------------------------
(* Instances of PolicyTrust for TLC. *)
EXTENDS PolicyTrust, TLC

CONSTANTS s1, s2, k1, k2, strict, lax, h1, pol

D(hash, version, key, from, to, settings, rollback) ==
    [hash |-> hash, version |-> version, policyId |-> pol, keyId |-> key, wellFormed |-> TRUE,
     issued |-> 1, notBefore |-> from, expires |-> to, hosts |-> {h1}, groups |-> {},
     settings |-> settings, rollback |-> rollback]

Undo(approval) == [source |-> 1, hash |-> "one", approval |-> approval]

\* A second document of version 2, which names a key this host does not trust and
\* may be signed with it.
Foreign == D("foreign", 2, k2, 1, 2, strict, NoRollback)

MCDocs ==
    {D("one", 1, k1, 1, 2, strict, NoRollback),
     D("two", 2, k1, 1, 3, lax, NoRollback),
     Foreign,
     D("undo", 3, k1, 1, 2, strict, Undo("ticket")),
     D("undo again", 4, k1, 1, 2, strict, Undo("ticket"))}

MCEndorsed == MCDocs \ {Foreign}

Symmetry == Permutations(Starts)
=============================================================================
