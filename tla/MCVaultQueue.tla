---------------------------- MODULE MCVaultQueue ----------------------------
(* An instance of VaultQueue for TLC. *)
EXTENDS VaultQueue, TLC

CONSTANTS w1, w2, p1, p2, i1, i2, a, a2, t1, t2, k1, k2, k3

\* The same bytes under two kinds.
MCHash == [o \in Objects |-> a]
MCSize == [o \in Objects |-> 1]

\* The producer p2 is configured for another target than everyone else.
MCConfig == [p \in Procs |-> IF p = p2 THEN t2 ELSE t1]

PairLimits == {[items |-> 1, bytes |-> 2], [items |-> 2, bytes |-> 2]}

Symmetry == Permutations(Ids) \cup Permutations(Workers) \cup Permutations(Tokens)
=============================================================================
