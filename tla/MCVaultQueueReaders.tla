------------------------ MODULE MCVaultQueueReaders ------------------------
(* Instances of VaultQueueReaders for TLC. *)
EXTENDS VaultQueueReaders

CONSTANTS a, b, t1

MCHash == [o \in Objects |-> o]
MCSize == [o \in Objects |-> 1]
MCConfig == [p \in Procs |-> t1]
MCLimits == {[items |-> 3, bytes |-> 6]}
=============================================================================
