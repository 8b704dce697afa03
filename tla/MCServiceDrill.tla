-------------------------- MODULE MCServiceDrill --------------------------
(* Backups of two parts: <<a, a>> and <<b, a>> are sound, the others fail. *)
EXTENDS ServiceDrill

MCChunks == {"a", "b"}
MCBroken == [body \in [1..2 -> MCChunks] |->
    IF body = <<"a", "b">> THEN {"orders"}
    ELSE IF body = <<"b", "b">> THEN {"restore"}
    ELSE {}]
MCPlans == {[engine |-> "sqlite", userVersion |-> TRUE, tables |-> <<"orders">>],
            [engine |-> "postgresql", userVersion |-> FALSE, tables |-> <<"orders">>]}
=============================================================================
