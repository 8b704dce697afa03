-------------------------- MODULE MCAgentResponse --------------------------
(* Instances of AgentResponse for TLC. *)
EXTENDS AgentResponse

\* One policy that blocks and one that observes, in force one after the other.
MCPolicies ==
    {[notBefore |-> 1, expires |-> 2, autoBlock |-> TRUE],
     [notBefore |-> 1, expires |-> 3, autoBlock |-> FALSE]}
=============================================================================
