---------------------- MODULE MCAgentOverTransport ----------------------
(* Small instances of AgentOverTransport, with the replies of MCOrchestrator. *)
EXTENDS AgentOverTransport, MCOrchestrator
=============================================================================
