----------------------------- MODULE MCAgentCalls -----------------------------
(* AgentCalls with a call and a send of the same template and a raw call.  *)
EXTENDS AgentCalls

CONSTANTS call, send, raw, template, own

MCCalls == {call, send, raw}
MCGiven == [c \in MCCalls |-> IF c = raw THEN own ELSE template]
===============================================================================
