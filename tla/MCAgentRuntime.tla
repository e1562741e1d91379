--------------------------- MODULE MCAgentRuntime ---------------------------
(* Small instances of AgentRuntime.                                        *)
EXTENDS AgentRuntime

CONSTANTS c1

\* Real sending to c1, and the two ways it is switched off between runs.
SendingOn == [mode |-> "autopilot", realSend |-> TRUE, allow |-> {c1}]
NotAllowed == [mode |-> "autopilot", realSend |-> TRUE, allow |-> {}]
Shadow == [mode |-> "shadow", realSend |-> FALSE, allow |-> {c1}]
Approve == [mode |-> "approve", realSend |-> FALSE, allow |-> {c1}]
Observe == [mode |-> "observe", realSend |-> FALSE, allow |-> {}]

OnlySending == {SendingOn}
SendingOrNot == {SendingOn, NotAllowed}
AllConfigs == {SendingOn, NotAllowed, Shadow, Approve, Observe}

=============================================================================
