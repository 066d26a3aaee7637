----------------------------- MODULE MCMcpServer -----------------------------
(* Instances of McpServer for TLC.                                         *)
EXTENDS McpServer

Tool(id, probes, declared) ==
    [kind |-> "call", id |-> id, probes |-> probes, declared |-> declared]

\* A tool that asks the control plane, one told not to, and one that does not;
\* and around them a call nobody waits for, garbage, malformed messages, and
\* messages that are answered on the spot.
MCLines ==
    {Tool(TRUE, TRUE, FALSE), Tool(TRUE, TRUE, TRUE), Tool(TRUE, FALSE, FALSE),
     Tool(FALSE, TRUE, FALSE)}
        \cup [kind : {"garbage"}, id : {FALSE}]
        \cup [kind : {"malformed", "other"}, id : BOOLEAN]
=============================================================================
