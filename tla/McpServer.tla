------------------------------ MODULE McpServer ------------------------------
(***************************************************************************)
(* `nodetop mcp` (mcp.py): one thread reads JSON-RPC lines from a client   *)
(* that may send them faster than they are answered, runs the real command *)
(* for each tool call, and rations the dry-runs those commands spend.      *)
(*                                                                         *)
(* A line is what its handling tells apart.  Lines are numbered by the     *)
(* order they are sent in, and a reply is addressed to a number, or to     *)
(* Null when the id it carries is null.                                    *)
(***************************************************************************)
EXTENDS McpContract

CONSTANTS
    Lines,    \* the lines the client may send
    MaxSpan,  \* bound: how long a command runs
    MaxLines, \* bound: how many lines are sent
    MaxTime   \* bound: the clock stops here

LineKinds ==
    [kind : {"garbage", "malformed", "other"}, id : BOOLEAN]
        \cup [kind : {"call"}, id : BOOLEAN, probes : BOOLEAN, declared : BOOLEAN]

ASSUME McpAssumption ==
    /\ Lines \subseteq LineKinds
    /\ Interval \in Nat \ {0}
    /\ MaxSpan \in Nat /\ MaxLines \in Nat /\ MaxTime \in Nat

VARIABLES
    now,     \* time.monotonic()
    open,    \* the client may send more
    noted,   \* the reply to come says that the dry-run was skipped
    began,   \* when the command began
    last,    \* _Throttle.last, or Never
    asked    \* when the control plane was last asked, or Never

call == <<asking, noted, began, last>>
client == <<open, heard, sent>>
plane == <<asked, burst>>
vars == <<now, client, taken, pc, call, plane, replies>>

-----------------------------------------------------------------------------
Never == -1 - Interval - MaxSpan

\* Whether a message that is read asks for a tool: it has an id, and the
\* protocol's own questions come first.
Runs(line) == line.kind = "call" /\ line.id

Init ==
    /\ now = 0 /\ open = TRUE /\ heard = TRUE /\ sent = <<>> /\ taken = 0
    /\ pc = "reading" /\ asking = FALSE /\ noted = FALSE /\ began = Never
    /\ last = Never /\ asked = Never /\ burst = Never /\ replies = <<>>

Tick ==
    /\ now < MaxTime
    /\ pc = "running" => now - began < MaxSpan
    /\ now' = now + 1
    /\ UNCHANGED <<client, taken, pc, call, plane, replies>>

\* The client sends without waiting for an answer.
Send ==
    /\ open /\ Len(sent) < MaxLines
    /\ \E line \in Lines : sent' = Append(sent, line)
    /\ UNCHANGED <<now, open, heard, taken, pc, call, plane, replies>>

\* The client has no more to ask, and may have stopped listening too.
Close ==
    /\ heard /\ open' = FALSE /\ heard' \in BOOLEAN
    /\ UNCHANGED <<now, sent, taken, pc, call, plane, replies>>

-----------------------------------------------------------------------------
(* The server.                                                             *)

\* Seeded bug: any reading of the clock is far enough from the last.
AllowTooSoon == now - last >= 0

\* _Throttle.allow.
Allow == now - last >= Interval

\* One line, flushed: the session goes on if there is somebody to read it.
Write(to, how, note) ==
    IF heard
    THEN pc' = "reading" /\ replies' = Append(replies, [to |-> to, how |-> how, noted |-> note])
    ELSE pc' = "over" /\ UNCHANGED replies

Reply(to, how) == Write(to, how, FALSE)

\* Seeded bug: what is not a tool call is answered, notification or not.
AnsweredAlways(n) ==
    LET line == sent[n] IN
    \/ line.kind = "garbage" /\ Reply(Null, "error")
    \/ line.kind = "malformed" /\ Reply(IF line.id THEN n ELSE Null, "error")
    \/ line.kind \in {"other", "call"} /\ \E how \in {"result", "error"} : Reply(n, how)

\* A line is read that is answered at once, or not at all.
Answered(n) ==
    LET line == sent[n] IN
    \/ line.kind = "garbage" /\ Reply(Null, "error")
    \/ line.kind = "malformed" /\ Reply(IF line.id THEN n ELSE Null, "error")
    \/ line.kind = "other" /\ line.id /\ \E how \in {"result", "error"} : Reply(n, how)
    \/ line.kind \in {"other", "call"} /\ ~line.id /\ UNCHANGED <<pc, replies>>

ReadLine == taken < Len(sent) /\ pc = "reading" /\ taken' = taken + 1

Handle ==
    /\ ReadLine /\ ~Runs(sent[taken + 1])
    /\ Answered(taken + 1)
    /\ UNCHANGED <<now, client, call, plane>>

\* Seeded bug: the caller's own `declared` is what the reply notes.
CallNotesDeclared ==
    /\ ReadLine /\ Runs(sent[taken + 1])
    /\ LET line == sent[taken + 1]
           wants == line.probes /\ ~line.declared IN
       /\ asking' = (wants /\ Allow)
       /\ noted' = line.declared
       /\ last' = IF wants /\ Allow THEN now ELSE last
    /\ pc' = "running" /\ began' = now
    /\ UNCHANGED <<now, client, plane, replies>>

\* `call`, up to the command: a tool that probes does so only if the throttle
\* allows it, and is otherwise told to take the declared lists, with a note.
Call ==
    /\ ReadLine /\ Runs(sent[taken + 1])
    /\ LET line == sent[taken + 1]
           wants == line.probes /\ ~line.declared IN
       /\ asking' = (wants /\ Allow)
       /\ noted' = (wants /\ ~Allow)
       /\ last' = IF wants /\ Allow THEN now ELSE last
    /\ pc' = "running" /\ began' = now
    /\ UNCHANGED <<now, client, plane, replies>>

\* The command asks the control plane, if it gets that far: bad usage, no batch
\* system and a broken snapshot end it before.
Probe ==
    /\ pc = "running" /\ asking
    /\ asked' = now /\ burst' = began
    /\ UNCHANGED <<now, client, taken, pc, call, replies>>

\* Seeded bug: a command that fails raises through `call`.
FinishSilent ==
    /\ pc = "running"
    /\ \/ Write(taken, "result", noted)
       \/ pc' = "reading" /\ UNCHANGED replies
    /\ asking' = FALSE /\ noted' = FALSE
    /\ UNCHANGED <<now, client, taken, began, last, plane>>

\* The command's payload, or its diagnosis with isError, and the note.
Finish ==
    /\ pc = "running"
    /\ Write(taken, "result", noted)
    /\ asking' = FALSE /\ noted' = FALSE
    /\ UNCHANGED <<now, client, taken, began, last, plane>>

\* End of file, once everything sent has been read.
End ==
    /\ ~open /\ pc = "reading" /\ taken = Len(sent)
    /\ pc' = "over"
    /\ UNCHANGED <<now, client, taken, call, plane, replies>>

Over == pc = "over" /\ UNCHANGED vars

Server == Handle \/ Call \/ Finish \/ End

Next == Tick \/ Send \/ Close \/ Probe \/ Over \/ Server

\* The server runs, and a command ends: what it starts is bounded by timeouts.
Spec == Init /\ [][Next]_vars /\ WF_vars(Tick) /\ WF_vars(Server)

-----------------------------------------------------------------------------
(* Correctness.                                                            *)

Moments == 0 .. MaxTime \cup {Never}

\* Every variable has its type, and a command runs only for a line that asked.
TypeOK ==
    /\ now \in 0 .. MaxTime /\ open \in BOOLEAN /\ heard \in BOOLEAN
    /\ sent \in Seq(Lines) /\ Len(sent) <= MaxLines /\ taken \in 0 .. Len(sent)
    /\ pc \in {"reading", "running", "over"}
    /\ asking \in BOOLEAN /\ noted \in BOOLEAN
    /\ began \in Moments /\ last \in Moments /\ asked \in Moments /\ burst \in Moments
    /\ \A i \in DOMAIN replies :
          replies[i] \in [to : 0 .. Len(sent), how : {"result", "error"}, noted : BOOLEAN]
    /\ pc = "running" => Runs(Line)
    /\ asking => Line.probes /\ ~Line.declared

\* A request the client sends is answered, unless the client goes away.
AllAnswered ==
    \A n \in 1 .. MaxLines :
        (n <= Len(sent) /\ Asking(n)) ~>
            (~heard \/ \E i \in DOMAIN replies : replies[i].to = n)
=============================================================================
