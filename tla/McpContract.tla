---------------------------- MODULE McpContract ----------------------------
(***************************************************************************)
(* What `nodetop mcp` promises (mcp.py): to its client, replies; to the    *)
(* control plane, breathing space.  It is said of as much of the server's  *)
(* state as it takes; McpServer is how the server keeps its word.          *)
(***************************************************************************)
EXTENDS Integers, Sequences

CONSTANT
    Interval \* _probe_interval(); 0 would switch the throttle off

VARIABLES
    heard,   \* the client reads the replies
    sent,    \* the lines sent so far
    taken,   \* how many of them have been read
    pc,      \* "reading", "running" a command, "over"
    asking,  \* the command may spend dry-runs
    burst,   \* when the command that asked the control plane last began
    replies  \* the replies written

Null == 0

Line == sent[taken]

Asking(n) == sent[n].id /\ sent[n].kind # "garbage"

\* The requests that have been dealt with, up to the one whose command runs.
Dealt == {n \in 1 .. taken : Asking(n) /\ (pc = "running" => n < taken)}

\* Every request that has been dealt with has exactly one reply, in the order
\* the requests came in, and nothing else has one.
AnsweredOnce ==
    /\ heard => {replies[i].to : i \in DOMAIN replies} \ {Null} = Dealt
    /\ \A i, j \in DOMAIN replies :
          i < j /\ Null \notin {replies[i].to, replies[j].to} => replies[i].to < replies[j].to

\* "A tight loop": commands that ask the control plane begin at least an
\* interval apart, however fast the calls come in.
BurstsApart ==
    [][burst' # burst => burst' - burst >= Interval]_burst

\* "A downgrade is said out loud": an answer for which the control plane should
\* have been asked and was not to be carries the note, and no other answer does.
DowngradeSaid ==
    [][pc = "running" /\ pc' = "reading" =>
          replies'[Len(replies')].noted = (Line.probes /\ ~Line.declared /\ ~asking)]_<<pc, replies>>
=============================================================================
