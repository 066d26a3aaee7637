---------------------------- MODULE IdleRefresh ----------------------------
(***************************************************************************)
(* How often an interactive browse re-reads the cluster by itself: the     *)
(* poll, the quiet time and the doubling interval of cli.py `_browse`, and *)
(* `_touched`, which tells the timer's reloads from a reader's.            *)
(*                                                                         *)
(* Time is counted in polls of 0.3s, the unit a browse that watches a      *)
(* recheck waits in.  What the recheck says is Session's subject; here it  *)
(* may agree or not, at any moment.                                        *)
(***************************************************************************)
EXTENDS PaceContract

CONSTANTS
    Idles,    \* what a reading's cost may make of `idle`
    NoIdle,   \* None: a replay, or a read dearer than _REFRESH_COST_LIMIT
    Exponent, \* the least n for which 2 ** n is no float: 1024
    MaxKeys,  \* bound: how many keys the reader presses
    MaxAlone  \* bound: how many refreshes in a row are followed

ASSUME IdleAssumption ==
    /\ NoIdle \notin Nat
    /\ Cap \in Nat \ {0}
    /\ Idles \subseteq 1 .. Cap \cup {NoIdle}
    /\ Exponent \in Nat /\ MaxKeys \in Nat /\ MaxAlone \in Nat

VARIABLES
    pc,      \* "reading", "browsing", "leaving" with RELOAD, "over", "crashed"
    step,    \* the interval this browse waits, or NoIdle
    watch,   \* the recheck it polls: "none", "asking", "agrees", "moved"
    quiet,   \* the polls that have expired, added up
    backoff, \* _IDLE_BACKOFF
    waited,  \* how long `select` has been in this wait
    keys     \* keys pressed

browse == <<idle, step, watch>>
vars == <<pc, browse, quiet, backoff, fired, waited, since, alone, keys>>

-----------------------------------------------------------------------------
\* Doubling while nobody is there, up to the cap.
Step(i, n) == IF i = NoIdle THEN NoIdle ELSE Lesser(i * Doubled[n], Cap)

\* What `select` waits before it asks: short while there is a recheck to poll.
Poll == IF watch = "none" THEN step ELSE 1

Init ==
    /\ pc = "reading"
    /\ idle = NoIdle /\ step = NoIdle /\ watch = "none"
    /\ quiet = 0 /\ backoff = 0 /\ fired = FALSE
    /\ waited = 0 /\ since = 0 /\ alone = 0 /\ keys = 0

\* A reading has been taken and a browse opens on it, with or without a recheck
\* behind it.  The doubling is computed as an integer and then made a float.
Draw ==
    /\ pc = "reading"
    /\ \E i \in Idles, w \in {"none", "asking"} :
          IF i # NoIdle /\ backoff >= Exponent
          THEN pc' = "crashed" /\ UNCHANGED browse
          ELSE pc' = "browsing" /\ idle' = i /\ step' = Step(i, backoff) /\ watch' = w
    /\ quiet' = 0 /\ waited' = 0 /\ since' = 0
    /\ UNCHANGED <<backoff, fired, alone, keys>>

\* The recheck's thread has its answer.
Answer ==
    /\ pc = "browsing" /\ watch = "asking"
    /\ watch' \in {"agrees", "moved"}
    /\ UNCHANGED <<pc, idle, step, quiet, backoff, fired, waited, since, alone, keys>>

\* Seeded bug: asked whether to go on waiting, it says so.
ExpireInverted ==
    /\ quiet' = Lesser(quiet + Poll, Cap) /\ waited' = 0
    /\ IF watch # "moved" /\ step # NoIdle /\ quiet + Poll < step
       THEN /\ pc' = "leaving" /\ fired' = TRUE
            /\ backoff' = backoff + 1 /\ alone' = alone + 1
       ELSE UNCHANGED <<pc, backoff, fired, alone>>

\* time_to_reload, when a wait has expired: a recheck that moved reloads at
\* once, and the quiet time that has been added up does when it is a step's.
\* The former does not set _IDLE_FIRED, and passes for a reader (`Leave`).
Expire ==
    CASE watch = "moved" ->
            /\ pc' = "leaving" /\ alone' = 0
            /\ UNCHANGED <<quiet, backoff, fired, waited>>
      [] watch # "moved" /\ step # NoIdle /\ quiet + Poll >= step ->
            /\ alone < MaxAlone
            /\ pc' = "leaving" /\ fired' = TRUE
            /\ backoff' = backoff + 1 /\ alone' = alone + 1
            /\ quiet' = 0 /\ waited' = 0
      [] OTHER ->
            /\ quiet' = Lesser(quiet + Poll, Cap) /\ waited' = 0
            /\ UNCHANGED <<pc, backoff, fired, alone>>

\* A moment goes by without a key.  A browse with nothing to poll and nothing
\* to wait for blocks on the keyboard instead.
Tick ==
    /\ pc = "browsing" /\ Poll # NoIdle
    /\ since' = Lesser(since + 1, Cap)
    /\ IF waited + 1 < Poll
       THEN waited' = waited + 1 /\ UNCHANGED <<pc, quiet, backoff, fired, alone>>
       ELSE Expire
    /\ UNCHANGED <<browse, keys>>

-----------------------------------------------------------------------------
(* The reader.                                                             *)

Key ==
    /\ pc = "browsing" /\ keys < MaxKeys
    /\ keys' = keys + 1 /\ alone' = 0 /\ waited' = 0

\* A key `select` deals with itself: the highlight moves.
Arrow == Key /\ UNCHANGED <<pc, browse, quiet, backoff, fired, since>>

\* _touched, of anything but the timer's own RELOAD: a key, or a recheck's.
Touched == fired' = FALSE /\ backoff' = 0

\* Enter, Right or Left into another view of the same reading.
Open == Key /\ Touched /\ UNCHANGED <<pc, browse, quiet, since>>

PressR == Key /\ pc' = "leaving" /\ UNCHANGED <<browse, quiet, backoff, fired, since>>

Quit ==
    /\ pc = "browsing" /\ pc' = "over"
    /\ Touched
    /\ UNCHANGED <<browse, quiet, waited, since, alone, keys>>

\* `select` returns RELOAD: _touched, then _reload.
Leave ==
    /\ pc = "leaving" /\ pc' = "reading"
    /\ IF fired THEN fired' = FALSE /\ UNCHANGED backoff ELSE Touched
    /\ UNCHANGED <<browse, quiet, waited, since, alone, keys>>

Ended == pc \in {"over", "crashed"} /\ UNCHANGED vars

Next == Draw \/ Answer \/ Tick \/ Arrow \/ Open \/ PressR \/ Quit \/ Leave \/ Ended

\* The clock ticks and the main thread runs; nobody has to press a key.
Spec == Init /\ [][Next]_vars /\ WF_vars(Tick) /\ WF_vars(Draw) /\ WF_vars(Leave)

-----------------------------------------------------------------------------
(* Correctness.                                                            *)

\* Every variable has its type, and no browse waits longer than _IDLE_CAP.
TypeOK ==
    /\ pc \in {"reading", "browsing", "leaving", "over", "crashed"}
    /\ idle \in Idles \cup {NoIdle} /\ step \in 1 .. Cap \cup {NoIdle}
    /\ watch \in {"none", "asking", "agrees", "moved"}
    /\ quiet \in 0 .. Cap /\ since \in 0 .. Cap
    /\ waited \in 0 .. Cap
    /\ backoff \in Nat /\ fired \in BOOLEAN
    /\ alone \in 0 .. MaxAlone /\ keys \in 0 .. MaxKeys

\* "One nobody is watching settles at one re-read every five minutes": once the
\* rechecks agree, whatever was pressed before.
SettlesAtCap ==
    <>[](watch # "moved") =>
        <>[](pc = "over" \/ (pc # "crashed" /\ step \in {Cap, NoIdle}))

=============================================================================
