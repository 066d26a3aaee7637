---------------------------- MODULE PaceContract ----------------------------
(***************************************************************************)
(* What an idle browse promises (cli.py `_browse`): between one sign of    *)
(* life and the next, its timer re-reads the cluster less and less often.  *)
(* A key is such a sign, and so is a reload that a recheck's correction    *)
(* made, which `_touched` cannot tell from a reader's.  It is said of as   *)
(* much of the browse's state as it takes; IdleRefresh keeps the word.     *)
(***************************************************************************)
EXTENDS Integers

CONSTANT
    Cap    \* _IDLE_CAP

VARIABLES
    idle,  \* the interval this reading's cost asks for
    fired, \* _IDLE_FIRED
    since, \* how long ago the reading was drawn
    alone  \* the timer's refreshes since a key, or a reload that a recheck made

Lesser(m, n) == IF m <= n THEN m ELSE n

\* 2 ** n.
Doubled[n \in Nat] == IF n = 0 THEN 1 ELSE 2 * Doubled[n - 1]

TimerReloads == ~fired /\ fired'

\* After n refreshes of the timer in a row, with no key and no reload made by a
\* recheck among them, the next replaces a reading that has stood for 2^n
\* intervals, or the cap: whatever polls, agreeing rechecks, reloads and keys
\* went before, the timer does not re-read faster than that.
PacedByNobody ==
    [][TimerReloads => since' >= Lesser(idle * Doubled[alone], Cap)]_<<idle, fired, since, alone>>
=============================================================================
